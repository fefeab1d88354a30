------------------------------- MODULE Virtio -------------------------------
(***************************************************************************)
(* The disk driver, virtio_disk.c, with the device it drives.  Processes   *)
(* in virtio_disk_rw, the interrupt handler and the device interleave:     *)
(* the first two exclude each other by vdisk_lock, which sleep releases;   *)
(* the device and kill() know no lock.                                     *)
(*                                                                         *)
(* Each process transfers the buffer it has locked, so buffers, blocks and *)
(* processes share their names.  The ring indices are 16-bit numbers in    *)
(* the code, and numbers modulo WRAP here.                                 *)
(***************************************************************************)
EXTENDS Integers, FiniteSets, FiniteSetsExt, Sequences, SequencesExt

CONSTANTS
  DiskUsers,    \* processes, their buffers and blocks
  Writers,      \* those that write their block; the others read it
  NUM,          \* descriptors, and entries of each ring
  WRAP,         \* 2^16
  MaxRequests,  \* bounds on the requests and kills of a behaviour
  MaxKills

ASSUME VirtioAssumption ==
  /\ NUM \in Nat \ {0, 1, 2}
  /\ WRAP \in {k * NUM : k \in 2 .. 8}
  /\ MaxRequests \in Nat /\ MaxKills \in Nat
  /\ Writers \subseteq DiskUsers

VARIABLES
  free,         \* disk.free: the set of free descriptors
  desc,         \* disk.desc
  req, info,    \* disk.ops, disk.info
  avail, used,  \* the two rings and their idx
  used_idx,
  bdisk,        \* b->disk
  bdata,        \* b->data
  platter,      \* what the device has stored
  rw,           \* each process: where it is in virtio_disk_rw, and idx[]
  device,       \* seen: its place in avail; taken: heads it works on;
                \* late: completions it has not raised an interrupt for
  isr,          \* VIRTIO_MMIO_INTERRUPT_STATUS
  draining,     \* virtio_disk_intr is running, and holds vdisk_lock
  requests, kills,
  vpanic

vvars == <<free, desc, req, info, avail, used, used_idx, bdisk, bdata, platter,
           rw, device, isr, draining, requests, kills, vpanic>>

Desc == 0 .. NUM - 1
NoDesc == [addr |-> <<>>, next |-> NUM]    \* next = NUM: no F_NEXT
Stale == 2                                 \* b->data before a read
First(p) == rw[p].idx[1]

VirtioInit ==
  /\ free = Desc
  /\ desc = [d \in Desc |-> NoDesc]
  /\ req = [d \in Desc |-> <<>>]
  /\ info = [d \in Desc |-> [b |-> <<>>, status |-> 0]]
  /\ avail = [idx |-> WRAP - 1, ring |-> [k \in Desc |-> 0]]
  /\ used = [idx |-> WRAP - 1, ring |-> [k \in Desc |-> 0]]
  /\ used_idx = WRAP - 1
  /\ bdisk = [b \in DiskUsers |-> 0]
  /\ bdata = [b \in DiskUsers |-> 0]
  /\ platter = [b \in DiskUsers |-> 0]
  /\ rw = [p \in DiskUsers |-> [pc |-> "idle", idx |-> <<>>]]
  /\ device = [seen |-> WRAP - 1, taken |-> {}, late |-> FALSE]
  /\ isr = FALSE
  /\ draining = FALSE
  /\ requests = 0 /\ kills = 0
  /\ vpanic = ""

-----------------------------------------------------------------------------
(* The driver *)

(* wakeup(&disk.free[0]) *)
WakeFree(r) == [q \in DiskUsers |->
                  IF r[q].pc = "full" THEN [r[q] EXCEPT !.pc = "retry"] ELSE r[q]]

alloc3_desc ==
  LET first == Min(free)
      second == Min(free \ {first})
  IN  <<first, second, Min(free \ {first, second})>>

(* The descriptors of a request, and its place in the avail ring. *)
Submit(p, idx) ==
  /\ free' = free \ Range(idx)
  /\ req' = [req EXCEPT ![idx[1]] = [write |-> p \in Writers, sector |-> p]]
  /\ desc' = [desc EXCEPT
       ![idx[1]] = [addr |-> <<"ops", idx[1]>>, next |-> idx[2]],
       ![idx[2]] = [addr |-> <<"data", p>>, next |-> idx[3]],
       ![idx[3]] = [addr |-> <<"status", idx[1]>>, next |-> NUM]]
  /\ info' = [info EXCEPT ![idx[1]] = [b |-> <<p>>, status |-> 255]]
  /\ bdisk' = [bdisk EXCEPT ![p] = 1]
  /\ avail' = [idx |-> (avail.idx + 1) % WRAP,
               ring |-> [avail.ring EXCEPT ![avail.idx % NUM] = idx[1]]]
  /\ rw' = [rw EXCEPT ![p] = [pc |-> "wait", idx |-> idx]]

(* Without three descriptors alloc3_desc frees those it got, and each      *)
(* free_desc wakes the others that wait for one.                           *)
TryAlloc(p) ==
  \/ Cardinality(free) >= 3 /\ Submit(p, alloc3_desc)
  \/ /\ Cardinality(free) < 3
     /\ rw' = [(IF free = {} THEN rw ELSE WakeFree(rw))
                 EXCEPT ![p] = [pc |-> "full", idx |-> <<>>]]
     /\ UNCHANGED <<free, desc, req, info, avail, bdisk>>

(* A writer writes something new, a reader's buffer holds something old. *)
Rw(p) ==
  /\ rw[p].pc \in {"idle", "done"}
  /\ ~ draining /\ vpanic = ""
  /\ requests < MaxRequests
  /\ requests' = requests + 1
  /\ bdata' = [bdata EXCEPT ![p] = IF p \in Writers THEN 1 - platter[p]
                                         ELSE Stale]
  /\ TryAlloc(p)
  /\ UNCHANGED <<used, used_idx, platter, device, isr, draining, kills, vpanic>>

RwRetry(p) ==
  /\ rw[p].pc = "retry"
  /\ ~ draining /\ vpanic = ""
  /\ TryAlloc(p)
  /\ UNCHANGED <<used, used_idx, bdata, platter, device, isr, draining,
                 requests, kills, vpanic>>

(* free_chain follows next while F_NEXT is set. *)
Chain(i) == LET j == desc[i].next
            IN  {i} \cup IF j = NUM THEN {}
                ELSE {j} \cup (IF desc[j].next = NUM THEN {} ELSE {desc[j].next})

(* Mutant: frees the head only. *)
RwWokenFreesFirst(p) ==
  LET chain == {First(p)}
  IN  /\ rw[p].pc = "woken"
      /\ ~ draining /\ vpanic = ""
      /\ bdisk[p] = 0
      /\ rw' = WakeFree([rw EXCEPT ![p] = [@ EXCEPT !.pc = "done", !.idx = <<>>]])
      /\ info' = [info EXCEPT ![First(p)].b = <<>>]
      /\ desc' = [d \in Desc |-> IF d \in chain THEN NoDesc ELSE desc[d]]
      /\ free' = free \cup chain
      /\ UNCHANGED <<req, avail, used, used_idx, bdisk, bdata, platter, device,
                     isr, draining, requests, kills, vpanic>>

(* Mutant: does not look at b->disk again. *)
RwWokenOnce(p) ==
  LET chain == Chain(First(p))
  IN  /\ rw[p].pc = "woken"
      /\ ~ draining /\ vpanic = ""
      /\ rw' = WakeFree([rw EXCEPT ![p] = [@ EXCEPT !.pc = "done", !.idx = <<>>]])
      /\ info' = [info EXCEPT ![First(p)].b = <<>>]
      /\ desc' = [d \in Desc |-> IF d \in chain THEN NoDesc ELSE desc[d]]
      /\ free' = free \cup chain
      /\ UNCHANGED <<req, avail, used, used_idx, bdisk, bdata, platter, device,
                     isr, draining, requests, kills, vpanic>>

(* Awake after sleep(b): the request is done, or it sleeps again. *)
RwWoken(p) ==
  LET chain == Chain(First(p))
  IN  /\ rw[p].pc = "woken"
      /\ ~ draining /\ vpanic = ""
      /\ IF bdisk[p] = 1
         THEN /\ rw' = [rw EXCEPT ![p].pc = "wait"]
              /\ UNCHANGED <<info, desc, free, vpanic>>
         ELSE /\ rw' = WakeFree([rw EXCEPT ![p] =
                                   [@ EXCEPT !.pc = "done", !.idx = <<>>]])
              /\ info' = [info EXCEPT ![First(p)].b = <<>>]
              /\ desc' = [d \in Desc |-> IF d \in chain THEN NoDesc ELSE desc[d]]
              /\ free' = free \cup chain
              /\ vpanic' = IF chain \cap free = {} THEN "" ELSE "free_desc 2"
      /\ UNCHANGED <<req, avail, used, used_idx, bdisk, bdata, platter, device,
                     isr, draining, requests, kills>>

(* kill() takes no lock of the driver, and makes a sleeper run. *)
KillUser(p) ==
  /\ rw[p].pc \in {"wait", "full"}
  /\ kills < MaxKills
  /\ kills' = kills + 1
  /\ rw' = [rw EXCEPT ![p].pc = IF @ = "wait" THEN "woken" ELSE "retry"]
  /\ UNCHANGED <<free, desc, req, info, avail, used, used_idx, bdisk, bdata,
                 platter, device, isr, draining, requests, vpanic>>

(* virtio_disk_intr, up to its loop. *)
IntrAck ==
  /\ isr /\ ~ draining /\ vpanic = ""
  /\ isr' = FALSE
  /\ draining' = TRUE
  /\ UNCHANGED <<free, desc, req, info, avail, used, used_idx, bdisk, bdata,
                 platter, rw, device, requests, kills, vpanic>>

(* Mutant: handles one completion and returns. *)
IntrOneReturns ==
  LET id == used.ring[used_idx % NUM]
      b == info[id].b[1]
  IN  /\ draining /\ vpanic = ""
      /\ used_idx # used.idx
      /\ bdisk' = [bdisk EXCEPT ![b] = 0]
      /\ rw' = [rw EXCEPT ![b].pc = IF @ = "wait" THEN "woken" ELSE @]
      /\ used_idx' = (used_idx + 1) % WRAP
      /\ draining' = FALSE
      /\ UNCHANGED <<free, desc, req, info, avail, used, bdata, platter, device,
                     isr, requests, kills, vpanic>>

(* One turn of the loop; the device may have moved used.idx since the last. *)
IntrOne ==
  LET id == used.ring[used_idx % NUM]
  IN  /\ draining /\ vpanic = ""
      /\ used_idx # used.idx
      /\ IF info[id].status # 0 \/ info[id].b = <<>>
         THEN /\ vpanic' = "virtio_disk_intr status"
              /\ UNCHANGED <<bdisk, rw, used_idx>>
         ELSE /\ bdisk' = [bdisk EXCEPT ![info[id].b[1]] = 0]
              /\ rw' = [rw EXCEPT ![info[id].b[1]].pc =
                          IF @ = "wait" THEN "woken" ELSE @]
              /\ used_idx' = (used_idx + 1) % WRAP
              /\ UNCHANGED vpanic
      /\ UNCHANGED <<free, desc, req, info, avail, used, bdata, platter, device,
                     isr, draining, requests, kills>>

IntrDone ==
  /\ draining /\ vpanic = ""
  /\ used_idx = used.idx
  /\ draining' = FALSE
  /\ UNCHANGED <<free, desc, req, info, avail, used, used_idx, bdisk, bdata,
                 platter, rw, device, isr, requests, kills, vpanic>>

-----------------------------------------------------------------------------
(* The device: takes heads from the avail ring in order, finishes them in  *)
(* any order, and raises its interrupt some time after it moved used.idx.  *)

DeviceTake ==
  /\ device.seen # avail.idx
  /\ device' = [device EXCEPT !.seen = (@ + 1) % WRAP,
                  !.taken = @ \cup {avail.ring[device.seen % NUM]}]
  /\ UNCHANGED <<free, desc, req, info, avail, used, used_idx, bdisk, bdata,
                 platter, rw, isr, draining, requests, kills, vpanic>>

(* It sees the request through the descriptors alone. *)
DeviceDo(id) ==
  LET data == desc[id].next
      last == desc[data].next
      op == req[desc[id].addr[2]]
      b == desc[data].addr[2]
  IN  /\ id \in device.taken
      /\ IF op.write
         THEN platter' = [platter EXCEPT ![op.sector] = bdata[b]] /\ UNCHANGED bdata
         ELSE bdata' = [bdata EXCEPT ![b] = platter[op.sector]] /\ UNCHANGED platter
      /\ info' = [info EXCEPT ![desc[last].addr[2]].status = 0]
      /\ used' = [idx |-> (used.idx + 1) % WRAP,
                  ring |-> [used.ring EXCEPT ![used.idx % NUM] = id]]
      /\ device' = [device EXCEPT !.taken = @ \ {id}, !.late = TRUE]
      /\ UNCHANGED <<free, desc, req, avail, used_idx, bdisk, rw, isr, draining,
                     requests, kills, vpanic>>

DeviceRaise ==
  /\ device.late
  /\ device' = [device EXCEPT !.late = FALSE]
  /\ isr' = TRUE
  /\ UNCHANGED <<free, desc, req, info, avail, used, used_idx, bdisk, bdata,
                 platter, rw, draining, requests, kills, vpanic>>

VirtioNext ==
  \/ \E p \in DiskUsers : Rw(p) \/ RwRetry(p) \/ RwWoken(p) \/ KillUser(p)
  \/ IntrAck
  \/ IntrOne
  \/ IntrDone
  \/ DeviceTake
  \/ \E id \in Desc : DeviceDo(id)
  \/ DeviceRaise

(* Processes are scheduled, interrupts are delivered, the device works. *)
VirtioFairness ==
  /\ \A p \in DiskUsers : WF_vvars(RwRetry(p) \/ RwWoken(p))
  /\ WF_vvars(IntrAck \/ IntrOne \/ IntrDone)
  /\ WF_vvars(DeviceTake \/ (\E id \in Desc : DeviceDo(id)) \/ DeviceRaise)

VirtioSpec == VirtioInit /\ [][VirtioNext]_vvars /\ VirtioFairness

-----------------------------------------------------------------------------
(* Properties *)

InFlight(p) == rw[p].pc \in {"wait", "woken"}

(* virtio_disk_rw hands out descriptors it takes from and returns to one   *)
(* pool while other requests, the device and the handler use theirs: every *)
(* descriptor is free and cleared, or is in the chain of exactly one       *)
(* request, whose completion names that request's buffer.  A descriptor is *)
(* never freed twice, and the handler never sees a failed request or a     *)
(* head nobody waits for.                                                  *)
ChainsDisjoint ==
  /\ vpanic = ""
  /\ \A d \in Desc :
       IF d \in free
       THEN desc[d] = NoDesc /\ d \notin device.taken
       ELSE \E p \in DiskUsers :
              /\ InFlight(p) /\ d \in Chain(First(p))
              /\ \A q \in DiskUsers \ {p} : InFlight(q) => d \notin Chain(First(q))
  /\ \A p \in DiskUsers : InFlight(p) =>
       /\ info[First(p)].b = <<p>>
       /\ Chain(First(p)) = Range(rw[p].idx)

(* virtio_disk_rw returns only when the device has done this request: a    *)
(* block written is on the disk, a block read is in the buffer, whatever   *)
(* completions overtook each other and whatever woke the process: kill()   *)
(* does so long before the device is done.                                 *)
RequestDone ==
  \A p \in DiskUsers : rw[p].pc = "done" => bdata[p] = platter[p]

(* Every request returns: one that finds too few descriptors gives back    *)
(* those it got and sleeps until another request has freed its own, and    *)
(* the interrupt of a completion may be acknowledged before the handler    *)
(* looks at the ring.                                                      *)
RequestsEnd ==
  \A p \in DiskUsers : []<>(rw[p].pc \in {"idle", "done"})

=============================================================================
