------------------------------ MODULE VirtioRing -----------------------------
(***************************************************************************)
(* The split virtqueue that virtio-blk and virtio-scsi drive one request   *)
(* at a time (src/hw/virtio-ring.c, virtio-blk.c, virtio-scsi.c): a free   *)
(* list of descriptors, the available ring the driver fills and the used   *)
(* ring the device fills.                                                  *)
(***************************************************************************)
EXTENDS Naturals, Sequences

CONSTANTS
  num,          \* descriptors of the queue, a power of two
  IdxWord,      \* 2^16: the indices are u16; a multiple of num
  Lists,        \* the buffer lists: [out, in] sequences of buffers
  MaxRequests   \* bound

\* "BUG_ON(out + in == 0)", and no list is longer than the queue.
Buffers == {"none"} \cup
  UNION {{l.out[k] : k \in DOMAIN l.out} \cup {l.in[k] : k \in DOMAIN l.in} : l \in Lists}

ASSUME VirtioAssumption ==
  /\ num \in Nat \ {0} /\ IdxWord \in Nat \ {0, 1}
  /\ Lists \subseteq [out : Seq(Buffers), in : Seq(Buffers)]
  /\ \A l \in Lists : Len(l.out) + Len(l.in) \in 1 .. num

VARIABLES
  desc,    \* struct vring_desc: [buf, write, flag_next, next]
  vq,      \* [free_head, last_used_idx]
  avail, used,  \* [idx, ring]
  device,  \* [last_avail, got, ok]: what it was handed and answered
  req      \* the request in progress: [pc, list, status, n]

virtioVars == <<desc, vq, avail, used, device, req>>

Slot == 0 .. num - 1

----------------------------------------------------------------------------

\* The descriptors of a list of n buffers from descriptor head on, by "next".
Taken(d, head, n) ==
  LET at[k \in 1 .. n] == IF k = 1 THEN head ELSE d[at[k - 1]].next IN at

\* Deviation: the last descriptor of a list points to one behind it.
Continues_always(k, n) == TRUE

\* Descriptor k of a list of n has VRING_DESC_F_NEXT.
Continues(k, n) == k < n

\* Fill free descriptors with the buffers, those the device writes behind those
\* it reads, and put the first into the available ring.
vring_add_buf(list) ==
  LET bufs == list.out \o list.in
      n    == Len(bufs)
      at   == Taken(desc, vq.free_head, n)
  IN  /\ desc' = [i \in Slot |->
           IF \E k \in 1 .. n : at[k] = i
           THEN LET k == CHOOSE k \in 1 .. n : at[k] = i
                IN  [desc[i] EXCEPT !.buf = bufs[k], !.write = k > Len(list.out),
                                    !.flag_next = Continues(k, n)]
           ELSE desc[i]]
      /\ vq' = [vq EXCEPT !.free_head = desc[at[n]].next]
      /\ avail' = [avail EXCEPT !.ring[avail.idx % num] = vq.free_head]

\* The length of the chain of descriptors from head on: the first one without the flag
\* ends it.
ChainLength(d, head) ==
  LET at   == Taken(d, head, num)
      ends == {k \in 1 .. num : ~d[at[k]].flag_next}
  IN  CHOOSE k \in ends : \A m \in ends : k <= m

Chain(d, head) == Taken(d, head, ChainLength(d, head))

\* Put the chain in front of the free list.
vring_detach(head) ==
  /\ desc' = [desc EXCEPT ![Chain(desc, head)[ChainLength(desc, head)]].next = vq.free_head]
  /\ vq' = [free_head |-> head, last_used_idx |-> (vq.last_used_idx + 1) % IdxWord]

vring_more_used == vq.last_used_idx # used.idx

----------------------------------------------------------------------------

\* virtio_blk_op() and virtio_scsi_process_op() up to the wait: the list is
\* added and the device notified.
Submit(list) ==
  /\ req.pc = "idle"
  /\ req.n < MaxRequests
  /\ vring_add_buf(list)
  /\ req' = [pc |-> "kick", list |-> list, status |-> "unsupp", n |-> req.n + 1]
  /\ UNCHANGED <<used, device>>

\* vring_kick()
vring_kick ==
  /\ req.pc = "kick"
  /\ avail' = [avail EXCEPT !.idx = (@ + 1) % IdxWord]
  /\ req' = [req EXCEPT !.pc = "wait"]
  /\ UNCHANGED <<desc, vq, used, device>>

\* The device takes the next chain, transfers the data and writes the status
\* byte, which is the last buffer.
DeviceServes(status) ==
  LET head  == avail.ring[device.last_avail % num]
      chain == Chain(desc, head)
  IN  /\ device.last_avail # avail.idx
      /\ device' = [last_avail |-> (device.last_avail + 1) % IdxWord, status |-> status,
                    got |-> [k \in 1 .. ChainLength(desc, head) |->
                               <<desc[chain[k]].buf, desc[chain[k]].write>>]]
      /\ used' = [idx |-> (used.idx + 1) % IdxWord,
                  ring |-> [used.ring EXCEPT ![used.idx % num] = head]]
      /\ req' = [req EXCEPT !.status = status]
      /\ UNCHANGED <<desc, vq, avail>>

\* The loop around vring_more_used() ends: vring_get_buf() takes the entry.
Reclaim ==
  /\ req.pc = "wait"
  /\ vring_more_used
  /\ vring_detach(used.ring[vq.last_used_idx % num])
  /\ req' = [req EXCEPT !.pc = "idle"]
  /\ UNCHANGED <<avail, used, device>>

----------------------------------------------------------------------------

\* vring_init()
VirtioInit ==
  /\ desc = [i \in Slot |-> [buf |-> "none", write |-> FALSE, flag_next |-> FALSE,
                             next |-> (i + 1) % num]]
  /\ vq = [free_head |-> 0, last_used_idx |-> 0]
  /\ avail = [idx |-> 0, ring |-> [i \in Slot |-> 0]]
  /\ used = [idx |-> 0, ring |-> [i \in Slot |-> 0]]
  /\ device = [last_avail |-> 0, got |-> <<>>, status |-> "none"]
  /\ req = [pc |-> "idle", list |-> [out |-> <<>>, in |-> <<>>], status |-> "none", n |-> 0]

VirtioNext ==
  \/ \E list \in Lists : Submit(list)
  \/ vring_kick
  \/ \E status \in {"ok", "ioerr"} : DeviceServes(status)
  \/ Reclaim

VirtioSpec == VirtioInit /\ [][VirtioNext]_virtioVars

----------------------------------------------------------------------------
(* Properties                                                                 *)

\* Between requests every descriptor is on the free list, once.
FreeListWhole ==
  LET list == Taken(desc, vq.free_head, num)
  IN  req.pc = "idle" => {list[k] : k \in 1 .. num} = Slot

Wanted(l) ==
  [k \in 1 .. Len(l.out) + Len(l.in) |-> <<(l.out \o l.in)[k], k > Len(l.out)>>]

\* However descriptors were recycled and the 16-bit indices have wrapped, the
\* device has been handed exactly the buffers of the request, in order, each
\* readable or writable as it should be; the request ends when the device is
\* done with it, with the status of its own, and the free list has lost nothing.
RequestHandedOver ==
  /\ FreeListWhole
  /\ req.pc = "idle" /\ req.n > 0 =>
       /\ device.got = Wanted(req.list)
       /\ req.status = device.status
       /\ device.last_avail = req.n % IdxWord
============================================================================
