--------------------------- MODULE BufferOwnership ---------------------------
(***************************************************************************)
(* What provided buffers promise (src/iouring/buffer_pool.h, ProvideBuffer *)
(* and HandleCqe in io_uring.cc): a buffer has one owner at a time.  The   *)
(* kernel owns it until it selects it for a receive; the answer carries it *)
(* up to the application, which owns it until it hands it back with        *)
(* ProvideBuffer; the request carries it down to the kernel.               *)
(*                                                                         *)
(* It also says what the interface does not exclude: on its way up or down *)
(* a buffer may be lost.  Nobody can give a lost buffer back.              *)
(***************************************************************************)
CONSTANT Buffers  \* the buffer ids of one group

VARIABLE owner  \* who may write each buffer, or which way it travels

vars == <<owner>>

TypeOK == owner \in [Buffers -> {"kernel", "received", "application", "returned", "lost"}]

Init == owner = [b \in Buffers |-> "kernel"]

Passes(b, from, to) ==
  /\ owner[b] = from
  /\ owner' = [owner EXCEPT ![b] = to]

Select(b)  == Passes(b, "kernel", "received")
Deliver(b) == Passes(b, "received", "application")
Return(b)  == Passes(b, "application", "returned")
Provide(b) == Passes(b, "returned", "kernel")
Lose(b)    == Passes(b, "received", "lost") \/ Passes(b, "returned", "lost")

Next == \E b \in Buffers : Select(b) \/ Deliver(b) \/ Return(b) \/ Provide(b) \/ Lose(b)

Spec == Init /\ [][Next]_vars
=============================================================================
