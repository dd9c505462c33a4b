----------------------------- MODULE WasmMemory -----------------------------
(***************************************************************************)
(* One detection: the server and the WebAssembly guest pass messages to    *)
(* each other through the guest's memory.                                  *)
(*                                                                         *)
(* The two sides keep different books.  The host has a cursor that spans   *)
(* what is in use, a start and a length, which join is to extend over each *)
(* message read.  The guest is told one message at each call and writes    *)
(* behind it, growing the memory if it computes that it has to.            *)
(*                                                                         *)
(* A message is its place, a start and a length; intact has those of which*)
(* no byte was written since.  Stack, static data and heap of the guest are*)
(* laid out by its compiler and not modelled, but for the pages that the   *)
(* heap takes.                                                             *)
(***************************************************************************)
EXTENDS Integers

CONSTANTS
  PageSize,      \* 65536
  InitialPages,  \* 21: pages of a new memory
  MaxPages,      \* 65536: no memory is larger; addresses are below WordSize
  Sizes,         \* the lengths of the messages of a detection
  Nowhere        \* no message

WordSize == PageSize * MaxPages

\* A request holds an image and is longer than a result; the picture elements
\* of the inference are more than what comes after them.
ASSUME WasmConstants ==
  /\ PageSize \in Nat \ {0} /\ InitialPages \in Nat /\ MaxPages \in Nat \ {0}
  /\ InitialPages <= MaxPages
  /\ Nowhere \notin [start : Int, len : Int]
  /\ \A z \in Sizes :
       /\ z \in [request : Nat, params : Nat, hostCall : Nat \ {0},
                 reply : Nat, detection : Nat, finished : Nat \ {0}]
       /\ z.hostCall < z.request
       /\ z.reply + z.detection + z.finished + 1 <= z.params

VARIABLES
  size,    \* the lengths in this detection
  cursor,  \* WasmRunner.ptr
  pages,   \* size of the memory
  at,      \* where each message was written
  intact,  \* the messages of which no byte was overwritten
  pc

vars == <<size, cursor, pages, at, intact, pc>>

Messages == {"request", "params", "hostCall", "reply", "detection", "finished"}

(***************************************************************************)
(* WasmPointer.                                                            *)
(***************************************************************************)
\* A value that went through an i32.
AsI32(x) == IF x >= WordSize \div 2 THEN x - WordSize ELSE x

LastOf(p) == p.start + p.len - 1
NextOf(p) == LastOf(p) + 1

\* Changed forms of Join: the span of both; the difference the other
\* way round.
Join_whole(p, other) ==
  IF LastOf(p) >= LastOf(other) THEN p ELSE [p EXCEPT !.len = NextOf(other) - p.start]
Join_swapped(p, other) ==
  IF LastOf(p) >= LastOf(other) THEN p ELSE [p EXCEPT !.len = LastOf(p) - LastOf(other)]

Join(p, other) ==
  IF LastOf(p) >= LastOf(other) THEN p
  ELSE [p EXCEPT !.len = LastOf(other) - LastOf(p)]

Consume(p, n) == [p EXCEPT !.len = @ + n]

InMemory(p) == p.start >= 0 /\ p.start + p.len <= pages * PageSize

Disjoint(p, q) == p.start + p.len <= q.start \/ q.start + q.len <= p.start

\* The messages after m was written to p.
Written(w, m, p) ==
  [at     |-> [w.at EXCEPT ![m] = p],
   intact |-> {m} \cup {n \in w.intact : Disjoint(w.at[n], p)}]

Now == [at |-> at, intact |-> intact]

Becomes(w) == at' = w.at /\ intact' = w.intact

(***************************************************************************)
(* Guest memory: used up to and including last.                            *)
(***************************************************************************)
Setup(p) == [head |-> p.start, last |-> p.start + p.len, pages |-> pages]

\* Changed forms of GrownPages: what there is not used; nothing grows.
GrownPages_always(g, n) ==
  LET toGrow == n \div PageSize + 1
  IN  IF g.pages + toGrow <= MaxPages THEN g.pages + toGrow ELSE g.pages
GrownPages_never(g, n) == g.pages

\* grow_to computes in usize; memory_grow refuses what is too much, and grow_to
\* does not look.
GrownPages(g, n) ==
  LET available == (g.pages * PageSize - (g.last - g.head + 1)) % WordSize
      missing   == (n - available) % WordSize
      toGrow    == IF missing > 0 THEN missing \div PageSize + 1 ELSE 0
  IN  IF g.pages + toGrow <= MaxPages THEN g.pages + toGrow ELSE g.pages

\* A changed form: the next message goes to the same place.
WriteBytes_stay(g, n) == [g EXCEPT !.pages = GrownPages(g, n)]

WriteBytes(g, n) == [g EXCEPT !.pages = GrownPages(g, n), !.last = @ + n]

Holds(g) == g.last < g.pages * PageSize

Slice(g, n) == [start |-> AsI32(g.last + 1), len |-> n]

(***************************************************************************)
(* run_detection.                                                          *)
(***************************************************************************)
Init ==
  /\ size \in Sizes
  /\ cursor = [start |-> 0, len |-> 0]
  /\ pages = InitialPages
  /\ at = [m \in Messages |-> Nowhere]
  /\ intact = {}
  /\ pc = "request"

\* What is read next.
Unread ==
  CASE pc = "main"            -> {"request"}
    [] pc = "called"          -> {"hostCall", "params"}
    [] pc = "get_probability" -> {"reply"}
    [] pc = "finished"        -> {"finished", "detection"}
    [] OTHER                  -> {}

Fails == pc' = "failed" /\ UNCHANGED <<size, cursor, pages, at, intact>>

HostWrites(m, n, next) ==
  LET p == [start |-> NextOf(cursor), len |-> n]
  IN  /\ InMemory(p)
      /\ Becomes(Written(Now, m, p))
      /\ cursor' = Consume(cursor, n)
      /\ pc' = next
      /\ UNCHANGED <<size, pages>>

WriteRequest == pc = "request" /\ HostWrites("request", size.request, "main")
WriteReply   == pc = "infer" /\ HostWrites("reply", size.reply, "get_probability")

\* The host does not grow the memory.
HostWriteFails ==
  /\ pc \in {"request", "infer"}
  /\ ~ InMemory([start |-> NextOf(cursor),
                 len |-> IF pc = "request" THEN size.request ELSE size.reply])
  /\ Fails

\* While it runs, the guest's allocator takes pages of its own.
HeapGrows ==
  /\ pc \in {"main", "get_probability"}
  /\ pages < MaxPages
  /\ pages' = pages + 1
  /\ UNCHANGED <<size, cursor, at, intact, pc>>

\* exit_hostcall and exit_finish: a message, and the result that points to it.
GuestCalled(from, arg, m, r, next) ==
  LET g0 == Setup(at[arg])
      g1 == WriteBytes(g0, size[m])
      g2 == WriteBytes(g1, size[r])
  IN  /\ pc = from
      /\ pages' = g2.pages
      /\ IF Holds(g1) /\ Holds(g2)
           THEN /\ Becomes(Written(Written(Now, m, Slice(g0, size[m])), r, Slice(g1, size[r])))
                /\ pc' = next
           ELSE pc' = "trapped" /\ UNCHANGED <<at, intact>>
      /\ UNCHANGED <<size, cursor>>

Main == GuestCalled("main", "request", "params", "hostCall", "called")

GetProbability == GuestCalled("get_probability", "reply", "detection", "finished", "finished")

\* exit_error, or the message cannot be decoded.
GuestFails == pc \in {"main", "get_probability"} /\ Fails

\* The result, and what it points to.
HostReads(from, r, m, next) ==
  /\ pc = from
  /\ InMemory(at[r]) /\ InMemory(at[m])
  /\ cursor' = Join(Join(cursor, at[r]), at[m])
  /\ pc' = next
  /\ UNCHANGED <<size, pages, at, intact>>

ReadHostCall == HostReads("called", "hostCall", "params", "infer")
ReadFinished == HostReads("finished", "finished", "detection", "done")

\* An address above 2^31 is a negative start.
HostReadFails ==
  /\ \E m \in Unread : ~ InMemory(at[m])
  /\ pc \in {"called", "finished"}
  /\ Fails

InferFails == pc = "infer" /\ Fails

Next ==
  \/ WriteRequest \/ Main \/ ReadHostCall \/ WriteReply \/ GetProbability \/ ReadFinished
  \/ HeapGrows \/ HostWriteFails \/ HostReadFails \/ GuestFails \/ InferFails

Spec == Init /\ [][Next]_vars
-----------------------------------------------------------------------------
(***************************************************************************)
(* Properties.                                                             *)
(***************************************************************************)
IsPlace(p) == p.start \in -WordSize .. WordSize /\ p.len \in 0 .. WordSize

\* Types.  The cursor starts at 0 and never gets a negative length.
TypeOK ==
  /\ size \in Sizes
  /\ cursor \in [start : {0}, len : 0 .. WordSize]
  /\ pages \in InitialPages .. MaxPages
  /\ at = [m \in Messages |-> at[m]]
  /\ \A m \in Messages : at[m] = Nowhere \/ IsPlace(at[m])
  /\ \A m \in intact : m \in Messages /\ at[m] # Nowhere
  /\ pc \in {"request", "main", "called", "infer", "get_probability", "finished",
             "done", "failed", "trapped"}

\* join computes a length from the last bytes alone, so the host's cursor jumps
\* back over what the guest wrote, and the guest counts one byte too many in what
\* it is given.  Even so no message is overwritten before it was read.
ReadsIntact == Unread \subseteq intact

\* The host never grows the memory.  Its second message finds room all the same,
\* however full the guest left it.
RoomForReply ==
  pc = "infer" => InMemory([start |-> NextOf(cursor), len |-> size.reply])

\* grow_to forgets where the used part begins and subtracts without a check.
\* Still a guest runs out of memory only in its first call, and only when there
\* were not enough pages left to ask for.
TrapsOnlyWhenFull ==
  pc = "trapped" =>
    /\ at["reply"] = Nowhere
    /\ (pages + 1) * PageSize + size.params + size.hostCall > WordSize

\* When there is room, the difference in grow_to wraps around and asks for more
\* than a memory can have, which is refused: only a guest that is short grows.
GrowsOnlyWhenShort ==
  [][/\ pc = "main" /\ pc' = "called" /\ pages' > pages => ~ InMemory(at'["hostCall"])
     /\ pc = "get_probability" /\ pc' = "finished" => pages' = pages]_vars
-----------------------------------------------------------------------------
(***************************************************************************)
(* The inductive invariant: where everything is at each point.             *)
(***************************************************************************)
\* The first call leaves its messages, one byte apart from the request, in the
\* memory, and the second begins with a cursor that lies before their end.
FirstMessages == size.request + size.params + size.hostCall
AfterRead     == size.request - size.hostCall

Layout ==
  /\ pc = "request" => cursor.len = 0 /\ intact = {} /\ \A m \in Messages : at[m] = Nowhere
  /\ pc = "main" =>
       /\ cursor.len = size.request /\ size.request <= pages * PageSize
       /\ at["request"] = [start |-> 0, len |-> size.request] /\ intact = {"request"}
       /\ at["reply"] = Nowhere
  /\ pc = "called" =>
       /\ cursor.len = size.request
       /\ at["params"] = [start |-> AsI32(size.request + 1), len |-> size.params]
       /\ at["hostCall"] =
            [start |-> AsI32(size.request + size.params + 1), len |-> size.hostCall]
  /\ pc \in {"called", "infer", "get_probability", "finished"} =>
       FirstMessages < pages * PageSize
  /\ pc = "infer" => cursor.len = AfterRead
  /\ pc \in {"get_probability", "finished"} => cursor.len = AfterRead + size.reply
  /\ pc = "get_probability" => at["reply"] = [start |-> AfterRead, len |-> size.reply]
  /\ pc = "finished" =>
       /\ at["detection"] = [start |-> AsI32(AfterRead + size.reply + 1), len |-> size.detection]
       /\ at["finished"] =
            [start |-> AsI32(AfterRead + size.reply + size.detection + 1), len |-> size.finished]

\* All of it: what each step of a detection preserves.
IInv == TypeOK /\ Layout /\ ReadsIntact /\ TrapsOnlyWhenFull
=============================================================================
