-------------------------- MODULE WasmMemoryProofs --------------------------
(***************************************************************************)
(* Theorems about WasmMemory, for every size of a page and of the memory   *)
(* and for messages of every length.                                       *)
(***************************************************************************)
EXTENDS WasmMemory, TLAPS

(***************************************************************************)
(* Arithmetic of machine words.                                            *)
(***************************************************************************)
\* A difference of words, taken modulo the size of a word, wraps around when it
\* is negative.
LEMMA Wraps ==
  ASSUME NEW w \in Nat \ {0}, NEW x \in Int
  PROVE  /\ x \in 0 .. w - 1 => x % w = x
         /\ x \in -w .. -1 => x % w = x + w
<1> DEFINE q == x \div w
<1>1. q \in Int /\ x % w \in 0 .. w - 1
  OBVIOUS
<1>2. x = w * q + (x % w)
  OBVIOUS
<1> QED
  BY <1>1, <1>2

\* The pages that hold n bytes.
LEMMA PagesFor ==
  ASSUME NEW p \in Nat \ {0}, NEW n \in Nat
  PROVE  /\ n \div p \in Nat
         /\ n < (n \div p + 1) * p
         /\ \A k \in Nat : k * p <= n <=> k <= n \div p
<1> DEFINE q == n \div p
<1>1. q \in Nat
  OBVIOUS
<1>2. q * p <= n /\ n < (q + 1) * p
  OBVIOUS
<1> HIDE DEF q
<1>3. ASSUME NEW k \in Nat, k * p <= n, k > q
      PROVE  FALSE
  BY <1>1, <1>2, <1>3
<1>4. ASSUME NEW k \in Nat, k <= q
      PROVE  k * p <= n
  BY <1>1, <1>2, <1>4
<1> QED
  BY <1>1, <1>2, <1>3, <1>4 DEF q

LEMMA WordSizeIs ==
  /\ PageSize \in Nat \ {0} /\ MaxPages \in Nat \ {0} /\ WordSize \in Nat \ {0}
  /\ \A k \in 0 .. MaxPages :
       /\ k * PageSize \in 0 .. WordSize
       /\ WordSize = k * PageSize + (MaxPages - k) * PageSize
       /\ (MaxPages - k) \in Nat
<1>1. PageSize \in Nat \ {0} /\ MaxPages \in Nat \ {0} /\ WordSize \in Nat \ {0}
  BY WasmConstants DEF WordSize
<1>2. ASSUME NEW k \in 0 .. MaxPages
      PROVE  /\ k * PageSize \in 0 .. WordSize
             /\ WordSize = k * PageSize + (MaxPages - k) * PageSize
             /\ (MaxPages - k) \in Nat
  <2>1. MaxPages - k \in Nat /\ k \in Nat
    BY <1>1
  <2>2. k * PageSize \in Nat /\ (MaxPages - k) * PageSize \in Nat
    BY <1>1, <2>1
  <2>3. WordSize = k * PageSize + (MaxPages - k) * PageSize
    BY <1>1, <2>1 DEF WordSize
  <2> QED
    BY <2>1, <2>2, <2>3
<1> QED
  BY <1>1, <1>2

LEMMA Multiples ==
  ASSUME NEW a \in Nat, NEW b \in Nat, a <= b, NEW p \in Nat
  PROVE  a * p <= b * p /\ (b + 1) * p = b * p + p
<1>1. b - a \in Nat /\ b * p = a * p + (b - a) * p
  OBVIOUS
<1>2. (b - a) * p \in Nat /\ a * p \in Nat
  BY <1>1
<1> QED
  BY <1>1, <1>2

\* grow_to never gives memory back, and never exceeds what there may be.
LEMMA GrowsUpTo ==
  ASSUME NEW g, g.pages \in 0 .. MaxPages, g.last \in Int, g.head \in Int, NEW n \in Int
  PROVE  GrownPages(g, n) \in g.pages .. MaxPages
<1> DEFINE available == (g.pages * PageSize - (g.last - g.head + 1)) % WordSize
           missing   == (n - available) % WordSize
           toGrow    == IF missing > 0 THEN missing \div PageSize + 1 ELSE 0
<1>1. available \in Int
  BY WordSizeIs
<1> HIDE DEF available
<1>2. missing \in Nat
  BY <1>1, WordSizeIs
<1> HIDE DEF missing
<1>3. toGrow \in Nat
  BY <1>2, WordSizeIs, PagesFor
<1>4. GrownPages(g, n) = IF g.pages + toGrow <= MaxPages THEN g.pages + toGrow ELSE g.pages
  BY DEF GrownPages, toGrow, missing, available
<1> QED
  BY <1>3, <1>4, WordSizeIs

(***************************************************************************)
(* grow_to: used bytes are in use, which is at most one more than there    *)
(* are.  The memory grows only if the n bytes do not fit; if it does not   *)
(* grow although they do not, a memory cannot hold them.                   *)
(***************************************************************************)
LEMMA Grows ==
  ASSUME NEW g, g.pages \in 0 .. MaxPages, NEW used \in Nat \ {0}, NEW n \in Nat,
         g.last - g.head + 1 = used, used <= g.pages * PageSize + 1
  PROVE  /\ GrownPages(g, n) \in g.pages .. MaxPages
         /\ used + n <= g.pages * PageSize => GrownPages(g, n) = g.pages
         /\ n + 1 < WordSize =>
              \/ used + n <= GrownPages(g, n) * PageSize
              \/ GrownPages(g, n) = g.pages /\ used + n >= WordSize
<1> DEFINE W == WordSize
           k == g.pages
           E == k * PageSize
           available == (E - used) % W
           missing == (n - available) % W
           toGrow == IF missing > 0 THEN missing \div PageSize + 1 ELSE 0
           q == GrownPages(g, n)
<1>1. /\ PageSize \in Nat \ {0} /\ MaxPages \in Nat /\ k \in 0 .. MaxPages
      /\ E \in 0 .. W /\ W = E + (MaxPages - k) * PageSize /\ MaxPages - k \in Nat
      /\ W \in Nat \ {0}
  BY WordSizeIs
<1>2. q = IF k + toGrow <= MaxPages THEN k + toGrow ELSE k
  BY DEF GrownPages
<1>3. \A x \in 0 .. MaxPages : x * PageSize = E + (x - k) * PageSize
  BY <1>1
<1>4. used <= E + 1 /\ E - used \in Int
  BY <1>1
<1> HIDE DEF W, k, E, q
<1>5. /\ used <= E => available = E - used
      /\ used = E + 1 => available = W - 1
  <2> DEFINE free == E - used
  <2>1. /\ free \in Int
        /\ used <= E => free \in 0 .. W - 1
        /\ used = E + 1 => free \in -W .. -1 /\ free + W = W - 1
    BY <1>1
  <2> HIDE DEF free
  <2>2. /\ free \in 0 .. W - 1 => free % W = free
        /\ free \in -W .. -1 => free % W = free + W
    BY <1>1, <2>1, Wraps
  <2> QED
    BY <2>1, <2>2 DEF free
<1> HIDE DEF available
<1>6. missing \in Nat /\ available \in Int
  BY <1>1, <1>4, <1>5
<1>7. /\ missing > 0 => toGrow = missing \div PageSize + 1
      /\ missing = 0 => toGrow = 0
  BY <1>6
<1>8. toGrow \in Nat
  BY <1>1, <1>6, <1>7, PagesFor
<1>9. ASSUME used + n <= E
      PROVE  q = k
  <2>1. n - available = used + n - E /\ n - available \in -W .. 0
    BY <1>1, <1>5, <1>9
  <2>2. CASE n - available = 0
    <3>1. missing = 0
      BY <1>1, <2>2, Wraps
    <3> QED
      BY <1>1, <1>2, <1>7, <3>1
  <2>3. CASE n - available < 0
    <3>1. missing = used + n - E + W
      <4>1. n - available \in Int /\ n - available \in -W .. -1
        BY <1>1, <2>1, <2>3
      <4> QED
        BY <1>1, <2>1, <4>1, Wraps
    <3> HIDE DEF missing
    <3>2. missing > (MaxPages - k) * PageSize /\ (MaxPages - k) * PageSize \in Int
      BY <1>1, <3>1
    <3>3. MaxPages - k <= missing \div PageSize
      <4>1. (MaxPages - k) * PageSize <= missing
        BY <1>6, <3>2
      <4> QED
        BY <1>1, <1>6, <4>1, PagesFor
    <3> QED
      BY <1>1, <1>2, <1>6, <1>7, <3>2, <3>3, PagesFor
  <2> QED
    BY <2>1, <2>2, <2>3
<1>10. ASSUME n + 1 < W, used + n > E
       PROVE  used + n <= q * PageSize \/ (q = k /\ used + n >= W)
  <2>1. missing = used + n - E /\ missing > 0
    BY <1>1, <1>4, <1>5, <1>10, Wraps
  <2> HIDE DEF missing
  <2>2. CASE k + toGrow <= MaxPages
    <3>1. q * PageSize = E + (missing \div PageSize + 1) * PageSize
      <4>1. q = k + toGrow /\ q \in 0 .. MaxPages /\ q - k = toGrow
        BY <1>1, <1>2, <1>8, <2>2
      <4>2. q * PageSize = E + (q - k) * PageSize
        BY <1>3, <4>1
      <4> QED
        BY <1>7, <2>1, <4>1, <4>2
    <3>2. missing < (missing \div PageSize + 1) * PageSize
      BY <1>1, <1>6, PagesFor
    <3>3. (missing \div PageSize + 1) * PageSize \in Int
      BY <1>1, <1>6, PagesFor
    <3> QED
      BY <1>1, <2>1, <3>1, <3>2, <3>3
  <2>3. CASE ~ (k + toGrow <= MaxPages)
    <3>1. q = k /\ MaxPages - k <= missing \div PageSize
      BY <1>1, <1>2, <1>6, <1>7, <1>8, <2>1, <2>3, PagesFor
    <3>2. (MaxPages - k) * PageSize <= missing
      BY <1>1, <1>6, <3>1, PagesFor
    <3>3. (MaxPages - k) * PageSize \in Int
      BY <1>1
    <3> QED
      BY <1>1, <2>1, <3>1, <3>2, <3>3
  <2> QED
    BY <2>2, <2>3
<1>11. q \in k .. MaxPages
  BY <1>1, <1>2, <1>8
<1>12. used + n <= E \/ used + n > E
  BY <1>1
<1>13. q * PageSize = E + (q - k) * PageSize /\ (q = k => q * PageSize = E)
  BY <1>1, <1>3, <1>11
<1> SUFFICES /\ q \in k .. MaxPages
             /\ used + n <= E => q = k
             /\ n + 1 < W => used + n <= q * PageSize \/ (q = k /\ used + n >= W)
  BY DEF q, k, E, W
<1> QED
  BY <1>9, <1>10, <1>11, <1>12, <1>13

(***************************************************************************)
(* The messages of one call to the guest.                                  *)
(***************************************************************************)
LEMMA Lengths ==
  ASSUME size \in Sizes
  PROVE  /\ size.request \in Nat /\ size.params \in Nat /\ size.hostCall \in Nat \ {0}
         /\ size.reply \in Nat /\ size.detection \in Nat /\ size.finished \in Nat \ {0}
         /\ size.hostCall < size.request
         /\ size.reply + size.detection + size.finished + 1 <= size.params
<1>1. /\ size \in [request : Nat, params : Nat, hostCall : Nat \ {0},
                   reply : Nat, detection : Nat, finished : Nat \ {0}]
      /\ size.hostCall < size.request
      /\ size.reply + size.detection + size.finished + 1 <= size.params
  BY WasmConstants
<1> QED
  BY <1>1

\* An address that does not fit an i32 is taken for a negative one, also by the
\* host, which then does not read there.
LEMMA AsI32Wraps ==
  ASSUME NEW x \in 0 .. WordSize - 1
  PROVE  /\ AsI32(x) \in -WordSize .. WordSize
         /\ AsI32(x) = x \/ AsI32(x) = x - WordSize
         /\ AsI32(x) >= 0 => AsI32(x) = x
         /\ \A y \in x .. WordSize - 1 :
              AsI32(x) = x - WordSize => AsI32(y) = y - WordSize
<1> DEFINE half == WordSize \div 2
<1>1. WordSize \in Nat \ {0} /\ half \in Int
  BY WordSizeIs
<1> HIDE DEF half
<1> QED
  BY <1>1 DEF AsI32, half

\* A message and the one behind it do not overlap, wrapped around or not.
LEMMA SlicesDisjoint ==
  ASSUME NEW x \in Nat, NEW n \in Nat, NEW m \in Nat, x + n + m <= WordSize, m > 0
  PROVE  /\ x \in 0 .. WordSize - 1 /\ x + n \in 0 .. WordSize - 1
         /\ Disjoint([start |-> AsI32(x), len |-> n], [start |-> AsI32(x + n), len |-> m])
<1>1. WordSize \in Nat \ {0}
  BY WordSizeIs
<1>2. x \in 0 .. WordSize - 1 /\ x + n \in 0 .. WordSize - 1 /\ x + n \in x .. WordSize - 1
  BY <1>1
<1> DEFINE half == WordSize \div 2
<1>3. half \in Int
  BY <1>1
<1> HIDE DEF half
<1>4. AsI32(x) + n <= AsI32(x + n) \/ AsI32(x + n) + m <= AsI32(x)
  BY <1>1, <1>2, <1>3 DEF AsI32, half
<1> QED
  BY <1>2, <1>4 DEF Disjoint

\* What exit_hostcall does to the memory that the request is in.
LEMMA FirstCallGrows ==
  ASSUME size \in Sizes, pages \in 0 .. MaxPages, size.request <= pages * PageSize,
         NEW g0, g0 = [head |-> 0, last |-> size.request, pages |-> pages],
         NEW g1, g1 = WriteBytes(g0, size.params),
         NEW g2, g2 = WriteBytes(g1, size.hostCall)
  PROVE  /\ g2.pages \in pages .. MaxPages
         /\ FirstMessages + 1 <= pages * PageSize => g2.pages = pages
         /\ Holds(g1) /\ Holds(g2) => FirstMessages < g2.pages * PageSize
         /\ ~ (Holds(g1) /\ Holds(g2)) =>
              (g2.pages + 1) * PageSize + size.params + size.hostCall > WordSize
<1> DEFINE R == size.request  n == size.params  h == size.hostCall  W == WordSize
           q1 == GrownPages(g0, n)  q2 == GrownPages(g1, h)
<1>1. /\ R \in Nat /\ n \in Nat /\ h \in Nat \ {0} /\ h < R
      /\ PageSize \in Nat \ {0} /\ MaxPages \in Nat \ {0} /\ W \in Nat \ {0}
  BY Lengths, WordSizeIs
<1>2. /\ g0.head = 0 /\ g0.last = R /\ g0.pages = pages
      /\ g1.head = 0 /\ g1.last = R + n /\ g1.pages = q1
      /\ g2.last = R + n + h /\ g2.pages = q2
  BY DEF WriteBytes
<1> HIDE DEF R, n, h, W, q1, q2
<1>3. /\ q1 \in pages .. MaxPages
      /\ R + 1 + n <= pages * PageSize => q1 = pages
      /\ n + 1 < W => R + 1 + n <= q1 * PageSize \/ (q1 = pages /\ R + 1 + n >= W)
  <2>1. R + 1 \in Nat \ {0} /\ g0.last - g0.head + 1 = R + 1 /\ R + 1 <= g0.pages * PageSize + 1
    BY <1>1, <1>2, WordSizeIs DEF R
  <2> QED
    BY <1>1, <1>2, <2>1, Grows DEF q1, W
<1>4. ASSUME R + n + 1 <= q1 * PageSize + 1
      PROVE  /\ q2 \in q1 .. MaxPages
             /\ R + n + 1 + h <= q1 * PageSize => q2 = q1
             /\ h + 1 < W => R + n + 1 + h <= q2 * PageSize \/ (q2 = q1 /\ R + n + 1 + h >= W)
  <2>1. /\ R + n + 1 \in Nat \ {0} /\ g1.last - g1.head + 1 = R + n + 1
        /\ R + n + 1 <= g1.pages * PageSize + 1 /\ g1.pages \in 0 .. MaxPages
    BY <1>1, <1>2, <1>3, <1>4
  <2> QED
    BY <1>1, <1>2, <2>1, Grows DEF q2, W
<1>5. q2 \in q1 .. MaxPages
  BY <1>1, <1>2, <1>3, GrowsUpTo DEF q2
<1>6. /\ pages * PageSize \in 0 .. W /\ q1 * PageSize \in 0 .. W /\ q2 * PageSize \in 0 .. W
      /\ pages * PageSize <= q1 * PageSize /\ q1 * PageSize <= q2 * PageSize
      /\ (q2 + 1) * PageSize = q2 * PageSize + PageSize
  <2>1. /\ pages \in Nat /\ q1 \in Nat /\ q2 \in Nat /\ PageSize \in Nat
        /\ pages \in 0 .. MaxPages /\ q1 \in 0 .. MaxPages /\ q2 \in 0 .. MaxPages
        /\ pages <= q1 /\ q1 <= q2
    BY <1>1, <1>3, <1>5
  <2>2. pages * PageSize \in 0 .. W /\ q1 * PageSize \in 0 .. W /\ q2 * PageSize \in 0 .. W
    BY <2>1, WordSizeIs DEF W
  <2>3. pages * PageSize <= q1 * PageSize
    BY <2>1, Multiples
  <2>4. q1 * PageSize <= q2 * PageSize /\ (q2 + 1) * PageSize = q2 * PageSize + PageSize
    BY <2>1, Multiples
  <2> QED
    BY <2>2, <2>3, <2>4
<1>7. /\ Holds(g1) <=> R + n < q1 * PageSize
      /\ Holds(g2) <=> R + n + h < q2 * PageSize
  BY <1>2 DEF Holds
<1>8. R + n + h + 1 <= pages * PageSize => q2 = pages
  BY <1>1, <1>3, <1>4, <1>6
<1>9. R <= pages * PageSize
  BY DEF R
<1>10. CASE Holds(g1)
  <2>1. ~ Holds(g2) => q2 * PageSize + PageSize + n + h > W
    BY <1>1, <1>4, <1>6, <1>7, <1>9, <1>10
  <2> QED
    BY <1>1, <1>2, <1>3, <1>5, <1>6, <1>7, <1>8, <1>10, <2>1 DEF FirstMessages, R, n, h, W
<1>11. CASE ~ Holds(g1)
  <2>1. q2 * PageSize + PageSize + n + h > W
    BY <1>1, <1>3, <1>6, <1>7, <1>9, <1>11
  <2> QED
    BY <1>1, <1>2, <1>3, <1>5, <1>6, <1>7, <1>8, <1>11, <2>1 DEF FirstMessages, R, n, h, W
<1> QED
  BY <1>10, <1>11

\* The second message fits behind where the guest was told that the first lies:
\* the host's cursor jumped back further than the messages that follow reach.
LEMMA SecondCallStays ==
  ASSUME size \in Sizes, pages \in 0 .. MaxPages, FirstMessages < pages * PageSize,
         NEW g0, g0 = [head |-> AfterRead, last |-> AfterRead + size.reply, pages |-> pages],
         NEW g1, g1 = WriteBytes(g0, size.detection),
         NEW g2, g2 = WriteBytes(g1, size.finished)
  PROVE  g2.pages = pages /\ Holds(g1) /\ Holds(g2)
<1> DEFINE E == pages * PageSize
           d == size.detection  f == size.finished
           a == AfterRead  r == size.reply
           q1 == GrownPages(g0, d)  q2 == GrownPages(g1, f)
<1>1. /\ a \in Nat /\ r \in Nat /\ d \in Nat /\ f \in Nat \ {0} /\ E \in Nat
      /\ a + r + d + f + 1 < E
  BY Lengths, WordSizeIs DEF FirstMessages, AfterRead
<1>2. /\ g0.head = a /\ g0.last = a + r /\ g0.pages = pages
      /\ g1.head = a /\ g1.last = a + r + d /\ g1.pages = q1
      /\ g2.last = a + r + d + f /\ g2.pages = q2
  BY DEF WriteBytes
<1> HIDE DEF a, r, d, f, E, q1, q2
<1>3. q1 = pages
  <2>1. r + 1 \in Nat \ {0} /\ g0.last - g0.head + 1 = r + 1 /\ r + 1 <= g0.pages * PageSize + 1
    BY <1>1, <1>2 DEF E
  <2> QED
    BY <1>1, <1>2, <2>1, Grows DEF q1, E
<1>4. q2 = pages
  <2>1. /\ r + d + 1 \in Nat \ {0} /\ g1.last - g1.head + 1 = r + d + 1
        /\ r + d + 1 <= g1.pages * PageSize + 1 /\ g1.pages \in 0 .. MaxPages
    BY <1>1, <1>2, <1>3 DEF E
  <2> QED
    BY <1>1, <1>2, <1>3, <2>1, Grows DEF q2, E
<1> QED
  BY <1>1, <1>2, <1>3, <1>4 DEF Holds, E

(***************************************************************************)
(* The steps.                                                              *)
(***************************************************************************)
\* The facts that every step starts from.
LEMMA Bounds ==
  ASSUME TypeOK
  PROVE  /\ size \in Sizes /\ WordSize \in Nat \ {0}
         /\ pages \in 0 .. MaxPages /\ pages \in InitialPages .. MaxPages
         /\ pages * PageSize \in 0 .. WordSize
         /\ \A k \in 0 .. MaxPages : k * PageSize \in 0 .. WordSize
         /\ \A k \in pages .. MaxPages : /\ k \in InitialPages .. MaxPages
                                         /\ pages * PageSize <= k * PageSize
<1>1. size \in Sizes /\ WordSize \in Nat \ {0} /\ PageSize \in Nat
      /\ pages \in 0 .. MaxPages /\ pages \in InitialPages .. MaxPages
  BY WordSizeIs, WasmConstants DEF TypeOK
<1>2. \A k \in 0 .. MaxPages : k * PageSize \in 0 .. WordSize
  BY WordSizeIs
<1>3. ASSUME NEW k \in pages .. MaxPages
      PROVE  k \in InitialPages .. MaxPages /\ pages * PageSize <= k * PageSize
  <2>1. k \in InitialPages .. MaxPages /\ k \in Nat /\ pages \in Nat /\ pages <= k
    BY <1>1, WasmConstants
  <2> QED
    BY <1>1, <2>1, Multiples
<1> QED
  BY <1>1, <1>2, <1>3

LEMMA InitIInv == Init => IInv
<1> SUFFICES ASSUME Init PROVE IInv
  OBVIOUS
<1>1. /\ \A m \in Messages : at[m] = Nowhere
      /\ InitialPages \in InitialPages .. MaxPages /\ WordSize \in Nat
  BY WasmConstants, WordSizeIs DEF Init
<1>2. TypeOK
  BY <1>1 DEF Init, TypeOK
<1> QED
  BY <1>1, <1>2 DEF Init, IInv, Layout, ReadsIntact, Unread, TrapsOnlyWhenFull

LEMMA WriteRequestStep ==
  ASSUME IInv, WriteRequest
  PROVE  IInv'
<1> DEFINE p == [start |-> 0, len |-> size.request]
<1>1. /\ pc = "request" /\ pc' = "main" /\ size' = size /\ pages' = pages
      /\ cursor.start = 0 /\ cursor.len = 0
      /\ intact = {} /\ \A m \in Messages : at[m] = Nowhere
  BY DEF IInv, TypeOK, Layout, WriteRequest, HostWrites
<1>2. size.request \in Nat /\ NextOf(cursor) = 0
  BY <1>1, Lengths DEF IInv, TypeOK, NextOf, LastOf
<1>3. /\ at' = [at EXCEPT !["request"] = p] /\ intact' = {"request"}
      /\ cursor' = [cursor EXCEPT !.len = @ + size.request]
      /\ size.request <= pages * PageSize
  BY <1>1, <1>2 DEF WriteRequest, HostWrites, Becomes, Written, Now, Consume, InMemory
<1>4. cursor'.start = 0 /\ cursor'.len = size.request
  BY <1>1, <1>2, <1>3 DEF IInv, TypeOK
<1>5. /\ at' = [m \in Messages |-> at'[m]] /\ at'["request"] = p
      /\ at'["reply"] = Nowhere /\ \A m \in Messages \ {"request"} : at'[m] = Nowhere
  BY <1>1, <1>3 DEF IInv, TypeOK, Messages
<1>6. IsPlace(p) /\ p # Nowhere
  BY <1>2, <1>3, Bounds, WasmConstants DEF IInv, IsPlace
<1>7. TypeOK'
  BY <1>1, <1>2, <1>3, <1>4, <1>5, <1>6, Bounds DEF IInv, TypeOK, Messages, IsPlace
<1>8. Layout'
  BY <1>1, <1>3, <1>4, <1>5 DEF Layout
<1>9. ReadsIntact' /\ TrapsOnlyWhenFull'
  BY <1>1, <1>3 DEF ReadsIntact, Unread, TrapsOnlyWhenFull
<1> QED
  BY <1>7, <1>8, <1>9 DEF IInv

LEMMA HeapGrowsStep ==
  ASSUME IInv, HeapGrows
  PROVE  IInv'
<1>1. /\ pc \in {"main", "get_probability"} /\ pages < MaxPages /\ pages' = pages + 1
      /\ size' = size /\ cursor' = cursor /\ at' = at /\ intact' = intact /\ pc' = pc
  BY DEF HeapGrows
<1>2. /\ pages' \in InitialPages .. MaxPages /\ pages * PageSize <= pages' * PageSize
      /\ pages * PageSize \in Int /\ pages' * PageSize \in Int
  <2>1. pages' \in pages .. MaxPages /\ pages' \in 0 .. MaxPages
    BY <1>1, Bounds, WordSizeIs DEF IInv
  <2> QED
    BY <2>1, Bounds DEF IInv
<1>3. TypeOK'
  BY <1>1, <1>2 DEF IInv, TypeOK, IsPlace
<1>4. /\ size.request \in Int /\ FirstMessages \in Int
      /\ FirstMessages' = FirstMessages /\ AfterRead' = AfterRead
  BY <1>1, Lengths DEF IInv, TypeOK, FirstMessages, AfterRead
<1>5. Layout'
  BY <1>1, <1>2, <1>4 DEF IInv, Layout
<1>6. ReadsIntact' /\ TrapsOnlyWhenFull'
  BY <1>1 DEF IInv, ReadsIntact, Unread, TrapsOnlyWhenFull
<1> QED
  BY <1>3, <1>5, <1>6 DEF IInv

\* A failure ends the detection; nothing is read after it.
LEMMA FailsStep ==
  ASSUME IInv, Fails
  PROVE  IInv'
<1>1. TypeOK' /\ Layout' /\ TrapsOnlyWhenFull'
  BY DEF IInv, Fails, TypeOK, Layout, TrapsOnlyWhenFull, IsPlace
<1>2. ReadsIntact'
  BY DEF Fails, ReadsIntact, Unread
<1> QED
  BY <1>1, <1>2 DEF IInv

\* The guest's two messages lie one behind the other, so both are intact; what
\* was written before need not be.
LEMMA WrittenTwice ==
  ASSUME NEW w, NEW m \in Messages, NEW r \in Messages, m # r, NEW p, NEW q, Disjoint(p, q),
         w.at = [x \in Messages |-> w.at[x]]
  PROVE  LET v == Written(Written(w, m, p), r, q)
         IN  /\ v.at = [x \in Messages |-> v.at[x]]
             /\ v.at[m] = p /\ v.at[r] = q
             /\ \A x \in Messages \ {m, r} : v.at[x] = w.at[x]
             /\ m \in v.intact /\ r \in v.intact
             /\ v.intact \subseteq w.intact \cup {m, r}
<1> DEFINE u == Written(w, m, p)
           v == Written(u, r, q)
<1>1. u.at = [w.at EXCEPT ![m] = p] /\ u.intact = {m} \cup {n \in w.intact : Disjoint(w.at[n], p)}
  BY DEF Written
<1>2. v.at = [u.at EXCEPT ![r] = q] /\ v.intact = {r} \cup {n \in u.intact : Disjoint(u.at[n], q)}
  BY DEF Written
<1> HIDE DEF u, v
<1>3. u.at[m] = p /\ m \in u.intact
  BY <1>1
<1>4. /\ v.at = [x \in Messages |-> v.at[x]] /\ v.at[m] = p /\ v.at[r] = q
      /\ \A x \in Messages \ {m, r} : v.at[x] = w.at[x]
  BY <1>1, <1>2
<1>5. m \in v.intact /\ r \in v.intact /\ v.intact \subseteq w.intact \cup {m, r}
  BY <1>1, <1>2, <1>3
<1> QED
  BY <1>4, <1>5 DEF u, v

\* Where a message of the guest is.
LEMMA SliceIsPlace ==
  ASSUME NEW x \in 0 .. WordSize - 1, NEW n \in 0 .. WordSize
  PROVE  /\ IsPlace([start |-> AsI32(x), len |-> n])
         /\ [start |-> AsI32(x), len |-> n] # Nowhere
<1>1. WordSize \in Nat
  BY WordSizeIs
<1>2. AsI32(x) \in -WordSize .. WordSize
  BY AsI32Wraps
<1>3. IsPlace([start |-> AsI32(x), len |-> n])
  BY <1>2 DEF IsPlace
<1>4. AsI32(x) \in Int /\ n \in Int
  BY <1>1, <1>2
<1> QED
  BY <1>3, <1>4, WasmConstants

LEMMA MainStep ==
  ASSUME IInv, Main
  PROVE  IInv'
<1> DEFINE g0 == Setup(at["request"])
           g1 == WriteBytes(g0, size.params)
           g2 == WriteBytes(g1, size.hostCall)
           R == size.request  n == size.params  h == size.hostCall
           p == Slice(g0, n)  q == Slice(g1, h)
           v == Written(Written(Now, "params", p), "hostCall", q)
<1>1. /\ pc = "main" /\ size' = size /\ cursor' = cursor /\ pages' = g2.pages
      /\ cursor.len = R /\ R <= pages * PageSize
      /\ at["request"] = [start |-> 0, len |-> R]
      /\ intact = {"request"} /\ at["reply"] = Nowhere
  BY DEF IInv, Layout, Main, GuestCalled
<1>2. g0 = [head |-> 0, last |-> R, pages |-> pages]
  <2>1. R \in Nat
    BY Lengths DEF IInv, TypeOK
  <2> QED
    BY <1>1, <2>1 DEF Setup
<1>3. /\ g2.pages \in pages .. MaxPages
      /\ Holds(g1) /\ Holds(g2) => FirstMessages < g2.pages * PageSize
      /\ ~ (Holds(g1) /\ Holds(g2)) => (g2.pages + 1) * PageSize + n + h > WordSize
  <2> HIDE DEF g0
  <2>1. size \in Sizes /\ pages \in 0 .. MaxPages
    BY Bounds DEF IInv
  <2> QED
    BY <1>1, <1>2, <2>1, FirstCallGrows
<1>4. /\ R \in Nat /\ n \in Nat /\ h \in Nat \ {0}
      /\ FirstMessages = R + n + h /\ FirstMessages' = FirstMessages
  BY <1>1, Lengths DEF IInv, TypeOK, FirstMessages
<1>5. /\ p = [start |-> AsI32(R + 1), len |-> n]
      /\ q = [start |-> AsI32(R + n + 1), len |-> h]
  <2>1. g0.last = R /\ g1.last = R + n
    BY <1>2 DEF WriteBytes
  <2> QED
    BY <2>1 DEF Slice
<1>6. IF Holds(g1) /\ Holds(g2)
        THEN at' = v.at /\ intact' = v.intact /\ pc' = "called"
        ELSE pc' = "trapped" /\ at' = at /\ intact' = intact
  BY DEF Main, GuestCalled, Becomes
<1> HIDE DEF g0, g1, g2, p, q, v
<1>7. pages' \in InitialPages .. MaxPages
  BY <1>1, <1>3, Bounds DEF IInv
<1>8. CASE ~ (Holds(g1) /\ Holds(g2))
  <2>1. pc' = "trapped" /\ at' = at /\ intact' = intact
    BY <1>6, <1>8
  <2>2. TypeOK'
    BY <1>1, <1>7, <2>1 DEF IInv, TypeOK, IsPlace
  <2>3. Layout' /\ ReadsIntact'
    BY <2>1 DEF Layout, ReadsIntact, Unread
  <2>4. TrapsOnlyWhenFull'
    BY <1>1, <1>3, <1>8, <2>1 DEF TrapsOnlyWhenFull
  <2> QED
    BY <2>2, <2>3, <2>4 DEF IInv
<1>9. CASE Holds(g1) /\ Holds(g2)
  <2>1. at' = v.at /\ intact' = v.intact /\ pc' = "called"
    BY <1>6, <1>9
  <2>2. FirstMessages < pages' * PageSize /\ FirstMessages < WordSize /\ WordSize \in Nat
    <3>1. pages' * PageSize \in 0 .. WordSize /\ WordSize \in Nat
      BY <1>1, <1>3, Bounds, WordSizeIs DEF IInv
    <3> QED
      BY <1>1, <1>3, <1>4, <1>9, <3>1
  <2>3. /\ R + 1 \in 0 .. WordSize - 1 /\ R + n + 1 \in 0 .. WordSize - 1 /\ Disjoint(p, q)
        /\ n \in 0 .. WordSize /\ h \in 0 .. WordSize
    <3>1. R + 1 \in Nat /\ R + 1 + n + h <= WordSize /\ h > 0 /\ R + 1 + n = R + n + 1
      BY <1>4, <2>2
    <3>2. /\ R + 1 + n \in 0 .. WordSize - 1 /\ R + 1 \in 0 .. WordSize - 1
          /\ Disjoint([start |-> AsI32(R + 1), len |-> n],
                      [start |-> AsI32(R + 1 + n), len |-> h])
      BY <1>4, <3>1, SlicesDisjoint
    <3> QED
      BY <1>4, <1>5, <2>2, <3>1, <3>2
  <2>4. /\ IsPlace(p) /\ p # Nowhere /\ IsPlace(q) /\ q # Nowhere
    BY <1>5, <2>3, SliceIsPlace
  <2>5. /\ at' = [x \in Messages |-> at'[x]]
        /\ at'["params"] = p /\ at'["hostCall"] = q
        /\ \A x \in Messages \ {"params", "hostCall"} : at'[x] = at[x]
        /\ "params" \in intact' /\ "hostCall" \in intact'
        /\ intact' \subseteq intact \cup {"params", "hostCall"}
    <3>1. /\ "params" \in Messages /\ "hostCall" \in Messages /\ "params" # "hostCall"
          /\ Now.at = [x \in Messages |-> Now.at[x]] /\ Now.at = at /\ Now.intact = intact
      BY DEF IInv, TypeOK, Messages, Now
    <3> QED
      BY <2>1, <2>3, <3>1, WrittenTwice, SMTT(30) DEF v
  <2>6. TypeOK'
    <3>1. \A x \in Messages : at'[x] = Nowhere \/ IsPlace(at'[x])
      BY <2>4, <2>5 DEF IInv, TypeOK, IsPlace
    <3>2. \A x \in intact' : x \in Messages /\ at'[x] # Nowhere
      BY <2>4, <2>5 DEF IInv, TypeOK, Messages
    <3> QED
      BY <1>1, <1>7, <2>1, <2>5, <3>1, <3>2 DEF IInv, TypeOK
  <2>7. Layout'
    BY <1>1, <1>5, <2>1, <2>2, <1>4, <2>5 DEF Layout
  <2>8. ReadsIntact' /\ TrapsOnlyWhenFull'
    BY <2>1, <2>5 DEF ReadsIntact, Unread, TrapsOnlyWhenFull
  <2> QED
    BY <2>6, <2>7, <2>8 DEF IInv
<1> QED
  BY <1>8, <1>9

\* join over a message that ends behind the cursor: the length becomes the
\* distance of the two ends.
LEMMA Joins ==
  ASSUME NEW l \in Nat, NEW s \in Nat, NEW n \in Nat,
         NEW p, p = [start |-> 0, len |-> l], NEW other, other = [start |-> s, len |-> n]
  PROVE  /\ s + n > l => Join(p, other) = [start |-> 0, len |-> s + n - l]
         /\ ~ (s + n > l) => Join(p, other) = p
<1>1. LastOf(p) = l - 1 /\ LastOf(other) = s + n - 1
  BY DEF LastOf
<1>2. [p EXCEPT !.len = s + n - 1 - (l - 1)] = [start |-> 0, len |-> s + n - l]
  OBVIOUS
<1> QED
  BY <1>1, <1>2 DEF Join

LEMMA ReadHostCallStep ==
  ASSUME IInv, ReadHostCall
  PROVE  IInv'
<1> DEFINE R == size.request  n == size.params  h == size.hostCall
           c == [start |-> 0, len |-> n + h + 1]
<1>1. /\ pc = "called" /\ pc' = "infer" /\ size' = size /\ pages' = pages
      /\ at' = at /\ intact' = intact
      /\ cursor' = Join(Join(cursor, at["hostCall"]), at["params"])
      /\ InMemory(at["hostCall"]) /\ InMemory(at["params"])
  BY DEF ReadHostCall, HostReads
<1>2. /\ R \in Nat /\ n \in Nat /\ h \in Nat \ {0} /\ h < R
      /\ FirstMessages = R + n + h /\ FirstMessages' = FirstMessages
      /\ AfterRead = R - h /\ AfterRead' = AfterRead
  BY <1>1, Lengths DEF IInv, TypeOK, FirstMessages, AfterRead
<1>3. /\ cursor = [start |-> 0, len |-> R] /\ R + n + h < WordSize /\ WordSize \in Nat
      /\ at["params"] = [start |-> AsI32(R + 1), len |-> n]
      /\ at["hostCall"] = [start |-> AsI32(R + n + 1), len |-> h]
  <2>1. cursor \in [start : {0}, len : 0 .. WordSize] /\ cursor.len = R
    BY <1>1 DEF IInv, TypeOK, Layout
  <2>2. FirstMessages < pages * PageSize /\ pages * PageSize \in 0 .. WordSize /\ WordSize \in Nat
    BY <1>1, Bounds DEF IInv, Layout
  <2>3. cursor = [start |-> 0, len |-> R] /\ R + n + h < WordSize /\ WordSize \in Nat
    BY <1>2, <2>1, <2>2
  <2> QED
    BY <1>1, <2>3 DEF IInv, Layout
<1>4. AsI32(R + 1) = R + 1 /\ AsI32(R + n + 1) = R + n + 1
  <2>1. R + 1 \in 0 .. WordSize - 1 /\ R + n + 1 \in 0 .. WordSize - 1
    BY <1>2, <1>3
  <2>2. AsI32(R + 1) >= 0 /\ AsI32(R + n + 1) >= 0
    BY <1>1, <1>3 DEF InMemory
  <2> QED
    BY <2>1, <2>2, AsI32Wraps
<1> HIDE DEF R, n, h
<1>5. Join(cursor, at["hostCall"]) = c
  <2>1. /\ R + n + 1 \in Nat /\ R + n + 1 + h > R /\ h \in Nat
        /\ R + n + 1 + h - R = n + h + 1
    BY <1>2
  <2> QED
    BY <1>2, <1>3, <1>4, <2>1, Joins
<1>6. Join(c, at["params"]) = [start |-> 0, len |-> R - h]
  <2>1. /\ n + h + 1 \in Nat /\ R + 1 \in Nat /\ R + 1 + n > n + h + 1
        /\ R + 1 + n - (n + h + 1) = R - h
    BY <1>2
  <2> QED
    BY <1>2, <1>3, <1>4, <2>1, Joins
<1>7. cursor' = [start |-> 0, len |-> R - h] /\ R - h \in 0 .. WordSize
  BY <1>1, <1>2, <1>3, <1>5, <1>6
<1>8. TypeOK'
  BY <1>1, <1>7 DEF IInv, TypeOK, IsPlace
<1>9. Layout'
  BY <1>1, <1>2, <1>7 DEF IInv, Layout
<1>10. ReadsIntact' /\ TrapsOnlyWhenFull'
  BY <1>1 DEF ReadsIntact, Unread, TrapsOnlyWhenFull
<1> QED
  BY <1>8, <1>9, <1>10 DEF IInv

LEMMA WriteReplyStep ==
  ASSUME IInv, WriteReply
  PROVE  IInv'
<1> DEFINE r == size.reply
           a == AfterRead
           p == [start |-> a, len |-> r]
<1>1. /\ pc = "infer" /\ pc' = "get_probability" /\ size' = size /\ pages' = pages
      /\ cursor \in [start : {0}, len : 0 .. WordSize] /\ cursor.len = a
      /\ FirstMessages < pages * PageSize
  BY DEF IInv, TypeOK, Layout, WriteReply, HostWrites
<1>2. /\ r \in Nat /\ a \in Nat /\ NextOf(cursor) = a
      /\ FirstMessages' = FirstMessages /\ AfterRead' = a
  BY <1>1, Lengths DEF IInv, TypeOK, NextOf, LastOf, AfterRead, FirstMessages
<1> HIDE DEF a
<1>3. /\ at' = [at EXCEPT !["reply"] = p]
      /\ intact' = {"reply"} \cup {x \in intact : Disjoint(at[x], p)}
      /\ cursor' = [cursor EXCEPT !.len = @ + r]
      /\ a + r <= pages * PageSize
  BY <1>1, <1>2 DEF WriteReply, HostWrites, Becomes, Written, Now, Consume, InMemory
<1>4. a + r \in 0 .. WordSize /\ a \in 0 .. WordSize /\ r \in 0 .. WordSize /\ WordSize \in Nat
  BY <1>2, <1>3, Bounds DEF IInv
<1>5. cursor' \in [start : {0}, len : 0 .. WordSize] /\ cursor'.len = a + r
  BY <1>1, <1>2, <1>3, <1>4
<1>6. /\ at' = [m \in Messages |-> at'[m]] /\ at'["reply"] = p
      /\ \A m \in Messages \ {"reply"} : at'[m] = at[m]
  BY <1>1, <1>3 DEF IInv, TypeOK, Messages
<1>7. IsPlace(p) /\ p # Nowhere
  BY <1>2, <1>4, WasmConstants DEF IsPlace
<1>8. TypeOK'
  <2>1. \A m \in Messages : at'[m] = Nowhere \/ IsPlace(at'[m])
    BY <1>6, <1>7 DEF IInv, TypeOK
  <2>2. \A m \in intact' : m \in Messages /\ at'[m] # Nowhere
    BY <1>3, <1>6, <1>7 DEF IInv, TypeOK, Messages
  <2> QED
    BY <1>1, <1>5, <1>6, <2>1, <2>2 DEF IInv, TypeOK
<1>9. Layout'
  BY <1>1, <1>2, <1>5, <1>6 DEF Layout
<1>10. ReadsIntact' /\ TrapsOnlyWhenFull'
  BY <1>1, <1>3 DEF ReadsIntact, Unread, TrapsOnlyWhenFull
<1> QED
  BY <1>8, <1>9, <1>10 DEF IInv

LEMMA GetProbabilityStep ==
  ASSUME IInv, GetProbability
  PROVE  IInv' /\ pages' = pages /\ pc' = "finished"
<1> DEFINE g0 == Setup(at["reply"])
           g1 == WriteBytes(g0, size.detection)
           g2 == WriteBytes(g1, size.finished)
           a == AfterRead  r == size.reply  d == size.detection  f == size.finished
           p == Slice(g0, d)  q == Slice(g1, f)
           v == Written(Written(Now, "detection", p), "finished", q)
<1>1. /\ pc = "get_probability" /\ size' = size /\ cursor' = cursor /\ pages' = g2.pages
      /\ cursor.len = a + r /\ FirstMessages < pages * PageSize
      /\ at["reply"] = [start |-> a, len |-> r]
  BY DEF IInv, Layout, GetProbability, GuestCalled
<1>2. g0 = [head |-> a, last |-> a + r, pages |-> pages]
  BY <1>1 DEF Setup
<1>3. g2.pages = pages /\ Holds(g1) /\ Holds(g2)
  <2> HIDE DEF g0
  <2>1. size \in Sizes /\ pages \in 0 .. MaxPages
    BY Bounds DEF IInv
  <2> QED
    BY <1>1, <1>2, <2>1, SecondCallStays
<1>4. /\ a \in Nat /\ r \in Nat /\ d \in Nat /\ f \in Nat \ {0}
      /\ a + r + d + f + 1 < FirstMessages
      /\ FirstMessages \in Nat /\ FirstMessages' = FirstMessages /\ AfterRead' = a
  BY <1>1, Lengths DEF IInv, TypeOK, FirstMessages, AfterRead
<1>5. /\ p = [start |-> AsI32(a + r + 1), len |-> d]
      /\ q = [start |-> AsI32(a + r + d + 1), len |-> f]
  <2>1. g0.last = a + r /\ g1.last = a + r + d
    BY <1>2 DEF WriteBytes
  <2> QED
    BY <2>1 DEF Slice
<1>6. at' = v.at /\ intact' = v.intact /\ pc' = "finished"
  BY <1>3 DEF GetProbability, GuestCalled, Becomes
<1> HIDE DEF g0, g1, g2, p, q, v, a
<1>7. pages' = pages
  BY <1>1, <1>3
<1>8. /\ a + r + 1 \in 0 .. WordSize - 1 /\ a + r + d + 1 \in 0 .. WordSize - 1
      /\ d \in 0 .. WordSize /\ f \in 0 .. WordSize /\ Disjoint(p, q)
  <2>1. pages * PageSize \in 0 .. WordSize /\ WordSize \in Nat
    BY Bounds DEF IInv
  <2>2. /\ a + r + 1 \in Nat /\ a + r + 1 + d + f <= WordSize /\ f > 0
        /\ a + r + 1 + d = a + r + d + 1
    BY <1>1, <1>4, <2>1
  <2>3. /\ a + r + 1 + d \in 0 .. WordSize - 1 /\ a + r + 1 \in 0 .. WordSize - 1
        /\ Disjoint([start |-> AsI32(a + r + 1), len |-> d],
                    [start |-> AsI32(a + r + 1 + d), len |-> f])
    BY <1>4, <2>2, SlicesDisjoint
  <2> QED
    BY <1>4, <1>5, <2>1, <2>2, <2>3
<1>9. IsPlace(p) /\ p # Nowhere /\ IsPlace(q) /\ q # Nowhere
  BY <1>5, <1>8, SliceIsPlace
<1>10. /\ at' = [x \in Messages |-> at'[x]]
       /\ at'["detection"] = p /\ at'["finished"] = q
       /\ \A x \in Messages \ {"detection", "finished"} : at'[x] = at[x]
       /\ "detection" \in intact' /\ "finished" \in intact'
       /\ intact' \subseteq intact \cup {"detection", "finished"}
  <2>1. /\ "detection" \in Messages /\ "finished" \in Messages /\ "detection" # "finished"
        /\ Now.at = [x \in Messages |-> Now.at[x]] /\ Now.at = at /\ Now.intact = intact
    BY DEF IInv, TypeOK, Messages, Now
  <2>2. Disjoint(p, q)
    BY <1>8
  <2>3. /\ v.at = [x \in Messages |-> v.at[x]]
        /\ v.at["detection"] = p /\ v.at["finished"] = q
        /\ \A x \in Messages \ {"detection", "finished"} : v.at[x] = Now.at[x]
        /\ "detection" \in v.intact /\ "finished" \in v.intact
        /\ v.intact \subseteq Now.intact \cup {"detection", "finished"}
    BY <2>1, <2>2, WrittenTwice DEF v
  <2> QED
    BY <1>6, <2>1, <2>3
<1>11. TypeOK'
  <2>1. \A x \in Messages : at'[x] = Nowhere \/ IsPlace(at'[x])
    BY <1>9, <1>10 DEF IInv, TypeOK
  <2>2. \A x \in intact' : x \in Messages /\ at'[x] # Nowhere
    BY <1>9, <1>10 DEF IInv, TypeOK, Messages
  <2> QED
    BY <1>1, <1>6, <1>7, <1>10, <2>1, <2>2 DEF IInv, TypeOK
<1>12. Layout'
  BY <1>1, <1>4, <1>5, <1>6, <1>7, <1>10 DEF Layout
<1>13. ReadsIntact' /\ TrapsOnlyWhenFull'
  BY <1>6, <1>10 DEF ReadsIntact, Unread, TrapsOnlyWhenFull
<1> QED
  BY <1>6, <1>7, <1>11, <1>12, <1>13 DEF IInv

LEMMA ReadFinishedStep ==
  ASSUME IInv, ReadFinished
  PROVE  IInv'
<1> DEFINE b == AfterRead + size.reply
           d == size.detection  f == size.finished
           c == [start |-> 0, len |-> d + f + 1]
<1>1. /\ pc = "finished" /\ pc' = "done" /\ size' = size /\ pages' = pages
      /\ at' = at /\ intact' = intact
      /\ cursor' = Join(Join(cursor, at["finished"]), at["detection"])
      /\ InMemory(at["finished"]) /\ InMemory(at["detection"])
  BY DEF ReadFinished, HostReads
<1>2. /\ b \in Nat /\ d \in Nat /\ f \in Nat \ {0} /\ b + d + f + 1 < WordSize /\ WordSize \in Nat
      /\ cursor = [start |-> 0, len |-> b]
      /\ at["detection"] = [start |-> AsI32(b + 1), len |-> d]
      /\ at["finished"] = [start |-> AsI32(b + d + 1), len |-> f]
  <2>1. /\ b \in Nat /\ d \in Nat /\ f \in Nat \ {0} /\ FirstMessages \in Nat
        /\ b + d + f + 1 < FirstMessages
    BY Lengths DEF IInv, TypeOK, FirstMessages, AfterRead
  <2>2. /\ FirstMessages < pages * PageSize
        /\ at["detection"] = [start |-> AsI32(b + 1), len |-> d]
        /\ at["finished"] = [start |-> AsI32(b + d + 1), len |-> f]
        /\ cursor \in [start : {0}, len : 0 .. WordSize] /\ cursor.len = b
    BY <1>1 DEF IInv, TypeOK, Layout
  <2>3. pages * PageSize \in 0 .. WordSize /\ WordSize \in Nat
    BY Bounds DEF IInv
  <2>4. cursor = [start |-> 0, len |-> b]
    BY <2>2
  <2> QED
    BY <2>1, <2>2, <2>3, <2>4
<1>3. AsI32(b + 1) = b + 1 /\ AsI32(b + d + 1) = b + d + 1
  <2>1. b + 1 \in 0 .. WordSize - 1 /\ b + d + 1 \in 0 .. WordSize - 1
    BY <1>2
  <2>2. AsI32(b + 1) >= 0 /\ AsI32(b + d + 1) >= 0
    BY <1>1, <1>2 DEF InMemory
  <2> QED
    BY <2>1, <2>2, AsI32Wraps
<1> HIDE DEF b, d, f
<1>4. Join(cursor, at["finished"]) = c
  <2>1. /\ b + d + 1 \in Nat /\ b + d + 1 + f > b /\ f \in Nat
        /\ b + d + 1 + f - b = d + f + 1
    BY <1>2
  <2> QED
    BY <1>2, <1>3, <2>1, Joins
<1>5. \/ Join(c, at["detection"]) = [start |-> 0, len |-> b - f] /\ b > f
      \/ Join(c, at["detection"]) = c
  <2>1. /\ d + f + 1 \in Nat /\ b + 1 \in Nat
        /\ b + 1 + d - (d + f + 1) = b - f
        /\ b + 1 + d > d + f + 1 <=> b > f
    BY <1>2
  <2> QED
    BY <1>2, <1>3, <2>1, Joins
<1>6. cursor' \in [start : {0}, len : 0 .. WordSize]
  BY <1>1, <1>2, <1>4, <1>5
<1>7. TypeOK'
  BY <1>1, <1>6 DEF IInv, TypeOK, IsPlace
<1>8. Layout' /\ ReadsIntact' /\ TrapsOnlyWhenFull'
  BY <1>1 DEF Layout, ReadsIntact, Unread, TrapsOnlyWhenFull
<1> QED
  BY <1>7, <1>8 DEF IInv

LEMMA NextIInv == IInv /\ [Next]_vars => IInv'
<1> SUFFICES ASSUME IInv, [Next]_vars
             PROVE  IInv'
  OBVIOUS
<1>1. CASE WriteRequest
  BY <1>1, WriteRequestStep
<1>2. CASE Main
  BY <1>2, MainStep
<1>3. CASE ReadHostCall
  BY <1>3, ReadHostCallStep
<1>4. CASE WriteReply
  BY <1>4, WriteReplyStep
<1>5. CASE GetProbability
  BY <1>5, GetProbabilityStep
<1>6. CASE ReadFinished
  BY <1>6, ReadFinishedStep
<1>7. CASE HeapGrows
  BY <1>7, HeapGrowsStep
<1>8. CASE HostWriteFails \/ HostReadFails \/ GuestFails \/ InferFails
  BY <1>8, FailsStep DEF HostWriteFails, HostReadFails, GuestFails, InferFails
<1>9. CASE UNCHANGED vars
  BY <1>9 DEF vars, IInv, TypeOK, IsPlace, Layout, FirstMessages, AfterRead,
              ReadsIntact, Unread, TrapsOnlyWhenFull
<1> QED
  BY <1>1, <1>2, <1>3, <1>4, <1>5, <1>6, <1>7, <1>8, <1>9 DEF Next

(***************************************************************************)
(* The theorems.                                                           *)
(***************************************************************************)
\* Everything is where it is expected to be, at each point of a detection.
THEOREM Invariance == Spec => []IInv
<1>1. Init => IInv
  BY InitIInv
<1>2. IInv /\ [Next]_vars => IInv'
  BY NextIInv
<1> QED
  BY <1>1, <1>2, PTL DEF Spec

\* Types; in particular the length of the host's cursor never becomes negative.
THEOREM TypeCorrect == Spec => []TypeOK
<1>1. IInv => TypeOK
  BY DEF IInv
<1> QED
  BY <1>1, Invariance, PTL

\* No message is overwritten before it was read.
THEOREM ReadsIntactAlways == Spec => []ReadsIntact
<1>1. IInv => ReadsIntact
  BY DEF IInv
<1> QED
  BY <1>1, Invariance, PTL

\* The host's second message always finds room, though the host never grows the
\* memory.
THEOREM RoomForReplyAlways == Spec => []RoomForReply
<1>1. ASSUME IInv, pc = "infer"
      PROVE  InMemory([start |-> NextOf(cursor), len |-> size.reply])
  <2>1. /\ cursor.start = 0 /\ cursor.len = AfterRead /\ size \in Sizes
        /\ FirstMessages < pages * PageSize /\ pages * PageSize \in Int
    BY <1>1, Bounds DEF IInv, TypeOK, Layout
  <2>2. /\ NextOf(cursor) = AfterRead /\ AfterRead \in Nat /\ size.reply \in Nat
        /\ AfterRead + size.reply <= FirstMessages /\ FirstMessages \in Nat
    BY <2>1, Lengths DEF NextOf, LastOf, AfterRead, FirstMessages
  <2> QED
    BY <2>1, <2>2 DEF InMemory
<1>2. IInv => RoomForReply
  BY <1>1 DEF RoomForReply
<1> QED
  BY <1>2, Invariance, PTL

\* A guest runs out of memory in its first call only, and only when there were
\* not enough pages left to ask for.
THEOREM TrapsOnlyWhenFullAlways == Spec => []TrapsOnlyWhenFull
<1>1. IInv => TrapsOnlyWhenFull
  BY DEF IInv
<1> QED
  BY <1>1, Invariance, PTL

\* Only a guest that is short of memory grows it: when the memory grows in the
\* first call, its last message did not fit before; in the second nothing grows.
LEMMA MainGrowsWhenShort ==
  ASSUME IInv, Main, pc' = "called", pages' > pages
  PROVE  ~ InMemory(at'["hostCall"])
<1> DEFINE g0 == Setup(at["request"])
           g1 == WriteBytes(g0, size.params)
           g2 == WriteBytes(g1, size.hostCall)
           s == size.request + size.params + 1
<1>1. /\ pages' = g2.pages /\ size.request <= pages * PageSize
      /\ at["request"] = [start |-> 0, len |-> size.request] /\ size \in Sizes
  BY DEF IInv, TypeOK, Layout, Main, GuestCalled
<1>2. g0 = [head |-> 0, last |-> size.request, pages |-> pages]
  BY <1>1, Lengths DEF Setup
<1>3. FirstMessages + 1 <= pages * PageSize => pages' = pages
  <2> HIDE DEF g0
  <2>1. pages \in 0 .. MaxPages
    BY Bounds DEF IInv
  <2> QED
    BY <1>1, <1>2, <2>1, FirstCallGrows
<1>4. /\ size.request \in Nat /\ size.params \in Nat /\ size.hostCall \in Nat \ {0}
      /\ FirstMessages = size.request + size.params + size.hostCall
      /\ pages * PageSize \in Nat /\ pages \in Nat /\ WordSize \in Nat
  BY <1>1, Lengths, Bounds DEF IInv, FirstMessages
<1>5. pages * PageSize < s + size.hostCall
  BY <1>3, <1>4
<1>6. /\ at'["hostCall"] = [start |-> AsI32(s), len |-> size.hostCall]
      /\ FirstMessages < WordSize
  <2>1. TypeOK' /\ Layout'
    BY MainStep DEF IInv
  <2>2. size' = size /\ FirstMessages' = FirstMessages
    BY DEF Main, GuestCalled, FirstMessages
  <2>3. at'["hostCall"] = [start |-> AsI32(s), len |-> size.hostCall]
    BY <2>1, <2>2 DEF Layout
  <2>4. FirstMessages < pages' * PageSize /\ pages' \in 0 .. MaxPages
    BY <2>1, <2>2, WasmConstants DEF Layout, TypeOK
  <2>5. pages' * PageSize \in 0 .. WordSize
    BY <2>4, WordSizeIs
  <2> QED
    BY <1>4, <2>3, <2>4, <2>5
<1>7. s \in 0 .. WordSize - 1
  BY <1>4, <1>6
<1>8. AsI32(s) >= 0 => AsI32(s) = s
  BY <1>7, AsI32Wraps
<1> QED
  BY <1>4, <1>5, <1>6, <1>7, <1>8 DEF InMemory

THEOREM GrowsOnlyWhenShortAlways == Spec => GrowsOnlyWhenShort
<1> DEFINE Short ==
             /\ pc = "main" /\ pc' = "called" /\ pages' > pages => ~ InMemory(at'["hostCall"])
             /\ pc = "get_probability" /\ pc' = "finished" => pages' = pages
<1>1. ASSUME IInv, [Next]_vars
      PROVE  [Short]_vars
  <2>1. ASSUME Next, pc = "main", pc' = "called"
        PROVE  Main
    BY <2>1 DEF Next, WriteRequest, WriteReply, HostWrites, GetProbability, GuestCalled,
                ReadHostCall, ReadFinished, HostReads, HeapGrows, HostWriteFails,
                HostReadFails, GuestFails, InferFails, Fails
  <2>2. ASSUME Next, pc = "get_probability", pc' = "finished"
        PROVE  GetProbability
    BY <2>2 DEF Next, WriteRequest, WriteReply, HostWrites, Main, GuestCalled,
                ReadHostCall, ReadFinished, HostReads, HeapGrows, HostWriteFails,
                HostReadFails, GuestFails, InferFails, Fails
  <2>3. ASSUME Next, pc = "main", pc' = "called", pages' > pages
        PROVE  ~ InMemory(at'["hostCall"])
    BY <1>1, <2>1, <2>3, MainGrowsWhenShort
  <2>4. ASSUME Next, pc = "get_probability", pc' = "finished"
        PROVE  pages' = pages
    BY <1>1, <2>2, <2>4, GetProbabilityStep
  <2> QED
    BY <1>1, <2>3, <2>4
<1>2. Spec => [][Short]_vars
  BY <1>1, Invariance, PTL DEF Spec
<1> QED
  BY <1>2 DEF GrowsOnlyWhenShort
=============================================================================
