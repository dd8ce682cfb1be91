--------------------------- MODULE MCServices_proofs ---------------------------
(* Requests and contracts, for every value of the constants: the rate windows, the circuit and
   the log of rejections of delegated exchanges; webhooks across clocks and a rotated secret;
   schemas that evolve; the locked registry; the tools of an MCP server; requests of an App;
   requests with exchanged tokens.  One section has the inductive invariant of one part, how each
   of its steps keeps it, and what it tells; the last one puts the parts together. *)
EXTENDS MCServices, FiniteSetTheorems, TLAPS

--------------------------------------------------------------------------------
(* Windows.  "times" are the calls a limiter let through, "b" its bucket, "t" the time. *)

(* The calls in their order, each with the first call of its time. *)
InOrder(times, t) ==
    /\ times \in Seq(Nat)
    /\ \A i \in 1..Len(times) : times[i] <= t
    /\ \A i \in 1..Len(times) : \A j \in i..Len(times) : times[i] <= times[j]
    /\ \A i \in 1..Len(times) : \E f \in 1..i :
           times[f] = times[i] /\ \A j \in 1..f - 1 : times[j] < times[f]

(* Two windows of Limit calls do not fit into the time of one, less a call. *)
Spaced(times, L, W) ==
    \A i \in 1..Len(times) :
        i + 2 * L - 1 <= Len(times)
            => times[i] + W <= times[i + 2 * L - 1]

(* The bucket's window began with call f, and Limit calls before it lie a window back. *)
Began(times, b, f, L, W) ==
    /\ b.start = times[f]
    /\ Len(times) + 1 - f <= b.count
    /\ Len(times) + 1 - f <= L
    /\ f > L => times[f - L] + W <= times[f]

(* A bucket that was evicted, or never filled: the last Limit calls began a window ago. *)
Rested(times, t, L, W) ==
    Len(times) >= L
        => times[Len(times) + 1 - L] + W <= t

Bucket == [count : Nat, start : Nat]
WindowedBy(times, b, t, L, W) ==
    /\ b \in Bucket /\ b.start <= t
    /\ InOrder(times, t) /\ Spaced(times, L, W)
    /\ b.count = 0 => Rested(times, t, L, W)
    /\ b.count > 0 => \E f \in 1..Len(times) : Began(times, b, f, L, W)

(* A sequence that is longer by one. *)
LEMMA Longer ==
    ASSUME NEW times \in Seq(Nat), NEW t \in Nat
    PROVE  /\ times \o <<t>> \in Seq(Nat) /\ Len(times \o <<t>>) = Len(times) + 1
           /\ Len(times) \in Nat
           /\ \A i \in 1..Len(times) : (times \o <<t>>)[i] = times[i] /\ times[i] \in Nat
           /\ (times \o <<t>>)[Len(times) + 1] = t
  OBVIOUS

(* What is a window back from an earlier time is so from a later one. *)
LEMMA WindowBack ==
    ASSUME NEW x \in Nat, NEW y \in Nat, NEW z \in Nat, NEW t \in Nat, NEW W \in Nat,
           x <= y, y + W <= z, z <= t
    PROVE  x + W <= t
  OBVIOUS

(* A call at the present time keeps the order. *)
LEMMA OrderStays ==
    ASSUME NEW t \in Nat, NEW times, InOrder(times, t)
    PROVE  InOrder(times \o <<t>>, t)
  <1> DEFINE n == Len(times)
             longer == times \o <<t>>
  <1>1. /\ times \in Seq(Nat)
        /\ \A i \in 1..n : times[i] <= t
        /\ \A i \in 1..n : \A j \in i..n : times[i] <= times[j]
        /\ \A i \in 1..n : \E f \in 1..i :
               times[f] = times[i] /\ \A j \in 1..f - 1 : times[j] < times[f]
    BY DEF InOrder
  <1>2. /\ longer \in Seq(Nat) /\ Len(longer) = n + 1 /\ n \in Nat
        /\ \A i \in 1..n : longer[i] = times[i] /\ times[i] \in Nat
        /\ longer[n + 1] = t
    BY <1>1, Longer
  <1> HIDE DEF longer, n
  <1>3. \A i \in 1..n + 1 : longer[i] <= t
    BY <1>1, <1>2
  <1>4. \A i \in 1..n + 1 : \A j \in i..n + 1 : longer[i] <= longer[j]
    <2> TAKE i \in 1..n + 1
    <2> TAKE j \in i..n + 1
    <2>1. CASE j = n + 1
      BY <1>2, <1>3, <2>1
    <2>2. CASE j # n + 1
      BY <1>1, <1>2, <2>2
    <2> QED
      BY <2>1, <2>2
  <1>5. ASSUME NEW i \in 1..n + 1
        PROVE  \E f \in 1..i :
                   longer[f] = longer[i] /\ \A j \in 1..f - 1 : longer[j] < longer[f]
    <2>1. CASE i \in 1..n
      <3>1. PICK f \in 1..i : times[f] = times[i] /\ \A j \in 1..f - 1 : times[j] < times[f]
        BY <1>1, <2>1
      <3>2. longer[f] = longer[i] /\ \A j \in 1..f - 1 : longer[j] < longer[f]
        BY <1>2, <2>1, <3>1
      <3> QED
        BY <3>2
    <2>2. CASE i = n + 1 /\ n > 0 /\ times[n] = t
      <3>0. n \in 1..n
        BY <1>2, <2>2
      <3>1. PICK f \in 1..n : times[f] = times[n] /\ \A j \in 1..f - 1 : times[j] < times[f]
        BY <1>1, <3>0
      <3>2. longer[f] = longer[i] /\ \A j \in 1..f - 1 : longer[j] < longer[f]
        BY <1>2, <2>2, <3>1
      <3> QED
        BY <1>2, <2>2, <3>2
    <2>3. CASE i = n + 1 /\ ~(n > 0 /\ times[n] = t)
      <3>1. ASSUME NEW j \in 1..n PROVE times[j] < t
        <4>1. n \in 1..n /\ n \in j..n /\ times[n] # t
          BY <1>2, <2>3
        <4>2. times[j] <= times[n] /\ times[n] <= t /\ times[j] \in Nat /\ times[n] \in Nat
          BY <1>1, <1>2, <4>1
        <4> QED
          BY <4>1, <4>2
      <3>2. \A j \in 1..i - 1 : longer[j] < longer[i]
        BY <1>2, <2>3, <3>1
      <3> QED
        BY <1>2, <2>3, <3>2
    <2> QED
      BY <1>2, <2>1, <2>2, <2>3
  <1>6. /\ longer \in Seq(Nat)
        /\ \A i \in 1..Len(longer) : longer[i] <= t
        /\ \A i \in 1..Len(longer) : \A j \in i..Len(longer) : longer[i] <= longer[j]
        /\ \A i \in 1..Len(longer) : \E f \in 1..i :
               longer[f] = longer[i] /\ \A j \in 1..f - 1 : longer[j] < longer[f]
    BY <1>2, <1>3, <1>4, <1>5
  <1> QED
    BY <1>6 DEF InOrder, longer

(* A call through a bucket whose window is over begins a window. *)
LEMMA FirstOfWindow ==
    ASSUME NEW L \in Nat \ {0}, NEW W \in Nat \ {0},
           NEW t \in Nat, NEW times, NEW b, WindowedBy(times, b, t, L, W),
           b.count = 0 \/ t - b.start >= W
    PROVE  WindowedBy(times \o <<t>>, [count |-> 1, start |-> t], t, L, W)
  <1> DEFINE n == Len(times)
             longer == times \o <<t>>
  <1>1. /\ b \in Bucket /\ b.start <= t /\ InOrder(times, t) /\ Spaced(times, L, W)
        /\ b.count = 0 => Rested(times, t, L, W)
        /\ b.count > 0 => \E f \in 1..n : Began(times, b, f, L, W)
    BY DEF WindowedBy
  <1>2. /\ times \in Seq(Nat)
        /\ \A i \in 1..n : \A j \in i..n : times[i] <= times[j]
    BY <1>1 DEF InOrder
  <1>3. /\ longer \in Seq(Nat) /\ Len(longer) = n + 1 /\ n \in Nat
        /\ \A i \in 1..n : longer[i] = times[i] /\ times[i] \in Nat
        /\ longer[n + 1] = t
    BY <1>2, Longer
  <1>4. L \in Nat \ {0} /\ W \in Nat \ {0} /\ b.count \in Nat /\ b.start \in Nat
    BY <1>1 DEF Bucket
  <1>5. InOrder(longer, t)
    BY <1>1, OrderStays
  <1> HIDE DEF longer, n
  <1>6. ASSUME L <= n PROVE times[n + 1 - L] + W <= t
    <2>1. CASE b.count = 0
      BY <1>1, <1>6, <2>1 DEF Rested, n
    <2>2. CASE b.count > 0
      <3>1. PICK f \in 1..n : Began(times, b, f, L, W)
        BY <1>1, <2>2
      <3>2. b.start = times[f] /\ n + 1 - L <= f
        BY <1>3, <1>4, <3>1 DEF Began, n
      <3>3. n + 1 - L \in 1..n /\ f \in n + 1 - L..n
        BY <1>3, <1>4, <1>6, <3>2
      <3>4. times[n + 1 - L] <= times[f] /\ times[n + 1 - L] \in Nat
        BY <1>2, <1>3, <3>3
      <3> QED
        BY <1>4, <2>2, <3>2, <3>4
    <2> QED
      BY <1>4, <2>1, <2>2
  <1>7. Spaced(longer, L, W)
    <2> SUFFICES ASSUME NEW i \in 1..Len(longer), i + 2 * L - 1 <= Len(longer)
                 PROVE  longer[i] + W <= longer[i + 2 * L - 1]
      BY DEF Spaced
    <2>1. CASE i + 2 * L - 1 <= n
      <3>1. i \in 1..n /\ i + 2 * L - 1 \in 1..n
        BY <1>3, <1>4, <2>1
      <3>2. times[i] + W <= times[i + 2 * L - 1]
        BY <1>1, <2>1, <3>1 DEF Spaced, n
      <3> QED
        BY <1>3, <3>1, <3>2
    <2>2. CASE i + 2 * L - 1 = n + 1
      <3>1. i \in 1..n /\ n + 1 - L \in i..n /\ n + 1 - L \in 1..n /\ L <= n
        BY <1>3, <1>4, <2>2
      <3>2. times[i] <= times[n + 1 - L] /\ times[i] \in Nat /\ times[n + 1 - L] \in Nat
        BY <1>2, <1>3, <3>1
      <3>3. times[n + 1 - L] + W <= t
        BY <1>6, <3>1
      <3>4. times[i] + W <= t
        BY <3>2, <3>3, WindowBack
      <3>5. longer[i] = times[i] /\ longer[n + 1] = t
        BY <1>3, <3>1
      <3> QED
        BY <2>2, <3>4, <3>5
    <2> QED
      BY <1>3, <1>4, <2>1, <2>2
  <1>8. Began(longer, [count |-> 1, start |-> t], n + 1, L, W)
    <2>1. ASSUME n + 1 > L PROVE longer[n + 1 - L] + W <= longer[n + 1]
      <3>1. L <= n /\ n + 1 - L \in 1..n
        BY <1>3, <1>4, <2>1
      <3> QED
        BY <1>3, <1>6, <3>1
    <2> QED
      BY <1>3, <1>4, <2>1 DEF Began
  <1>9. n + 1 \in 1..Len(longer)
    BY <1>3
  <1> QED
    BY <1>5, <1>7, <1>8, <1>9 DEF WindowedBy, Bucket, longer


(* A call in a window that is not full, for which the bucket counts one more. *)
LEMMA NextOfWindow ==
    ASSUME NEW L \in Nat \ {0}, NEW W \in Nat \ {0},
           NEW t \in Nat, NEW times, NEW b, WindowedBy(times, b, t, L, W),
           b.count > 0, b.count + 1 <= L
    PROVE  WindowedBy(times \o <<t>>, [b EXCEPT !.count = @ + 1], t, L, W)
  <1> DEFINE n == Len(times)
             longer == times \o <<t>>
             more == [b EXCEPT !.count = @ + 1]
  <1>1. /\ b \in Bucket /\ b.start <= t /\ InOrder(times, t) /\ Spaced(times, L, W)
        /\ \E f \in 1..n : Began(times, b, f, L, W)
    BY DEF WindowedBy
  <1>2. /\ times \in Seq(Nat)
        /\ \A i \in 1..n : times[i] <= t
        /\ \A i \in 1..n : \A j \in i..n : times[i] <= times[j]
    BY <1>1 DEF InOrder
  <1>3. /\ longer \in Seq(Nat) /\ Len(longer) = n + 1 /\ n \in Nat
        /\ \A i \in 1..n : longer[i] = times[i] /\ times[i] \in Nat
        /\ longer[n + 1] = t
    BY <1>2, Longer
  <1>4. L \in Nat \ {0} /\ W \in Nat \ {0} /\ b.count \in Nat /\ b.start \in Nat
    BY <1>1 DEF Bucket
  <1>5. InOrder(longer, t)
    BY <1>1, OrderStays
  <1>6. more \in Bucket /\ more.count = b.count + 1 /\ more.start = b.start
    BY <1>1 DEF Bucket
  <1> HIDE DEF longer, n, more
  <1>7. PICK f \in 1..n : Began(times, b, f, L, W)
    BY <1>1
  <1>8. /\ b.start = times[f] /\ n + 1 - f <= b.count /\ n + 1 - f <= L
        /\ f > L => times[f - L] + W <= times[f]
    BY <1>7 DEF Began, n
  <1>9. Spaced(longer, L, W)
    <2> SUFFICES ASSUME NEW i \in 1..Len(longer), i + 2 * L - 1 <= Len(longer)
                 PROVE  longer[i] + W <= longer[i + 2 * L - 1]
      BY DEF Spaced
    <2>1. CASE i + 2 * L - 1 <= n
      <3>1. i \in 1..n /\ i + 2 * L - 1 \in 1..n
        BY <1>3, <1>4, <2>1
      <3>2. times[i] + W <= times[i + 2 * L - 1]
        BY <1>1, <2>1, <3>1 DEF Spaced, n
      <3> QED
        BY <1>3, <3>1, <3>2
    <2>2. CASE i + 2 * L - 1 = n + 1
      <3>0. /\ n \in Nat /\ i \in Nat /\ i >= 1 /\ f \in Nat /\ f <= n
            /\ n + 1 - f <= b.count
        BY <1>3, <1>8
      <3>1. i \in 1..n /\ f - L \in i..n /\ f - L \in 1..n /\ f > L
        BY <1>4, <2>2, <3>0
      <3>2. /\ times[i] <= times[f - L] /\ times[f] <= t
            /\ times[i] \in Nat /\ times[f - L] \in Nat /\ times[f] \in Nat
        BY <1>2, <1>3, <3>1
      <3>3. times[f - L] + W <= times[f]
        BY <1>8, <3>1
      <3>4. times[i] + W <= t
        BY <3>2, <3>3, WindowBack
      <3>5. longer[i] = times[i] /\ longer[n + 1] = t
        BY <1>3, <3>1
      <3> QED
        BY <2>2, <3>4, <3>5
    <2> QED
      BY <1>3, <1>4, <2>1, <2>2
  <1>10. Began(longer, more, f, L, W) /\ f \in 1..Len(longer)
    <2>1. ASSUME f > L PROVE longer[f - L] + W <= longer[f]
      <3>1. f - L \in 1..n
        BY <1>3, <1>4, <2>1
      <3>2. longer[f - L] = times[f - L] /\ longer[f] = times[f]
        BY <1>3, <3>1
      <3> QED
        BY <1>8, <2>1, <3>2
    <2>2. /\ f \in 1..Len(longer) /\ f \in 1..n /\ longer[f] = times[f]
          /\ Len(longer) + 1 - f = (n + 1 - f) + 1
      BY <1>3
    <2>3. n + 1 - f \in Int /\ (n + 1 - f) + 1 <= b.count + 1 /\ (n + 1 - f) + 1 <= L
      BY <1>3, <1>4, <1>8
    <2> QED
      BY <1>6, <1>8, <2>1, <2>2, <2>3 DEF Began
  <1>11. WindowedBy(longer, more, t, L, W)
    BY <1>1, <1>4, <1>5, <1>6, <1>9, <1>10 DEF WindowedBy
  <1> QED
    BY <1>11 DEF longer, more

(* A call that is refused: the bucket counts it, nothing else changes. *)
LEMMA RefusedCall ==
    ASSUME NEW L \in Nat \ {0}, NEW W \in Nat \ {0},
           NEW t \in Nat, NEW times, NEW b, WindowedBy(times, b, t, L, W), b.count > 0
    PROVE  WindowedBy(times, [b EXCEPT !.count = @ + 1], t, L, W)
  <1> DEFINE more == [b EXCEPT !.count = @ + 1]
  <1>1. b \in Bucket /\ b.count \in Nat /\ Len(times) \in Nat
    BY DEF WindowedBy, Bucket, InOrder
  <1>2. more \in Bucket /\ more.count = b.count + 1 /\ more.start = b.start
    BY <1>1 DEF Bucket
  <1> HIDE DEF more
  <1>3. PICK f \in 1..Len(times) : Began(times, b, f, L, W)
    BY DEF WindowedBy
  <1>4. Began(times, more, f, L, W)
    BY <1>1, <1>2, <1>3 DEF Began
  <1>5. WindowedBy(times, more, t, L, W)
    BY <1>1, <1>2, <1>4 DEF WindowedBy
  <1> QED
    BY <1>5 DEF more

(* An eviction timer: a bucket whose window began two windows ago is forgotten. *)
LEMMA EvictedBucket ==
    ASSUME NEW L \in Nat \ {0}, NEW W \in Nat \ {0},
           NEW t \in Nat, NEW times, NEW b, WindowedBy(times, b, t, L, W),
           t - b.start >= 2 * W
    PROVE  WindowedBy(times, [count |-> 0, start |-> 0], t, L, W)
  <1> DEFINE n == Len(times)
  <1>1. /\ b \in Bucket /\ b.start <= t /\ InOrder(times, t) /\ Spaced(times, L, W)
        /\ b.count = 0 => Rested(times, t, L, W)
        /\ b.count > 0 => \E f \in 1..n : Began(times, b, f, L, W)
    BY DEF WindowedBy
  <1>2. /\ times \in Seq(Nat) /\ n \in Nat /\ \A i \in 1..n : times[i] \in Nat
        /\ \A i \in 1..n : \A j \in i..n : times[i] <= times[j]
    BY <1>1 DEF InOrder
  <1>3. L \in Nat \ {0} /\ W \in Nat \ {0} /\ b.count \in Nat /\ b.start \in Nat
    BY <1>1 DEF Bucket
  <1>4. ASSUME b.count > 0, n >= L PROVE times[n + 1 - L] + W <= t
    <2>1. PICK f \in 1..n : Began(times, b, f, L, W)
      BY <1>1, <1>4
    <2>2. b.start = times[f] /\ n + 1 - L <= f
      BY <1>2, <1>3, <2>1 DEF Began
    <2>3. n + 1 - L \in 1..n /\ f \in n + 1 - L..n
      BY <1>2, <1>3, <1>4, <2>2
    <2>4. PICK x : x = times[n + 1 - L]
      OBVIOUS
    <2>5. x <= b.start /\ x \in Nat
      BY <1>2, <2>2, <2>3, <2>4
    <2>6. x + W <= t
      BY <1>3, <2>5
    <2> QED
      BY <2>4, <2>6
  <1>5. Rested(times, t, L, W)
    BY <1>1, <1>3, <1>4 DEF Rested
  <1> QED
    BY <1>1, <1>5 DEF WindowedBy, Bucket

(* Time that passes: what lies a window back stays there. *)
LEMMA LaterWindows ==
    ASSUME NEW L \in Nat \ {0}, NEW W \in Nat \ {0},
           NEW t \in Nat, NEW times, NEW b, WindowedBy(times, b, t, L, W)
    PROVE  WindowedBy(times, b, t + 1, L, W)
  <1>1. /\ b \in Bucket /\ b.start <= t /\ InOrder(times, t) /\ Spaced(times, L, W)
        /\ b.count = 0 => Rested(times, t, L, W)
        /\ b.count > 0 => \E f \in 1..Len(times) : Began(times, b, f, L, W)
    BY DEF WindowedBy
  <1>2. times \in Seq(Nat) /\ Len(times) \in Nat /\ \A i \in 1..Len(times) : times[i] \in Nat
    BY <1>1 DEF InOrder
  <1>3. InOrder(times, t + 1)
    BY <1>1, <1>2 DEF InOrder
  <1>4. ASSUME Rested(times, t, L, W) PROVE Rested(times, t + 1, L, W)
    <2> SUFFICES ASSUME Len(times) >= L
                 PROVE  times[Len(times) + 1 - L] + W <= t + 1
      BY DEF Rested
    <2>1. Len(times) + 1 - L \in 1..Len(times)
      BY <1>2
    <2> QED
      BY <1>2, <1>4, <2>1 DEF Rested
  <1>5. b.start <= t + 1
    BY <1>1 DEF Bucket
  <1> QED
    BY <1>1, <1>3, <1>4, <1>5 DEF WindowedBy

(* In any period of a window's length, fewer than 2 * Limit calls. *)
LEMMA WindowBound ==
    ASSUME NEW L \in Nat \ {0}, NEW W \in Nat \ {0},
           NEW t \in Nat, NEW times, NEW b, WindowedBy(times, b, t, L, W),
           NEW i \in 1..Len(times)
    PROVE  Cardinality({j \in 1..Len(times) :
                           times[j] \in times[i]..(times[i] + W - 1)})
               < 2 * L
  <1> DEFINE n == Len(times)
             near == {j \in 1..n : times[j] \in times[i]..(times[i] + W - 1)}
  <1>1. InOrder(times, t) /\ Spaced(times, L, W)
    BY DEF WindowedBy
  <1>2. /\ times \in Seq(Nat) /\ n \in Nat /\ \A j \in 1..n : times[j] \in Nat
        /\ \A x \in 1..n : \A j \in x..n : times[x] <= times[j]
    <2>1. times \in Seq(Nat)
      BY <1>1 DEF InOrder
    <2>2. \A x \in 1..n : \A j \in x..n : times[x] <= times[j]
      BY <1>1 DEF InOrder
    <2> QED
      BY <2>1, <2>2
  <1>3. L \in Nat \ {0} /\ W \in Nat \ {0}
    OBVIOUS
  <1>4. PICK f \in 1..i : times[f] = times[i] /\ \A j \in 1..f - 1 : times[j] < times[f]
    BY <1>1 DEF InOrder
  <1>5. ASSUME NEW j \in near PROVE j \in f..f + 2 * L - 2
    <2>0. PICK x, y : x = times[i] /\ y = times[j]
      OBVIOUS
    <2>1. j \in 1..n /\ i \in 1..n /\ f \in 1..n /\ n \in Nat
      BY <1>2
    <2>2. x \in Nat /\ y \in Nat /\ times[f] = x
      BY <1>2, <1>4, <2>0, <2>1
    <2>3. y \in x..(x + W - 1)
      BY <2>0
    <2>4. y >= x /\ y < x + W
      BY <1>3, <2>2, <2>3
    <2>5. ASSUME j < f PROVE FALSE
      <3>1. j \in 1..f - 1
        BY <2>1, <2>5
      <3>2. y < x
        BY <1>4, <2>0, <3>1
      <3> QED
        BY <2>2, <2>4, <3>2
    <2>6. ASSUME j > f + 2 * L - 2 PROVE FALSE
      <3>1. PICK g : g = f + 2 * L - 1
        OBVIOUS
      <3>2. g \in 1..n /\ j \in g..n
        BY <1>3, <2>1, <2>6, <3>1
      <3>3. x + W <= times[g]
        BY <1>1, <2>1, <2>2, <3>1, <3>2 DEF Spaced
      <3>4. times[g] <= y /\ times[g] \in Nat
        BY <1>2, <2>0, <3>2
      <3> QED
        BY <1>3, <2>2, <2>4, <3>3, <3>4
    <2> QED
      BY <1>3, <2>1, <2>5, <2>6
  <1>6. near \subseteq f..f + 2 * L - 2
    BY <1>5
  <1>7. IsFiniteSet(f..f + 2 * L - 2) /\ Cardinality(f..f + 2 * L - 2) = 2 * L - 1
    <2>1. f \in Int /\ f + 2 * L - 2 \in Int /\ ~(f > f + 2 * L - 2)
      BY <1>3, <1>4
    <2>2. /\ IsFiniteSet(f..f + 2 * L - 2)
          /\ Cardinality(f..f + 2 * L - 2) = (f + 2 * L - 2) - f + 1
      BY <2>1, FS_Interval
    <2> QED
      BY <1>3, <1>4, <2>2
  <1>8. Cardinality(near) <= Cardinality(f..f + 2 * L - 2) /\ IsFiniteSet(near)
    BY <1>6, <1>7, FS_Subset
  <1>9. Cardinality(near) \in Nat
    BY <1>8, FS_CardinalityType
  <1> HIDE DEF near
  <1>10. Cardinality(near) < 2 * L
    BY <1>3, <1>7, <1>8, <1>9
  <1> QED
    BY <1>10 DEF near

(* The windows of the exchanges' limiters. *)
Windowed(times, b, t) == WindowedBy(times, b, t, ThrottleLimit, ThrottleWindow)

(* The throttle's and the key limiter's tryConsume: a call is let through at the start of a
   window and while the window is not full. *)
LEMMA ConsumeStep ==
    ASSUME now \in Nat, NEW times, NEW b, Windowed(times, b, now)
    PROVE  /\ Exchange!Stale(b) \/ Exchange!Admits(Exchange!Consume(b), ThrottleLimit)
                  => Windowed(times \o <<now>>, Exchange!Consume(b), now)
           /\ ~(Exchange!Stale(b) \/ Exchange!Admits(Exchange!Consume(b), ThrottleLimit))
                  => Windowed(times, Exchange!Consume(b), now)
           /\ Exchange!Stale(b) => Exchange!Admits(Exchange!Consume(b), ThrottleLimit)
           /\ ~Exchange!Stale(b) => /\ Exchange!Consume(b).start = b.start
                                    /\ Exchange!Consume(b).count > 0
  <1>1. b \in Bucket /\ b.count \in Nat /\ b.start \in Nat
    BY DEF Windowed, WindowedBy, Bucket
  <1>2. CASE Exchange!Stale(b)
    <2>1. Exchange!Consume(b) = [count |-> 1, start |-> now]
      BY <1>2 DEF Exchange!Consume
    <2>2. b.count = 0 \/ now - b.start >= ThrottleWindow
      BY <1>2 DEF Exchange!Stale
    <2>3. Windowed(times \o <<now>>, [count |-> 1, start |-> now], now)
      BY <2>2, FirstOfWindow, ThrottleAssumption DEF Windowed
    <2> QED
      BY <1>2, <2>1, <2>3, ThrottleAssumption DEF Exchange!Admits
  <1>3. CASE ~Exchange!Stale(b)
    <2> DEFINE more == [b EXCEPT !.count = @ + 1]
    <2>1. Exchange!Consume(b) = more
      BY <1>3 DEF Exchange!Consume
    <2>2. b.count > 0
      BY <1>1, <1>3 DEF Exchange!Stale
    <2>3. more.count = b.count + 1 /\ more.start = b.start
      BY <1>1 DEF Bucket
    <2>4. Windowed(times, more, now)
      BY <2>2, RefusedCall, ThrottleAssumption DEF Windowed
    <2>5. b.count + 1 <= ThrottleLimit => Windowed(times \o <<now>>, more, now)
      BY <2>2, NextOfWindow, ThrottleAssumption DEF Windowed
    <2> HIDE DEF more
    <2> QED
      BY <1>1, <1>3, <2>1, <2>2, <2>3, <2>4, <2>5 DEF Exchange!Admits
  <1> QED
    BY <1>2, <1>3

(* What holds of the throttle, the circuit and the log in every state of their part. *)
ExchangeTypeOK ==
    /\ now \in Nat \ {0}
    /\ failures \in Nat /\ openUntil \in Nat /\ outages \in Nat
    /\ logBucket \in Bucket /\ disposed \in BOOLEAN /\ suppressed \in Nat /\ late \in Nat
    /\ logged \in Nat /\ rejections \in Nat /\ waitUntil \in Nat
WaitOK == waitUntil > 0 => \/ keyBucket.count = 0
                           \/ waitUntil = keyBucket.start + ThrottleWindow
LogOK == /\ logged + suppressed = rejections
         /\ disposed => suppressed = late
         /\ ~disposed => late = 0
CircuitOK == failures = outages /\ (openUntil > 0 <=> failures >= FailureThreshold)
EInv == /\ ExchangeTypeOK
        /\ Windowed(sent, bucket, now) /\ Windowed(passed, keyBucket, now)
        /\ WaitOK /\ LogOK /\ CircuitOK

(* SecurityEventLog.reject: one more rejection, logged or suppressed. *)
LEMMA RejectStep ==
    ASSUME ExchangeTypeOK, LogOK, Exchange!Reject, disposed' = disposed
    PROVE  /\ LogOK' /\ logBucket' \in Bucket
           /\ suppressed' \in Nat /\ late' \in Nat /\ logged' \in Nat /\ rejections' \in Nat
  <1>1. /\ logBucket \in Bucket /\ logBucket.count \in Nat /\ now \in Nat
        /\ suppressed \in Nat /\ late \in Nat /\ logged \in Nat /\ rejections \in Nat
        /\ disposed \in BOOLEAN
    BY DEF ExchangeTypeOK, Bucket
  <1>2. logBucket' \in Bucket
    BY <1>1 DEF Exchange!Reject, Exchange!Consume, Bucket
  <1>3. /\ rejections' = rejections + 1
        /\ \/ logged' = logged + 1 /\ suppressed' = suppressed /\ late' = late
           \/ /\ logged' = logged /\ suppressed' = suppressed + 1
              /\ late' = IF disposed THEN late + 1 ELSE late
    BY DEF Exchange!Reject
  <1> QED
    BY <1>1, <1>2, <1>3 DEF LogOK

(* The circuit's category of an answer is told from what happened, and the other way round. *)
LEMMA OutagesTold ==
    ASSUME NEW a \in Exchange!Answers
    PROVE  Exchange!Outage(a) <=> Exchange!Outcome(a) = "provider_unavailable"
  <1>1. CASE a.how \in {"timeout", "refused"}
    <2>1. Exchange!Category(a) = "provider_unavailable"
      BY <1>1 DEF Exchange!Category
    <2> QED
      BY <1>1, <2>1 DEF Exchange!Outage, Exchange!Outcome
  <1>2. CASE a.how = "cut"
    <2>1. Exchange!Category(a) = "malformed_provider_response"
      BY <1>2 DEF Exchange!Category
    <2> QED
      BY <1>2, <2>1 DEF Exchange!Outage, Exchange!Outcome
  <1>4. CASE a.how = "text"
    <2>1. Exchange!Category(a) = IF a.status >= 500 THEN "provider_unavailable"
                                 ELSE "malformed_provider_response"
      BY <1>4 DEF Exchange!Category
    <2> QED
      BY <1>4, <2>1 DEF Exchange!Outage, Exchange!Outcome
  <1>3. CASE a.how = "json"
    BY <1>3 DEF Exchange!Outage, Exchange!Outcome, Exchange!Category, Exchange!JsonCategory,
                Exchange!Denial
  <1>5. a.how \in {"timeout", "refused", "cut", "text", "json"}
    BY DEF Exchange!Answers
  <1> QED
    BY <1>1, <1>2, <1>3, <1>4, <1>5

(* exchange, up to its first await. *)
LEMMA ExchangeStep ==
    ASSUME EInv, NEW c \in Procs, NEW foreign \in BOOLEAN, Exchange!Exchange(c, foreign)
    PROVE  EInv'
  <1>1. /\ now \in Nat \ {0} /\ failures \in Nat /\ openUntil \in Nat /\ outages \in Nat
        /\ Windowed(sent, bucket, now) /\ Windowed(passed, keyBucket, now)
        /\ ExchangeTypeOK /\ LogOK /\ CircuitOK /\ WaitOK
    BY DEF EInv, ExchangeTypeOK
  <1>2. now' = now /\ passed' = passed /\ keyBucket' = keyBucket /\ waitUntil' = waitUntil
        /\ disposed' = disposed
    BY DEF Exchange!Exchange, Exchange!keyVars
  <1>3. /\ LogOK' /\ logBucket' \in Bucket
        /\ suppressed' \in Nat /\ late' \in Nat /\ logged' \in Nat /\ rejections' \in Nat
    <2>1. Exchange!Reject \/ Exchange!NoRejection
      BY DEF Exchange!Exchange
    <2>2. CASE Exchange!Reject
      BY <1>1, <1>2, <2>2, RejectStep
    <2>3. CASE Exchange!NoRejection
      BY <1>1, <1>2, <2>3 DEF ExchangeTypeOK, LogOK, Exchange!NoRejection
    <2> QED
      BY <2>1, <2>2, <2>3
  <1>4. CASE foreign \/ Exchange!CircuitOpen
    <2>1. UNCHANGED <<bucket, failures, openUntil, sent, outages>>
      BY <1>4 DEF Exchange!Exchange, Exchange!circuit
    <2> QED
      BY <1>1, <1>2, <1>3, <2>1 DEF EInv, ExchangeTypeOK, WaitOK, CircuitOK
  <1>5. CASE ~(foreign \/ Exchange!CircuitOpen)
    <2>1. /\ bucket' = Exchange!Consume(bucket)
          /\ failures' = IF Exchange!Expired THEN 0 ELSE failures
          /\ openUntil' = IF Exchange!Expired THEN 0 ELSE openUntil
          /\ outages' = IF Exchange!Expired THEN 0 ELSE outages
          /\ IF Exchange!Admits(bucket', ThrottleLimit) THEN sent' = sent \o <<now>>
             ELSE sent' = sent
      BY <1>5 DEF Exchange!Exchange
    <2>2. /\ failures' \in Nat /\ openUntil' \in Nat /\ outages' \in Nat
          /\ failures' = outages' /\ (openUntil' > 0 <=> failures' >= FailureThreshold)
      BY <1>1, <2>1, ThrottleAssumption DEF CircuitOK
    <2>3. Windowed(sent', bucket', now)
      <3>1. /\ Exchange!Stale(bucket) \/ Exchange!Admits(Exchange!Consume(bucket), ThrottleLimit)
                  => Windowed(sent \o <<now>>, Exchange!Consume(bucket), now)
            /\ ~(Exchange!Stale(bucket)
                    \/ Exchange!Admits(Exchange!Consume(bucket), ThrottleLimit))
                  => Windowed(sent, Exchange!Consume(bucket), now)
            /\ Exchange!Stale(bucket)
                  => Exchange!Admits(Exchange!Consume(bucket), ThrottleLimit)
        BY <1>1, ConsumeStep
      <3> QED
        BY <2>1, <3>1
    <2> QED
      BY <1>1, <1>2, <1>3, <2>2, <2>3 DEF EInv, ExchangeTypeOK, WaitOK, CircuitOK
  <1> QED
    BY <1>4, <1>5

(* An answer, or none. *)
LEMMA AnswerStep ==
    ASSUME EInv, NEW c \in Procs, NEW a \in Exchange!Answers, Exchange!Answer(c, a)
    PROVE  EInv'
  <1>1. /\ now \in Nat \ {0} /\ failures \in Nat /\ openUntil \in Nat /\ outages \in Nat
        /\ Windowed(sent, bucket, now) /\ Windowed(passed, keyBucket, now)
        /\ ExchangeTypeOK /\ LogOK /\ CircuitOK /\ WaitOK
    BY DEF EInv, ExchangeTypeOK
  <1>2. /\ now' = now /\ passed' = passed /\ keyBucket' = keyBucket /\ waitUntil' = waitUntil
        /\ disposed' = disposed /\ bucket' = bucket /\ sent' = sent
    BY DEF Exchange!Answer, Exchange!keyVars
  <1>3. /\ LogOK' /\ logBucket' \in Bucket
        /\ suppressed' \in Nat /\ late' \in Nat /\ logged' \in Nat /\ rejections' \in Nat
    <2>1. Exchange!Reject \/ Exchange!NoRejection
      BY DEF Exchange!Answer
    <2>2. CASE Exchange!Reject
      BY <1>1, <1>2, <2>2, RejectStep
    <2>3. CASE Exchange!NoRejection
      BY <1>1, <1>2, <2>3 DEF ExchangeTypeOK, LogOK, Exchange!NoRejection
    <2> QED
      BY <2>1, <2>2, <2>3
  <1>4. /\ failures' \in Nat /\ openUntil' \in Nat /\ outages' \in Nat
        /\ failures' = outages' /\ (openUntil' > 0 <=> failures' >= FailureThreshold)
    <2>1. CASE Exchange!Outcome(a) = "success"
      BY <2>1, ThrottleAssumption DEF Exchange!Answer, Exchange!RecordSuccess
    <2>2. CASE Exchange!Outcome(a) = "provider_unavailable"
      <3>1. outages' = outages + 1 /\ Exchange!RecordFailure
        BY <2>2, OutagesTold DEF Exchange!Answer
      <3> QED
        BY <1>1, <3>1, ThrottleAssumption DEF Exchange!RecordFailure, CircuitOK
    <2>3. CASE Exchange!Outcome(a) \notin {"success", "provider_unavailable"}
      <3>1. outages' = outages /\ failures' = failures /\ openUntil' = openUntil
        BY <2>3, OutagesTold DEF Exchange!Answer, Exchange!circuit
      <3> QED
        BY <1>1, <3>1 DEF CircuitOK
    <2> QED
      BY <2>1, <2>2, <2>3
  <1> QED
    BY <1>1, <1>2, <1>3, <1>4 DEF EInv, ExchangeTypeOK, WaitOK, CircuitOK

(* A request for an API key: served, or told when to come again. *)
LEMMA KeyStep ==
    ASSUME EInv, Exchange!KeyRequest
    PROVE  EInv'
  <1>1. /\ now \in Nat \ {0} /\ keyBucket \in Bucket /\ keyBucket.start \in Nat
        /\ keyBucket.start <= now
        /\ Windowed(sent, bucket, now) /\ Windowed(passed, keyBucket, now)
        /\ ExchangeTypeOK /\ LogOK /\ CircuitOK /\ WaitOK
    BY DEF EInv, ExchangeTypeOK, Windowed, WindowedBy, Bucket
  <1>2. /\ now' = now /\ bucket' = bucket /\ sent' = sent /\ failures' = failures
        /\ openUntil' = openUntil /\ outages' = outages /\ logged' = logged /\ late' = late
        /\ rejections' = rejections /\ logBucket' = logBucket /\ suppressed' = suppressed
        /\ disposed' = disposed
    BY DEF Exchange!KeyRequest, Exchange!circuit, Exchange!counters
  <1>3. keyBucket' = Exchange!Consume(keyBucket)
    BY DEF Exchange!KeyRequest
  <1>4. /\ Exchange!Stale(keyBucket)
              \/ Exchange!Admits(Exchange!Consume(keyBucket), ThrottleLimit)
              => Windowed(passed \o <<now>>, keyBucket', now)
        /\ ~(Exchange!Stale(keyBucket)
                \/ Exchange!Admits(Exchange!Consume(keyBucket), ThrottleLimit))
              => Windowed(passed, keyBucket', now)
        /\ ~Exchange!Stale(keyBucket) => keyBucket'.start = keyBucket.start
    BY <1>1, <1>3, ConsumeStep
  <1>5. CASE Exchange!Stale(keyBucket)
                \/ Exchange!Admits(Exchange!Consume(keyBucket), ThrottleLimit)
    <2>1. passed' = passed \o <<now>> /\ waitUntil' = 0
      BY <1>3, <1>5 DEF Exchange!KeyRequest
    <2> QED
      BY <1>1, <1>2, <1>4, <1>5, <2>1 DEF EInv, ExchangeTypeOK, WaitOK, LogOK, CircuitOK
  <1>6. CASE ~(Exchange!Stale(keyBucket)
                  \/ Exchange!Admits(Exchange!Consume(keyBucket), ThrottleLimit))
    <2>1. passed' = passed /\ waitUntil' = now + (ThrottleWindow - (now - keyBucket.start))
      BY <1>3, <1>6 DEF Exchange!KeyRequest, Exchange!RetryAfter
    <2>2. waitUntil' \in Nat /\ waitUntil' = keyBucket'.start + ThrottleWindow
      BY <1>1, <1>4, <1>6, <2>1, ThrottleAssumption
    <2> QED
      BY <1>1, <1>2, <1>4, <1>6, <2>1, <2>2 DEF EInv, ExchangeTypeOK, WaitOK, LogOK, CircuitOK
  <1> QED
    BY <1>5, <1>6

(* The eviction timers. *)
LEMMA EvictStep ==
    ASSUME EInv, Exchange!Evict
    PROVE  EInv'
  <1>1. /\ now \in Nat \ {0} /\ logBucket \in Bucket
        /\ Windowed(sent, bucket, now) /\ Windowed(passed, keyBucket, now)
        /\ ExchangeTypeOK /\ LogOK /\ CircuitOK /\ WaitOK
    BY DEF EInv, ExchangeTypeOK
  <1>2. /\ now' = now /\ sent' = sent /\ passed' = passed /\ failures' = failures
        /\ openUntil' = openUntil /\ outages' = outages /\ logged' = logged /\ late' = late
        /\ rejections' = rejections /\ suppressed' = suppressed /\ disposed' = disposed
        /\ waitUntil' = waitUntil
        /\ bucket' = Exchange!Evicted(bucket) /\ keyBucket' = Exchange!Evicted(keyBucket)
        /\ logBucket' = Exchange!Evicted(logBucket)
    BY DEF Exchange!Evict, Exchange!circuit, Exchange!counters
  <1>3. ASSUME NEW times, NEW b, Windowed(times, b, now)
        PROVE  Windowed(times, Exchange!Evicted(b), now)
    BY <1>1, <1>3, EvictedBucket, ThrottleAssumption DEF Windowed, Exchange!Evicted,
       Exchange!Empty
  <1>4. Windowed(sent', bucket', now') /\ Windowed(passed', keyBucket', now')
    BY <1>1, <1>2, <1>3
  <1>5. logBucket' \in Bucket
    BY <1>1, <1>2 DEF Exchange!Evicted, Exchange!Empty, Bucket
  <1>6. WaitOK'
    BY <1>1, <1>2 DEF WaitOK, Exchange!Evicted, Exchange!Empty
  <1> QED
    BY <1>1, <1>2, <1>4, <1>5, <1>6 DEF EInv, ExchangeTypeOK, LogOK, CircuitOK

(* The clock, the summaries and dispose. *)
LEMMA ClockAndLogStep ==
    ASSUME EInv, Exchange!Tick \/ Exchange!Flush \/ Exchange!Dispose
    PROVE  EInv'
  <1>1. /\ now \in Nat \ {0}
        /\ Windowed(sent, bucket, now) /\ Windowed(passed, keyBucket, now)
        /\ ExchangeTypeOK /\ LogOK /\ CircuitOK /\ WaitOK
    BY DEF EInv, ExchangeTypeOK
  <1>2. /\ bucket' = bucket /\ keyBucket' = keyBucket /\ sent' = sent /\ passed' = passed
        /\ failures' = failures /\ openUntil' = openUntil /\ outages' = outages
        /\ late' = late /\ rejections' = rejections /\ logBucket' = logBucket
        /\ waitUntil' = waitUntil
    BY DEF Exchange!Tick, Exchange!Flush, Exchange!Dispose, Exchange!circuit, Exchange!counters,
           Exchange!keyVars
  <1>3. CASE Exchange!Tick
    <2>1. /\ now' = now + 1 /\ logged' = logged /\ suppressed' = suppressed
          /\ disposed' = disposed
      BY <1>3 DEF Exchange!Tick, Exchange!counters
    <2>2. Windowed(sent, bucket, now + 1) /\ Windowed(passed, keyBucket, now + 1)
      BY <1>1, LaterWindows, ThrottleAssumption DEF Windowed
    <2> QED
      BY <1>1, <1>2, <2>1, <2>2 DEF EInv, ExchangeTypeOK, LogOK, CircuitOK, WaitOK
  <1>4. CASE Exchange!Flush \/ Exchange!Dispose
    <2>1. /\ now' = now /\ ~disposed /\ disposed' \in BOOLEAN
          /\ logged' = logged + suppressed /\ suppressed' = 0
      BY <1>1, <1>4 DEF Exchange!Flush, Exchange!Dispose, Exchange!FlushSuppressed,
                        Exchange!Summarised, ExchangeTypeOK
    <2>2. logged' \in Nat /\ LogOK'
      BY <1>1, <1>2, <2>1 DEF ExchangeTypeOK, LogOK
    <2> QED
      BY <1>1, <1>2, <2>1, <2>2 DEF EInv, ExchangeTypeOK, CircuitOK, WaitOK
  <1> QED
    BY <1>3, <1>4

(* What EInv says of the properties. *)
LEMMA HonestThrottle ==
    ASSUME EInv
    PROVE  /\ Exchange!CallsBounded /\ Exchange!RetryAfterHonest
           /\ Exchange!CircuitCountsOutages /\ Exchange!RejectionsTold
  <1>1. /\ now \in Nat \ {0} /\ waitUntil \in Nat
        /\ Windowed(sent, bucket, now) /\ Windowed(passed, keyBucket, now)
        /\ keyBucket \in Bucket /\ keyBucket.start \in Nat /\ keyBucket.start <= now
        /\ LogOK /\ CircuitOK /\ WaitOK
    BY DEF EInv, ExchangeTypeOK, Windowed, WindowedBy, Bucket
  <1>2. Exchange!CallsBounded
    <2> SUFFICES ASSUME NEW times \in {sent, passed}, NEW i \in DOMAIN times
                 PROVE  Exchange!Cardinality({j \in DOMAIN times :
                            times[j] \in times[i]..(times[i] + ThrottleWindow - 1)})
                        < 2 * ThrottleLimit
      BY DEF Exchange!CallsBounded
    <2>1. PICK b : Windowed(times, b, now)
      BY <1>1
    <2>2. DOMAIN times = 1..Len(times)
      BY <2>1 DEF Windowed, WindowedBy, InOrder
    <2>3. Cardinality({j \in 1..Len(times) :
                          times[j] \in times[i]..(times[i] + ThrottleWindow - 1)})
              < 2 * ThrottleLimit
      BY <1>1, <2>1, <2>2, WindowBound, ThrottleAssumption DEF Windowed
    <2> QED
      BY <2>2, <2>3 DEF Exchange!Cardinality, Cardinality
  <1>3. Exchange!RetryAfterHonest
    BY <1>1, ThrottleAssumption DEF WaitOK, Exchange!RetryAfterHonest, Exchange!Stale
  <1> QED
    BY <1>1, <1>2, <1>3 DEF Exchange!CircuitCountsOutages, Exchange!RejectionsTold, LogOK,
       CircuitOK

--------------------------------------------------------------------------------
(* Webhooks *)

(* A secret that signed at a stamp is the current one, or the previous one and still valid
   for as long as an answer is awaited. *)
Lasts(q, stamp) ==
    \/ q = secrets.secret
    \/ /\ q = secrets.previous /\ q # 0
       /\ stamp + skew + DeliveryTimeout <= secrets.expires

Requests == [event : WebhookEvents, stamp : Int, signature : (1..2) \X WebhookEvents \X Int]
WebhookTypeOK ==
    /\ now \in Nat /\ skew \in ClockSkews /\ sender \in 1..2
    /\ secrets \in [secret : 1..2, previous : 0..1, expires : Int]
    /\ wire \subseteq Requests /\ waiting \in Requests \cup {Webhook!None}
    /\ verdict \in [WebhookEvents -> {"pending", "processed", "dead: budget"}]
RotationOK ==
    /\ secrets.previous = 0 => secrets.secret = 1 /\ sender = 1
    /\ secrets.previous # 0 => secrets.secret = 2 /\ secrets.previous = 1
    /\ sender # secrets.secret => now + skew + DeliveryTimeout <= secrets.expires
AwaitedOK ==
    waiting # Webhook!None =>
        /\ waiting.stamp <= now /\ now <= waiting.stamp + DeliveryTimeout
        /\ \E q \in 1..2 : /\ waiting.signature = <<q, waiting.event, waiting.stamp>>
                           /\ Lasts(q, waiting.stamp)
AppliedOK == \A x \in WebhookEvents : verdict[x] = "processed" => x \in applied
WInv == WebhookTypeOK /\ RotationOK /\ AwaitedOK /\ AppliedOK

(* No message is None, and a request that is awaited is one that was sent. *)
LEMMA SomeRequest ==
    ASSUME NEW m \in Requests
    PROVE  m # Webhook!None /\ m.event \in WebhookEvents /\ m.stamp \in Int
  <1>1. "stamp" \in DOMAIN m
    BY DEF Requests
  <1>2. "stamp" \notin DOMAIN Webhook!None
    BY DEF Webhook!None
  <1> QED
    BY <1>1, <1>2 DEF Requests

(* A secret that is known lasts: what Lasts says of it is never lost before its time. *)
LEMMA AwaitedAccepted ==
    ASSUME WInv, waiting # Webhook!None
    PROVE  Webhook!Verified(waiting) \in {200, 503}
  <1>1. /\ now \in Nat /\ skew \in ClockSkews /\ skew \in Int /\ waiting \in Requests
        /\ secrets.secret \in 1..2 /\ secrets.previous \in 0..1 /\ secrets.expires \in Int
    BY DeliveryAssumption DEF WInv, WebhookTypeOK
  <1>2. waiting.stamp \in Int /\ waiting.stamp <= now /\ now <= waiting.stamp + DeliveryTimeout
    BY <1>1, SomeRequest DEF WInv, AwaitedOK
  <1>3. PICK q \in 1..2 : /\ waiting.signature = <<q, waiting.event, waiting.stamp>>
                          /\ Lasts(q, waiting.stamp)
    BY DEF WInv, AwaitedOK
  <1>4. Webhook!Fresh(waiting)
    <2>1. DeliveryTimeout \in Nat /\ FreshWindow \in Nat
          /\ 0 <= FreshWindow + skew /\ DeliveryTimeout + skew <= FreshWindow
      BY <1>1, DeliveryAssumption
    <2> QED
      BY <1>1, <1>2, <2>1 DEF Webhook!Fresh, Webhook!Age, Webhook!ReceiverNow
  <1>5. q \in Webhook!Secrets
    <2>1. DeliveryTimeout \in Nat
      BY DeliveryAssumption
    <2> QED
      BY <1>1, <1>2, <1>3, <2>1 DEF Lasts, Webhook!Secrets, Webhook!ReceiverNow
  <1>6. Webhook!SignedRightly(waiting)
    BY <1>3, <1>5 DEF Webhook!SignedRightly
  <1> QED
    BY <1>4, <1>6 DEF Webhook!Verified

(* How an attempt that was not rejected ends. *)
LEMMA SettledAs ==
    ASSUME NEW outcome, Webhook!Settle(outcome), NEW e, waiting.event = e
    PROVE  /\ outcome = "processed" => verdict' = [verdict EXCEPT ![e] = "processed"]
           /\ outcome = "retryable" =>
                  verdict' = [verdict EXCEPT ![e] =
                                 IF attempts[e] >= DeliveryBudget THEN "dead: budget"
                                 ELSE "pending"]
           /\ waiting' = Webhook!None
  BY DEF Webhook!Settle

(* An attempt: signed now, with the secret the sender has. *)
LEMMA PostStep ==
    ASSUME WInv, NEW e \in WebhookEvents, Webhook!Post(e)
    PROVE  WInv'
  <1> DEFINE m == [event |-> e, stamp |-> now, signature |-> <<sender, e, now>>]
  <1>1. /\ waiting' = m /\ wire' = wire \cup {m} /\ now' = now /\ skew' = skew
        /\ sender' = sender /\ secrets' = secrets /\ verdict' = verdict /\ applied' = applied
    BY DEF Webhook!Post, Webhook!Signed
  <1>2. /\ now \in Nat /\ skew \in Int /\ sender \in 1..2 /\ DeliveryTimeout \in Nat
        /\ secrets.secret \in 1..2 /\ secrets.previous \in 0..1 /\ secrets.expires \in Int
        /\ wire \subseteq Requests
    BY DeliveryAssumption DEF WInv, WebhookTypeOK
  <1>3. /\ m \in Requests /\ m.event = e /\ m.stamp = now
        /\ m.signature = <<sender, e, now>>
    BY <1>2 DEF Requests
  <1>4. sender = secrets.secret
           \/ /\ sender = secrets.previous /\ sender # 0
              /\ now + skew + DeliveryTimeout <= secrets.expires
    BY <1>2 DEF WInv, RotationOK
  <1> HIDE DEF m
  <1>5. WebhookTypeOK'
    BY <1>1, <1>2, <1>3 DEF WInv, WebhookTypeOK
  <1>6. AwaitedOK'
    <2>1. /\ waiting'.stamp <= now' /\ now' <= waiting'.stamp + DeliveryTimeout
          /\ waiting'.signature = <<sender, waiting'.event, waiting'.stamp>>
      BY <1>1, <1>2, <1>3
    <2>2. sender = secrets'.secret
             \/ /\ sender = secrets'.previous /\ sender # 0
                /\ waiting'.stamp + skew' + DeliveryTimeout <= secrets'.expires
      BY <1>1, <1>3, <1>4
    <2> QED
      BY <1>2, <2>1, <2>2 DEF AwaitedOK, Lasts
  <1> QED
    BY <1>1, <1>5, <1>6 DEF WInv, RotationOK, AppliedOK

(* A request or a copy of one is received; an answer to the awaited one ends the attempt. *)
LEMMA ReceiveStep ==
    ASSUME WInv, NEW m \in wire, NEW answered \in BOOLEAN, Webhook!Receive(m, answered)
    PROVE  WInv'
  <1> DEFINE status == IF Webhook!Verified(m) = 200 /\ m.event \in applied THEN 409
                       ELSE Webhook!Verified(m)
  <1>1. /\ now' = now /\ skew' = skew /\ sender' = sender /\ secrets' = secrets
        /\ wire' = wire
        /\ applied' = IF status = 200 THEN applied \cup {m.event} ELSE applied
        /\ IF answered
           THEN waiting = m /\ Webhook!Settle(Webhook!Classified(status))
           ELSE verdict' = verdict /\ waiting' = waiting
    BY DEF Webhook!Receive
  <1>2. m \in Requests /\ m # Webhook!None /\ m.event \in WebhookEvents
    BY SomeRequest DEF WInv, WebhookTypeOK
  <1>3. applied \subseteq applied'
    BY <1>1
  <1>4. CASE ~answered
    <2>1. verdict' = verdict /\ waiting' = waiting
      BY <1>1, <1>4
    <2> QED
      BY <1>1, <1>3, <2>1
      DEF WInv, WebhookTypeOK, RotationOK, AwaitedOK, Lasts, AppliedOK
  <1>5. CASE answered
    <2>1. waiting = m /\ waiting' = Webhook!None
      BY <1>1, <1>5 DEF Webhook!Settle
    <2>2. Webhook!Verified(m) \in {200, 503}
      BY <1>2, <2>1, AwaitedAccepted
    <2>3. status \in {200, 409, 503} /\ (status # 503 => m.event \in applied')
      BY <1>1, <1>2, <2>2
    <2> HIDE DEF status
    <2>4. /\ status \in {200, 409} => Webhook!Classified(status) = "processed"
          /\ status = 503 => Webhook!Classified(status) = "retryable"
      BY DEF Webhook!Classified
    <2>5. /\ Webhook!Classified(status) = "processed"
                => verdict' = [verdict EXCEPT ![m.event] = "processed"]
          /\ Webhook!Classified(status) = "retryable"
                => verdict' = [verdict EXCEPT ![m.event] =
                                  IF attempts[m.event] >= DeliveryBudget THEN "dead: budget"
                                  ELSE "pending"]
      <3>1. Webhook!Settle(Webhook!Classified(status)) /\ waiting.event = m.event
        BY <1>1, <1>2, <1>5, <2>1
      <3> QED
        BY <3>1, SettledAs
    <2>6. /\ verdict' \in [WebhookEvents -> {"pending", "processed", "dead: budget"}]
          /\ \A x \in WebhookEvents : verdict'[x] = "processed" => x \in applied'
      <3>1. verdict \in [WebhookEvents -> {"pending", "processed", "dead: budget"}]
        BY DEF WInv, WebhookTypeOK
      <3>2. AppliedOK
        BY DEF WInv
      <3>3. CASE status \in {200, 409}
        <4>1. verdict' = [verdict EXCEPT ![m.event] = "processed"]
          BY <2>4, <2>5, <3>3
        <4>2. m.event \in applied'
          BY <2>3, <3>3
        <4> QED
          BY <1>3, <3>1, <3>2, <4>1, <4>2 DEF AppliedOK
      <3>4. CASE status = 503
        <4>1. verdict' = [verdict EXCEPT ![m.event] =
                             IF attempts[m.event] >= DeliveryBudget THEN "dead: budget" ELSE "pending"]
          BY <2>4, <2>5, <3>4
        <4> QED
          BY <1>3, <3>1, <3>2, <4>1 DEF AppliedOK
      <3>5. status \in {200, 409} \/ status = 503
        BY <2>3
      <3> QED
        BY <3>3, <3>4, <3>5
    <2> QED
      BY <1>1, <2>1, <2>6 DEF WInv, WebhookTypeOK, RotationOK, AwaitedOK, AppliedOK
  <1> QED
    BY <1>4, <1>5

(* No answer in time. *)
LEMMA GiveUpStep ==
    ASSUME WInv, Webhook!GiveUp
    PROVE  WInv'
  <1>1. /\ now' = now /\ skew' = skew /\ sender' = sender /\ secrets' = secrets
        /\ wire' = wire /\ applied' = applied /\ waiting' = Webhook!None
        /\ waiting # Webhook!None /\ Webhook!Settle("retryable")
    BY DEF Webhook!GiveUp, Webhook!Settle
  <1>2. PICK e \in WebhookEvents : waiting.event = e
    BY <1>1, SomeRequest DEF WInv, WebhookTypeOK
  <1>3. verdict' = [verdict EXCEPT ![e] =
                       IF attempts[e] >= DeliveryBudget THEN "dead: budget" ELSE "pending"]
    BY <1>1, <1>2, SettledAs
  <1>4. /\ verdict' \in [WebhookEvents -> {"pending", "processed", "dead: budget"}]
        /\ \A x \in WebhookEvents :
              verdict'[x] = "processed" => verdict[x] = "processed"
    BY <1>3 DEF WInv, WebhookTypeOK
  <1> QED
    BY <1>1, <1>4 DEF WInv, WebhookTypeOK, RotationOK, AwaitedOK, AppliedOK

(* The operators' steps and the clock: the previous secret outlives what it signed. *)
LEMMA OperatorStep ==
    ASSUME WInv, Webhook!Rotate \/ Webhook!Follow \/ Webhook!Toggle \/ Webhook!Tick
    PROVE  WInv'
  <1>1. /\ now \in Nat /\ skew \in ClockSkews /\ skew \in Int /\ sender \in 1..2
        /\ secrets.secret \in 1..2 /\ secrets.previous \in 0..1 /\ secrets.expires \in Int
        /\ wire \subseteq Requests /\ waiting \in Requests \cup {Webhook!None}
        /\ DeliveryTimeout \in Nat /\ KeyOverlap \in Nat /\ DeliveryTimeout <= KeyOverlap
    BY DeliveryAssumption DEF WInv, WebhookTypeOK
  <1>2. wire' = wire /\ waiting' = waiting /\ verdict' = verdict /\ applied' = applied
        /\ skew' = skew
    BY DEF Webhook!Rotate, Webhook!Follow, Webhook!Toggle, Webhook!Tick
  <1>3. /\ waiting # Webhook!None => waiting.stamp \in Int
        /\ AppliedOK'
    BY <1>1, <1>2, SomeRequest DEF WInv, AppliedOK
  <1>4. CASE Webhook!Rotate
    <2>1. /\ now' = now /\ sender' = sender /\ secrets.previous = 0
          /\ secrets' = [secret |-> 2, previous |-> secrets.secret,
                         expires |-> now + skew + KeyOverlap]
      BY <1>4 DEF Webhook!Rotate, Webhook!ReceiverNow
    <2>2. secrets.secret = 1 /\ sender = 1
      BY <2>1 DEF WInv, RotationOK
    <2>3. /\ secrets' \in [secret : 1..2, previous : 0..1, expires : Int]
          /\ secrets'.secret = 2 /\ secrets'.previous = 1
          /\ secrets'.expires = now + skew + KeyOverlap
      BY <1>1, <2>1, <2>2
    <2>4. AwaitedOK'
      <3> SUFFICES ASSUME waiting # Webhook!None
                   PROVE  /\ waiting.stamp <= now /\ now <= waiting.stamp + DeliveryTimeout
                          /\ \E q \in 1..2 :
                                 /\ waiting.signature = <<q, waiting.event, waiting.stamp>>
                                 /\ Lasts(q, waiting.stamp)'
        BY <1>2, <2>1 DEF AwaitedOK, Lasts
      <3>1. waiting.stamp <= now /\ now <= waiting.stamp + DeliveryTimeout
        BY DEF WInv, AwaitedOK
      <3>2. PICK q \in 1..2 : /\ waiting.signature = <<q, waiting.event, waiting.stamp>>
                              /\ Lasts(q, waiting.stamp)
        BY DEF WInv, AwaitedOK
      <3>3. q = 1
        BY <2>1, <2>2, <3>2 DEF Lasts
      <3>4. waiting.stamp + skew + DeliveryTimeout <= now + skew + KeyOverlap
        BY <1>1, <1>3, <3>1
      <3>5. /\ q = secrets'.previous /\ q # 0
            /\ waiting.stamp + skew' + DeliveryTimeout <= secrets'.expires
        BY <1>2, <2>3, <3>3, <3>4
      <3> QED
        BY <1>2, <3>1, <3>2, <3>5 DEF Lasts
    <2>5. RotationOK'
      BY <1>1, <1>2, <2>1, <2>2, <2>3 DEF RotationOK
    <2> QED
      BY <1>2, <1>3, <2>1, <2>3, <2>4, <2>5 DEF WInv, WebhookTypeOK
  <1>5. CASE Webhook!Follow
    <2>1. now' = now /\ sender' = secrets.secret /\ secrets' = secrets
          /\ sender # secrets.secret
      BY <1>5 DEF Webhook!Follow
    <2>2. secrets.previous # 0
      BY <2>1 DEF WInv, RotationOK
    <2> QED
      BY <1>1, <1>2, <1>3, <2>1, <2>2 DEF WInv, WebhookTypeOK, RotationOK, AwaitedOK, Lasts
  <1>6. CASE Webhook!Toggle
    <2>1. now' = now /\ sender' = sender /\ secrets' = secrets
      BY <1>6 DEF Webhook!Toggle
    <2> QED
      BY <1>2, <1>3, <2>1 DEF WInv, WebhookTypeOK, RotationOK, AwaitedOK, Lasts
  <1>7. CASE Webhook!Tick
    <2>1. /\ now' = now + 1 /\ sender' = sender /\ secrets' = secrets
          /\ waiting # Webhook!None => now - waiting.stamp < DeliveryTimeout
          /\ sender # secrets.secret => now + skew + DeliveryTimeout < secrets.expires
      BY <1>7 DEF Webhook!Tick, Webhook!ReceiverNow
    <2>2. /\ waiting # Webhook!None =>
                waiting.stamp <= now + 1 /\ now + 1 <= waiting.stamp + DeliveryTimeout
          /\ sender # secrets.secret => now + 1 + skew + DeliveryTimeout <= secrets.expires
      BY <1>1, <1>3, <2>1 DEF WInv, AwaitedOK
    <2>3. AwaitedOK'
      BY <1>2, <2>1, <2>2 DEF WInv, AwaitedOK, Lasts
    <2>4. RotationOK'
      BY <1>2, <2>1, <2>2 DEF WInv, RotationOK
    <2>5. WebhookTypeOK'
      <3>1. now' \in Nat
        BY <1>1, <2>1
      <3> QED
        BY <1>2, <2>1, <3>1 DEF WInv, WebhookTypeOK
    <2> QED
      BY <1>3, <2>3, <2>4, <2>5 DEF WInv
  <1> QED
    BY <1>4, <1>5, <1>6, <1>7

--------------------------------------------------------------------------------
(* Releases of a contract *)

(* What one key of a document is to a schema: there if it is required, and without an issue if
   it is declared. *)
Admits(doc, o, z) ==
    /\ z \in o.required => z \in DOMAIN doc
    /\ z \in DOMAIN doc \cap Evolution!Declared(o)
          => Evolution!LeafIssues(doc[z], o.properties[z]) = {}

(* The present schema admits every stored document at every key that no release passed over.
   Where it is closed, and readers are not tolerant, it was closed from the start, so that
   stored documents are of declared keys. *)
SchemaInv ==
    /\ schema \in ContractSchemas /\ stored \subseteq Evolution!Documents
    /\ \A doc \in stored : \A z : z \notin passedOver => Admits(doc, schema, z)
    /\ profile # "tolerant-reader" /\ schema.closed
          => \A doc \in stored : DOMAIN doc \subseteq Evolution!Declared(schema)

(* A value has no issue when its schema has none of the causes, and the other way round. *)
LEMMA LeafSound ==
    ASSUME NEW v, NEW leaf
    PROVE  Evolution!LeafIssues(v, leaf) = {} <=>
               /\ leaf.enum # {} => v \in leaf.enum
               /\ leaf.type # {} => v.type \in leaf.type
               /\ leaf.pattern # {} /\ v.type = "string" => v \in leaf.pattern
               /\ ~(leaf.low # -1 /\ v.size < leaf.low)
               /\ ~(leaf.high # -1 /\ v.size > leaf.high)
  <1> DEFINE enum == leaf.enum # {} /\ v \notin leaf.enum
             pattern == leaf.pattern # {} /\ v.type = "string" /\ v \notin leaf.pattern
             low == leaf.low # -1 /\ v.size < leaf.low
             high == leaf.high # -1 /\ v.size > leaf.high
  <1>1. CASE leaf.type # {} /\ v.type \notin leaf.type
    BY <1>1 DEF Evolution!LeafIssues, Evolution!Absent
  <1>2. CASE ~(leaf.type # {} /\ v.type \notin leaf.type)
    <2>1. Evolution!LeafIssues(v, leaf) =
              (IF enum THEN {"enum"} ELSE {})
              \cup ((IF pattern THEN {"pattern"} ELSE {})
                    \cup (IF low THEN {"low"} ELSE {})
                    \cup (IF high THEN {"high"} ELSE {}))
      BY <1>2 DEF Evolution!LeafIssues, Evolution!When, Evolution!Absent, Evolution!NoBound
    <2> HIDE DEF enum, pattern, low, high
    <2>2. Evolution!LeafIssues(v, leaf) = {} <=> ~enum /\ ~pattern /\ ~low /\ ~high
      BY <2>1
    <2> QED
      BY <1>2, <2>2 DEF enum, pattern, low, high
  <1> QED
    BY <1>1, <1>2

(* compareSchema on a leaf that it finds compatible and that gained no type, enumeration or
   pattern: a value the released schema admits is admitted by the next. *)
LEMMA LeafKept ==
    ASSUME NEW v, NEW p, NEW n, NEW z, NEW prof,
           v.size \in Int, p.low \in Int, p.high \in Int, n.low \in Int, n.high \in Int,
           Evolution!Compatible(Evolution!LeafFindings(z, p, n, prof)),
           p.type = {} => n.type = {}, p.enum = {} => n.enum = {},
           p.pattern = {} => n.pattern = {},
           Evolution!LeafIssues(v, p) = {}
    PROVE  Evolution!LeafIssues(v, n) = {}
  <1>1. /\ p.type # {} => v.type \in p.type
        /\ p.enum # {} => v \in p.enum
        /\ p.pattern # {} /\ v.type = "string" => v \in p.pattern
        /\ ~(p.low # -1 /\ v.size < p.low)
        /\ ~(p.high # -1 /\ v.size > p.high)
    BY LeafSound
  <1>2. ~(p.type # {} /\ n.type # {} /\ p.type # n.type)
    BY DEF Evolution!Compatible, Evolution!LeafFindings, Evolution!Absent, Evolution!Finding
  <1>3. \A f \in Evolution!LeafFindings(z, p, n, prof) : ~f.breaking
    BY DEF Evolution!Compatible
  <1>4. Evolution!LeafFindings(z, p, n, prof) =
            Evolution!EnumFindings(z, p.enum, n.enum, prof)
            \cup Evolution!When(p.pattern # n.pattern /\ p.pattern # {} /\ n.pattern # {},
                                Evolution!Finding(z, "pattern changed", TRUE))
            \cup Evolution!When(Evolution!FloorRaised(p.low, n.low),
                                Evolution!Finding(z, "floor raised", TRUE))
            \cup Evolution!When(Evolution!CeilingLowered(p.high, n.high),
                                Evolution!Finding(z, "ceiling lowered", TRUE))
    BY <1>2 DEF Evolution!LeafFindings, Evolution!Absent
  <1>5. ~(p.enum # {} /\ n.enum # {} /\ ~(p.enum \subseteq n.enum))
    <2> SUFFICES ASSUME p.enum # {} /\ n.enum # {} /\ ~(p.enum \subseteq n.enum) PROVE FALSE
      OBVIOUS
    <2>1. Evolution!Finding(z, "enum value removed", TRUE) \in
              Evolution!LeafFindings(z, p, n, prof)
      BY <1>4 DEF Evolution!EnumFindings, Evolution!When, Evolution!Absent
    <2> QED
      BY <1>3, <2>1 DEF Evolution!Finding
  <1>6. ~(p.pattern # n.pattern /\ p.pattern # {} /\ n.pattern # {})
    <2> SUFFICES ASSUME p.pattern # n.pattern /\ p.pattern # {} /\ n.pattern # {} PROVE FALSE
      OBVIOUS
    <2>1. Evolution!Finding(z, "pattern changed", TRUE) \in
              Evolution!LeafFindings(z, p, n, prof)
      BY <1>4 DEF Evolution!When
    <2> QED
      BY <1>3, <2>1 DEF Evolution!Finding
  <1>7. ~Evolution!FloorRaised(p.low, n.low)
    <2> SUFFICES ASSUME Evolution!FloorRaised(p.low, n.low) PROVE FALSE
      OBVIOUS
    <2>1. Evolution!Finding(z, "floor raised", TRUE) \in Evolution!LeafFindings(z, p, n, prof)
      BY <1>4 DEF Evolution!When
    <2> QED
      BY <1>3, <2>1 DEF Evolution!Finding
  <1>8. ~Evolution!CeilingLowered(p.high, n.high)
    <2> SUFFICES ASSUME Evolution!CeilingLowered(p.high, n.high) PROVE FALSE
      OBVIOUS
    <2>1. Evolution!Finding(z, "ceiling lowered", TRUE) \in Evolution!LeafFindings(z, p, n, prof)
      BY <1>4 DEF Evolution!When
    <2> QED
      BY <1>3, <2>1 DEF Evolution!Finding
  <1>9. /\ n.type # {} => v.type \in n.type
        /\ n.enum # {} => v \in n.enum
        /\ n.pattern # {} /\ v.type = "string" => v \in n.pattern
    BY <1>1, <1>2, <1>5, <1>6
  <1>10. ~(n.low # -1 /\ v.size < n.low) /\ ~(n.high # -1 /\ v.size > n.high)
    BY <1>1, <1>7, <1>8 DEF Evolution!FloorRaised, Evolution!CeilingLowered, Evolution!NoBound
  <1> QED
    BY <1>9, <1>10, LeafSound

(* An issue is at a key that the schema does not admit, or that it does not know. *)
LEMMA IssueAt ==
    ASSUME NEW doc, NEW o, NEW mode, NEW issue \in Evolution!Issues(doc, o, mode)
    PROVE  \/ ~Admits(doc, o, issue[1])
           \/ /\ o.closed /\ mode # "tolerant-reader"
              /\ issue[1] \in DOMAIN doc \ Evolution!Declared(o)
  <1> DEFINE own(z) == {<<z, i>> : i \in Evolution!LeafIssues(doc[z], o.properties[z])}
  <1>1. CASE issue \in {<<z, "required">> : z \in o.required \ DOMAIN doc}
    BY <1>1 DEF Admits
  <1>2. CASE issue \in UNION {own(z) : z \in DOMAIN doc \cap Evolution!Declared(o)}
    <2>1. PICK z \in DOMAIN doc \cap Evolution!Declared(o) : issue \in own(z)
      BY <1>2
    <2>2. issue[1] = z /\ Evolution!LeafIssues(doc[z], o.properties[z]) # {}
      BY <2>1
    <2> QED
      BY <2>1, <2>2 DEF Admits
  <1>3. CASE /\ o.closed /\ mode # "tolerant-reader"
             /\ issue \in {<<z, "additionalProperties">> : z \in DOMAIN doc \ Evolution!Declared(o)}
    BY <1>3
  <1> QED
    BY <1>1, <1>2, <1>3 DEF Evolution!Issues

(* A document that a schema accepts is admitted at every key, and is of declared keys if the
   schema is closed. *)
LEMMA Accepted ==
    ASSUME NEW doc, NEW o, Evolution!Issues(doc, o, "strict") = {}
    PROVE  /\ \A z : Admits(doc, o, z)
           /\ o.closed => DOMAIN doc \subseteq Evolution!Declared(o)
  <1>1. ASSUME NEW z, z \in o.required, z \notin DOMAIN doc PROVE FALSE
    <2>1. <<z, "required">> \in Evolution!Issues(doc, o, "strict")
      BY <1>1 DEF Evolution!Issues
    <2> QED
      BY <2>1
  <1>2. ASSUME NEW z \in DOMAIN doc \cap Evolution!Declared(o),
               NEW i \in Evolution!LeafIssues(doc[z], o.properties[z])
        PROVE  FALSE
    <2>1. <<z, i>> \in Evolution!Issues(doc, o, "strict")
      BY <1>2 DEF Evolution!Issues
    <2> QED
      BY <2>1
  <1>3. ASSUME o.closed, NEW z \in DOMAIN doc \ Evolution!Declared(o) PROVE FALSE
    <2>1. <<z, "additionalProperties">> \in Evolution!Issues(doc, o, "strict")
      BY <1>3 DEF Evolution!Issues
    <2> QED
      BY <2>1
  <1> QED
    BY <1>1, <1>2, <1>3 DEF Admits

(* checkSchemaCompatibility on the objects: what is required was required or passed over, and
   but for tolerant readers nothing is removed and an open schema stays open. *)
LEMMA ObjectKept ==
    ASSUME NEW p, NEW n, NEW prof, Evolution!Compatible(Evolution!Findings(p, n, prof))
    PROVE  /\ n.required \subseteq p.required \cup Evolution!Overlooked(p, n, prof)
           /\ prof # "tolerant-reader" => Evolution!Declared(p) \subseteq Evolution!Declared(n)
           /\ prof # "tolerant-reader" /\ n.closed => p.closed
           /\ \A z \in Evolution!Declared(p) \cap Evolution!Declared(n) :
                  Evolution!Compatible(
                      Evolution!LeafFindings(z, p.properties[z], n.properties[z], prof))
  <1>1. \A f \in Evolution!ObjectFindings(p, n, prof) : ~f.breaking
    BY DEF Evolution!Compatible, Evolution!Findings
  <1>2. ASSUME NEW z \in Evolution!Declared(p) \cap Evolution!Declared(n)
        PROVE  Evolution!Compatible(
                   Evolution!LeafFindings(z, p.properties[z], n.properties[z], prof))
    BY <1>2 DEF Evolution!Compatible, Evolution!Findings
  <1>3. ASSUME NEW z \in Evolution!Declared(p) \ Evolution!Declared(n),
               prof # "tolerant-reader"
        PROVE  FALSE
    <2>1. Evolution!Finding(z, "property removed", prof # "tolerant-reader" \/ z \in p.required)
              \in Evolution!ObjectFindings(p, n, prof)
      BY <1>3 DEF Evolution!ObjectFindings
    <2> QED
      BY <1>1, <1>3, <2>1 DEF Evolution!Finding
  <1>4. ASSUME NEW z \in (Evolution!Declared(n) \ Evolution!Declared(p)) \cap n.required
        PROVE  FALSE
    <2>1. Evolution!Finding(z, "required property added", TRUE)
              \in Evolution!ObjectFindings(p, n, prof)
      BY <1>4 DEF Evolution!ObjectFindings
    <2> QED
      BY <1>1, <2>1 DEF Evolution!Finding
  <1>5. ASSUME NEW z \in (n.required \ p.required) \cap Evolution!Declared(p)
        PROVE  FALSE
    <2>1. Evolution!Finding(z, "requiredness tightened", TRUE)
              \in Evolution!ObjectFindings(p, n, prof)
      BY <1>5 DEF Evolution!ObjectFindings
    <2> QED
      BY <1>1, <2>1 DEF Evolution!Finding
  <1>6. n.required \subseteq p.required \cup Evolution!Overlooked(p, n, prof)
    BY <1>4, <1>5 DEF Evolution!Overlooked
  <1>7. ASSUME prof # "tolerant-reader", n.closed, ~p.closed PROVE FALSE
    <2>1. Evolution!Finding("$", "additional properties restricted", prof # "tolerant-reader")
              \in Evolution!ObjectFindings(p, n, prof)
      BY <1>7 DEF Evolution!ObjectFindings, Evolution!When
    <2> QED
      BY <1>1, <1>7, <2>1 DEF Evolution!Finding
  <1> QED
    BY <1>2, <1>3, <1>6, <1>7

(* Every value a document may hold has a size, every declared key numbers for bounds. *)
LEMMA Numbers ==
    ASSUME NEW doc \in Evolution!Documents, NEW z \in DOMAIN doc
    PROVE  doc[z].size \in Int
  BY SchemaAssumption DEF Evolution!Documents

(* One release admits what the one before it admitted, at every key that it does not pass over. *)
LEMMA Released ==
    ASSUME NEW p \in ContractSchemas, NEW n \in ContractSchemas, NEW prof,
           NEW doc \in Evolution!Documents, NEW z,
           Evolution!Compatible(Evolution!Findings(p, n, prof)),
           prof # "tolerant-reader" /\ p.closed => DOMAIN doc \subseteq Evolution!Declared(p),
           Admits(doc, p, z), z \notin Evolution!Overlooked(p, n, prof)
    PROVE  Admits(doc, n, z)
  <1>1. z \in n.required => z \in DOMAIN doc
    BY ObjectKept DEF Admits
  <1>2. ASSUME z \in DOMAIN doc, z \in Evolution!Declared(n)
        PROVE  Evolution!LeafIssues(doc[z], n.properties[z]) = {}
    <2>1. z \in Evolution!Declared(p)
      BY <1>2 DEF Evolution!Overlooked
    <2>2. Evolution!Compatible(
              Evolution!LeafFindings(z, p.properties[z], n.properties[z], prof))
      BY <1>2, <2>1, ObjectKept
    <2>3. Evolution!LeafIssues(doc[z], p.properties[z]) = {}
      BY <1>2, <2>1 DEF Admits
    <2>4. /\ p.properties[z].low \in Int /\ p.properties[z].high \in Int
          /\ n.properties[z].low \in Int /\ n.properties[z].high \in Int
      BY <1>2, <2>1, SchemaAssumption DEF Evolution!Declared
    <2>5. /\ p.properties[z].type = {} => n.properties[z].type = {}
          /\ p.properties[z].enum = {} => n.properties[z].enum = {}
          /\ p.properties[z].pattern = {} => n.properties[z].pattern = {}
      BY <1>2, <2>1 DEF Evolution!Overlooked, Evolution!Absent
    <2>6. doc[z].size \in Int
      BY <1>2, Numbers
    <2> QED
      BY <2>2, <2>3, <2>4, <2>5, <2>6, LeafKept
  <1> QED
    BY <1>1, <1>2 DEF Admits

(* A document is written, or the next schema released, or neither. *)
LEMMA SchemaStep ==
    ASSUME SchemaInv, Evolution!Next \/ UNCHANGED schemaVars
    PROVE  SchemaInv'
  <1>1. ASSUME NEW doc \in Evolution!Documents, Evolution!Write(doc)
        PROVE  SchemaInv'
    <2>1. /\ schema' = schema /\ profile' = profile /\ passedOver' = passedOver
          /\ stored' = stored \cup {doc}
          /\ Evolution!Issues(doc, schema, "strict") = {}
      BY <1>1 DEF Evolution!Write
    <2>2. /\ \A z : Admits(doc, schema, z)
          /\ schema.closed => DOMAIN doc \subseteq Evolution!Declared(schema)
      BY <2>1, Accepted
    <2>3. /\ schema' \in ContractSchemas /\ stored' \subseteq Evolution!Documents
      BY <1>1, <2>1 DEF SchemaInv
    <2>4. \A d \in stored' : \A z : z \notin passedOver => Admits(d, schema, z)
      BY <2>1, <2>2 DEF SchemaInv
    <2>5. profile # "tolerant-reader" /\ schema.closed
             => \A d \in stored' : DOMAIN d \subseteq Evolution!Declared(schema)
      BY <2>1, <2>2 DEF SchemaInv
    <2> QED
      BY <2>1, <2>3, <2>4, <2>5 DEF SchemaInv
  <1>2. ASSUME NEW n \in ContractSchemas, Evolution!Release(n)
        PROVE  SchemaInv'
    <2>1. /\ schema' = n /\ profile' = profile /\ stored' = stored
          /\ passedOver' = passedOver \cup Evolution!Overlooked(schema, n, profile)
          /\ Evolution!Compatible(Evolution!Findings(schema, n, profile))
      BY <1>2 DEF Evolution!Release
    <2>2. schema \in ContractSchemas /\ stored \subseteq Evolution!Documents
      BY DEF SchemaInv
    <2>3. ASSUME NEW doc \in stored, NEW z, z \notin passedOver'
          PROVE  Admits(doc, n, z)
      <3>1. Admits(doc, schema, z) /\ z \notin Evolution!Overlooked(schema, n, profile)
        BY <2>1, <2>3 DEF SchemaInv
      <3>2. profile # "tolerant-reader" /\ schema.closed
               => DOMAIN doc \subseteq Evolution!Declared(schema)
        BY <2>3 DEF SchemaInv
      <3> QED
        BY <1>2, <2>1, <2>2, <2>3, <3>1, <3>2, Released
    <2>4. ASSUME profile # "tolerant-reader", n.closed, NEW doc \in stored
          PROVE  DOMAIN doc \subseteq Evolution!Declared(n)
      <3>1. schema.closed /\ Evolution!Declared(schema) \subseteq Evolution!Declared(n)
        BY <2>1, <2>4, ObjectKept
      <3> QED
        BY <2>4, <3>1 DEF SchemaInv
    <2> QED
      BY <1>2, <2>1, <2>2, <2>3, <2>4 DEF SchemaInv
  <1>3. CASE UNCHANGED schemaVars
    BY <1>3 DEF schemaVars, SchemaInv
  <1> QED
    BY <1>1, <1>2, <1>3 DEF Evolution!Next

(* What a reader has an issue with was passed over. *)
LEMMA StillRead == SchemaInv => Evolution!StoredStillRead
  <1> SUFFICES ASSUME SchemaInv, NEW doc \in stored,
                      NEW issue \in Evolution!Issues(doc, schema, Evolution!ReaderMode)
               PROVE  issue[1] \in passedOver
    BY DEF Evolution!StoredStillRead
  <1>1. CASE ~Admits(doc, schema, issue[1])
    BY <1>1 DEF SchemaInv
  <1>2. CASE /\ schema.closed /\ Evolution!ReaderMode # "tolerant-reader"
             /\ issue[1] \in DOMAIN doc \ Evolution!Declared(schema)
    BY <1>2 DEF SchemaInv, Evolution!ReaderMode
  <1> QED
    BY <1>1, <1>2, IssueAt

--------------------------------------------------------------------------------
(* The contract registry *)

(* A lock entry is the digest of the content that was locked. *)
RegistryInv ==
    /\ lock = [exists |-> lock.exists, of |-> [v \in CapabilityVersions |-> lock.of[v]]]
    /\ approved = [v \in CapabilityVersions |-> approved[v]]
    /\ \A v \in CapabilityVersions :
           lock.of[v] \in {Registry!NoDigest, Registry!Digest(approved[v])}

(* By hand, or by contract-cli: a lock entry changes with the history of what it was made from. *)
LEMMA RegistryStep ==
    ASSUME RegistryInv, Registry!Next \/ UNCHANGED registryVars
    PROVE  RegistryInv'
  <1>1. ASSUME NEW v \in CapabilityVersions, Registry!Lock(v)
        PROVE  RegistryInv'
    <2> DEFINE content == capability[v]
    <2>1. /\ lock' = [lock EXCEPT !.of[v] = Registry!Digest(content)]
          /\ approved' = [approved EXCEPT ![v] = content]
      BY <1>1 DEF Registry!Lock
    <2>2. PICK old : old = content
      OBVIOUS
    <2>3. /\ lock' = [lock EXCEPT !.of[v] = Registry!Digest(old)]
          /\ approved' = [approved EXCEPT ![v] = old]
      BY <2>1, <2>2
    <2> HIDE DEF content
    <2>4. /\ lock = [exists |-> lock.exists, of |-> [x \in CapabilityVersions |-> lock.of[x]]]
          /\ approved = [x \in CapabilityVersions |-> approved[x]]
          /\ \A x \in CapabilityVersions :
                 lock.of[x] \in {Registry!NoDigest, Registry!Digest(approved[x])}
      BY DEF RegistryInv
    <2>5. lock' = [exists |-> lock.exists,
                   of |-> [x \in CapabilityVersions |->
                              IF x = v THEN Registry!Digest(old) ELSE lock.of[x]]]
      BY <2>3, <2>4
    <2>6. approved' = [x \in CapabilityVersions |-> IF x = v THEN old ELSE approved[x]]
      BY <2>3, <2>4
    <2>7. \A x \in CapabilityVersions :
              lock'.of[x] \in {Registry!NoDigest, Registry!Digest(approved'[x])}
      BY <2>4, <2>5, <2>6
    <2>8. lock' = [exists |-> lock'.exists, of |-> [x \in CapabilityVersions |-> lock'.of[x]]]
      BY <2>5
    <2>9. approved' = [x \in CapabilityVersions |-> approved'[x]]
      BY <2>6
    <2> QED
      BY <2>7, <2>8, <2>9 DEF RegistryInv, Registry!Digest, Registry!NoDigest
  <1>2. ASSUME UNCHANGED <<lock, approved>>
        PROVE  RegistryInv'
    BY <1>2 DEF RegistryInv, Registry!Digest, Registry!NoDigest
  <1>3. ASSUME NEW v \in CapabilityVersions, NEW force \in BOOLEAN,
               Registry!InitContract(v, force)
        PROVE  UNCHANGED <<lock, approved>>
    BY <1>3 DEF Registry!InitContract
  <1>4. ASSUME Registry!WriteIndex \/ Registry!GenerateRuntime \/ UNCHANGED registryVars
        PROVE  UNCHANGED <<lock, approved>>
    BY <1>4 DEF Registry!WriteIndex, Registry!GenerateRuntime, registryVars
  <1>5. ASSUME NEW v \in CapabilityVersions, Registry!EditCapability(v) \/ Registry!Rebind(v)
        PROVE  UNCHANGED <<lock, approved>>
    BY <1>5 DEF Registry!EditCapability, Registry!Rebind
  <1> QED
    BY <1>1, <1>2, <1>3, <1>4, <1>5 DEF Registry!Next, Registry!Edit

(* Green checks say what they seem to: the binding's version is there, at the pinned digest. *)
LEMMA GreenPins == Registry!GreenMeansPinned
  <1> SUFFICES ASSUME Registry!IndexFresh, Registry!RuntimeFresh
               PROVE  \E c \in index.contracts :
                          /\ c.version = binding.version
                          /\ runtime.ref = <<c.version, c.digest>>
                          /\ \A content \in c.digest : runtime.payload = content.payload
    BY DEF Registry!GreenMeansPinned
  <1> DEFINE v == binding.version
             c == [version |-> v, status |-> capability[v].status,
                   digest |-> Registry!Digest(capability[v])]
  <1>1. Registry!BindingFaults = {} /\ index = Registry!IndexNow
    BY DEF Registry!IndexFresh, Registry!Valid
  <1>2. v \in Registry!There
    BY <1>1 DEF Registry!BindingFaults
  <1>3. binding.digest = Registry!Digest(capability[v])
    BY <1>1, <1>2 DEF Registry!BindingFaults
  <1>4. c \in index.contracts
    BY <1>1, <1>2 DEF Registry!IndexNow
  <1>5. /\ runtime.ref = <<v, Registry!Digest(capability[v])>>
        /\ runtime.payload = capability[v].payload
    BY <1>2, <1>3 DEF Registry!RuntimeFresh, Registry!RuntimeNow
  <1>6. \A content \in c.digest : runtime.payload = content.payload
    BY <1>5 DEF Registry!Digest
  <1> QED
    BY <1>4, <1>5, <1>6

(* An approved version that passes has the content its lock entry was made from. *)
LEMMA LockHolds == RegistryInv => Registry!LockedContentStays
  <1> SUFFICES ASSUME RegistryInv, Registry!Valid, NEW v \in Registry!Approved, lock.exists
               PROVE  approved[v] = capability[v]
    BY DEF Registry!LockedContentStays
  <1>1. v \in CapabilityVersions /\ v \in Registry!There /\ capability[v].status = "approved"
    BY DEF Registry!Approved, Registry!There
  <1>2. Registry!LockFaults(v) = {}
    BY <1>1 DEF Registry!Valid
  <1>3. lock.of[v] = {capability[v]}
    BY <1>1, <1>2 DEF Registry!LockFaults, Registry!Digest
  <1>4. lock.of[v] \in {{}, {approved[v]}}
    BY <1>1 DEF RegistryInv, Registry!Digest, Registry!NoDigest
  <1> QED
    BY <1>3, <1>4

--------------------------------------------------------------------------------
(* The MCP server *)

(* A state was sealed for its round by one handler run for each round. *)
Counted(x) == x.round \in Nat /\ x.runs = x.round + 1 /\ x.round < InputRounds
RoundsOK ==
    /\ \A x \in states : Counted(x)
    /\ toolCall = [c \in ToolCalls |-> toolCall[c]]
    /\ \A c \in ToolCalls : toolCall[c].at = "handler" =>
           \/ toolCall[c].resumed = {}
           \/ \E x \in states : /\ toolCall[c].resumed = {x}
                                /\ x.by = toolCall[c].caller
(* Every tool is under its prefixed name, and every name is of a tool that has it. *)
ToolsOK ==
    /\ logicalTools \in Seq(Declarable) /\ todo \in Seq(Declarable)
    /\ \A i \in DOMAIN logicalTools : Mcp!Prefixed(logicalTools[i]) \in DOMAIN toolMap
    /\ \A n \in DOMAIN toolMap : \E i \in DOMAIN logicalTools :
           toolMap[n] = logicalTools[i] /\ n \in Mcp!Names(logicalTools[i])
McpInv == RoundsOK /\ ToolsOK

(* The state that is resumed, if any, counts the rounds and the runs of the handler. *)
LEMMA Resumed ==
    ASSUME RoundsOK, NEW c \in ToolCalls, toolCall[c].at = "handler"
    PROVE  /\ Mcp!NextRound(toolCall[c]) \in Nat
           /\ Mcp!Runs(toolCall[c]) = Mcp!NextRound(toolCall[c]) + 1
           /\ Mcp!NextRound(toolCall[c]) <= InputRounds
           /\ \A x \in toolCall[c].resumed : x.by = toolCall[c].caller
  <1>1. CASE toolCall[c].resumed = {}
    BY <1>1, ToolAssumption DEF Mcp!NextRound, Mcp!Runs
  <1>2. ASSUME NEW x \in states, toolCall[c].resumed = {x}, x.by = toolCall[c].caller
        PROVE  /\ Mcp!NextRound(toolCall[c]) \in Nat
               /\ Mcp!Runs(toolCall[c]) = Mcp!NextRound(toolCall[c]) + 1
               /\ Mcp!NextRound(toolCall[c]) <= InputRounds
               /\ \A y \in toolCall[c].resumed : y.by = toolCall[c].caller
    <2>1. (CHOOSE s_1 \in toolCall[c].resumed : TRUE) = x
      BY <1>2
    <2>2. Counted(x)
      BY DEF RoundsOK
    <2>3. Mcp!NextRound(toolCall[c]) = x.round + 1 /\ Mcp!Runs(toolCall[c]) = x.runs + 1
      BY <1>2, <2>1 DEF Mcp!NextRound, Mcp!Runs
    <2> QED
      BY <1>2, <2>2, <2>3, ToolAssumption DEF Counted
  <1> QED
    BY <1>1, <1>2 DEF RoundsOK

(* A call that ends leaves the others as they are. *)
LEMMA EndedCall ==
    ASSUME RoundsOK, NEW c \in ToolCalls, toolCall' = [toolCall EXCEPT ![c] = Mcp!NoCall],
           states \subseteq states', \A x \in states' : Counted(x)
    PROVE  RoundsOK'
  <1>1. toolCall' = [d \in ToolCalls |-> IF d = c THEN Mcp!NoCall ELSE toolCall[d]]
    BY DEF RoundsOK
  <1>2. toolCall' = [d \in ToolCalls |-> toolCall'[d]]
    BY <1>1
  <1>3. ASSUME NEW d \in ToolCalls, toolCall'[d].at = "handler"
        PROVE  \/ toolCall'[d].resumed = {}
               \/ \E x \in states' : /\ toolCall'[d].resumed = {x}
                                     /\ x.by = toolCall'[d].caller
    <2>1. d # c
      BY <1>1, <1>3 DEF Mcp!NoCall
    <2>2. toolCall'[d] = toolCall[d]
      BY <1>1, <2>1
    <2> QED
      BY <1>3, <2>2 DEF RoundsOK
  <1> QED
    BY <1>2, <1>3 DEF RoundsOK, Counted

(* What the tools are told of rounds: minting, resuming and restarts. *)
LEMMA RoundsStep ==
    ASSUME RoundsOK, Mcp!Next \/ UNCHANGED <<clock, toolVars>>
    PROVE  RoundsOK'
  <1>1. ASSUME UNCHANGED <<states, toolCall>>
        PROVE  RoundsOK'
    BY <1>1 DEF RoundsOK, Counted
  <1>2. ASSUME Mcp!RegisterTool \/ Mcp!Listen \/ Mcp!Tick \/ UNCHANGED <<clock, toolVars>>
        PROVE  UNCHANGED <<states, toolCall>>
    BY <1>2 DEF Mcp!RegisterTool, Mcp!Listen, Mcp!Tick, toolVars
  <1>3. ASSUME Mcp!Restart
        PROVE  RoundsOK'
    <2>1. states' = states /\ toolCall' = [c \in ToolCalls |-> Mcp!NoCall]
      BY <1>3 DEF Mcp!Restart
    <2>2. \A c \in ToolCalls : toolCall'[c].at = "none"
      BY <2>1 DEF Mcp!NoCall
    <2>3. toolCall' = [c \in ToolCalls |-> toolCall'[c]]
      BY <2>1
    <2> QED
      BY <2>1, <2>2, <2>3 DEF RoundsOK, Counted
  <1>4. ASSUME NEW c \in ToolCalls, Mcp!Finish(c)
        PROVE  RoundsOK'
    BY <1>4, EndedCall DEF Mcp!Finish, Mcp!Done, RoundsOK
  <1>5. ASSUME NEW c \in ToolCalls, Mcp!RequestInput(c)
        PROVE  RoundsOK'
    <2> DEFINE q == toolCall[c]
               new == Mcp!Seals(q, Mcp!NextRound(q), Mcp!Runs(q))
    <2>1. /\ q.at = "handler" /\ Mcp!NextRound(q) < InputRounds
          /\ states' = states \cup {new}
          /\ toolCall' = [toolCall EXCEPT ![c] = Mcp!NoCall]
      BY <1>5 DEF Mcp!RequestInput, Mcp!Done
    <2>2. new.round = Mcp!NextRound(q) /\ new.runs = Mcp!Runs(q)
      BY DEF Mcp!Seals
    <2>3. Mcp!NextRound(q) \in Nat /\ Mcp!Runs(q) = Mcp!NextRound(q) + 1
      BY <2>1, Resumed
    <2>4. Counted(new)
      BY <2>1, <2>2, <2>3 DEF Counted
    <2> HIDE DEF new, q
    <2> QED
      BY <2>1, <2>4, EndedCall DEF RoundsOK
  <1>6. ASSUME NEW c \in ToolCalls, NEW caller \in KeyHolders, NEW n \in DOMAIN toolMap,
               NEW held \in {{}} \cup {{x} : x \in states}, Mcp!Post(c, caller, n, held)
        PROVE  RoundsOK'
    <2> DEFINE q == [at |-> "handler", caller |-> caller, tool |-> toolMap[n], resumed |-> held]
    <2>1. /\ states' = states
          /\ toolCall' = [toolCall EXCEPT ![c] = q]
          /\ \A x \in held : x.by = caller
      BY <1>6 DEF Mcp!Post, Mcp!Genuine
    <2>2. /\ q.at = "handler" /\ q.resumed = held /\ q.caller = caller
      OBVIOUS
    <2> HIDE DEF q
    <2>3. toolCall' = [d \in ToolCalls |-> IF d = c THEN q ELSE toolCall[d]]
      BY <2>1 DEF RoundsOK
    <2>4. toolCall' = [d \in ToolCalls |-> toolCall'[d]]
      BY <2>3
    <2>5. ASSUME NEW d \in ToolCalls, toolCall'[d].at = "handler"
          PROVE  \/ toolCall'[d].resumed = {}
                 \/ \E x \in states' : /\ toolCall'[d].resumed = {x}
                                       /\ x.by = toolCall'[d].caller
      <3>1. CASE d = c
        <4>1. toolCall'[d] = q
          BY <2>3, <3>1
        <4>2. held = {} \/ \E x \in states : held = {x} /\ x.by = caller
          BY <2>1
        <4> QED
          BY <2>1, <2>2, <4>1, <4>2
      <3>2. CASE d # c
        <4>1. toolCall'[d] = toolCall[d]
          BY <2>3, <3>2
        <4> QED
          BY <2>1, <2>5, <4>1 DEF RoundsOK
      <3> QED
        BY <3>1, <3>2
    <2> QED
      BY <2>1, <2>4, <2>5 DEF RoundsOK, Counted
  <1> QED
    BY <1>1, <1>2, <1>3, <1>4, <1>5, <1>6 DEF Mcp!Next

(* McpToolRegistry: a tool is registered under its names, or the process begins again. *)
LEMMA ToolsStep ==
    ASSUME ToolsOK, Mcp!Next \/ UNCHANGED <<clock, toolVars>>
    PROVE  ToolsOK'
  <1>1. ASSUME UNCHANGED <<prefix, todo, toolMap, logicalTools>>
        PROVE  ToolsOK'
    BY <1>1 DEF ToolsOK, Mcp!Prefixed, Mcp!Names, Mcp!Own
  <1>2. ASSUME Mcp!RegisterTool
        PROVE  ToolsOK'
    <2> DEFINE t == Head(todo)
    <2>1. /\ todo # << >> /\ todo' = Tail(todo) /\ prefix' = prefix
          /\ toolMap' = [n \in DOMAIN toolMap \cup Mcp!Names(t) |->
                            IF n \in Mcp!Names(t) THEN t ELSE toolMap[n]]
          /\ logicalTools' = Append(logicalTools, t)
      BY <1>2 DEF Mcp!RegisterTool
    <2>2. logicalTools \in Seq(Declarable) /\ todo \in Seq(Declarable)
      BY DEF ToolsOK
    <2>3. t \in Declarable /\ todo' \in Seq(Declarable)
      BY <2>1, <2>2
    <2> HIDE DEF t
    <2>4. /\ logicalTools' \in Seq(Declarable)
          /\ DOMAIN logicalTools = 1..Len(logicalTools) /\ Len(logicalTools) \in Nat
          /\ DOMAIN logicalTools' = 1..Len(logicalTools) + 1
          /\ \A i \in DOMAIN logicalTools : logicalTools'[i] = logicalTools[i]
          /\ logicalTools'[Len(logicalTools) + 1] = t
      BY <2>1, <2>2, <2>3
    <2>5. \A x : Mcp!Prefixed(x)' = <<prefix, x.name>> /\ Mcp!Names(x)' = Mcp!Names(x)
      BY <2>1 DEF Mcp!Prefixed, Mcp!Names, Mcp!Own
    <2>6. ASSUME NEW i \in DOMAIN logicalTools'
          PROVE  <<prefix, logicalTools'[i].name>> \in DOMAIN toolMap'
      <3>1. CASE i = Len(logicalTools) + 1
        BY <2>1, <2>4, <3>1 DEF Mcp!Names, Mcp!Prefixed
      <3>2. CASE i \in DOMAIN logicalTools
        BY <2>1, <2>4, <3>2 DEF ToolsOK, Mcp!Prefixed
      <3> QED
        BY <2>4, <3>1, <3>2
    <2>7. ASSUME NEW n \in DOMAIN toolMap'
          PROVE  \E i \in DOMAIN logicalTools' :
                     toolMap'[n] = logicalTools'[i] /\ n \in Mcp!Names(logicalTools'[i])
      <3>1. CASE n \in Mcp!Names(t)
        BY <2>1, <2>4, <3>1
      <3>2. CASE n \notin Mcp!Names(t)
        <4>1. n \in DOMAIN toolMap /\ toolMap'[n] = toolMap[n]
          BY <2>1, <2>7, <3>2
        <4>2. PICK i \in DOMAIN logicalTools :
                  toolMap[n] = logicalTools[i] /\ n \in Mcp!Names(logicalTools[i])
          BY <4>1 DEF ToolsOK
        <4>3. i \in DOMAIN logicalTools' /\ logicalTools'[i] = logicalTools[i]
          BY <2>4
        <4> QED
          BY <4>1, <4>2, <4>3
      <3> QED
        BY <3>1, <3>2
    <2>8. \A i \in DOMAIN logicalTools' :
              <<prefix', logicalTools'[i].name>> \in DOMAIN toolMap'
      BY <2>1, <2>6
    <2>9. \A n \in DOMAIN toolMap' : \E i \in DOMAIN logicalTools' :
              toolMap'[n] = logicalTools'[i]
              /\ n \in {<<"none", logicalTools'[i].name>>, <<prefix', logicalTools'[i].name>>}
      BY <2>1, <2>7 DEF Mcp!Names, Mcp!Own, Mcp!Prefixed
    <2> QED
      BY <2>3, <2>4, <2>8, <2>9 DEF ToolsOK, Mcp!Names, Mcp!Own, Mcp!Prefixed
  <1>3. ASSUME Mcp!Restart
        PROVE  ToolsOK'
    <2>1. todo' \in ToolLists /\ toolMap' = << >> /\ logicalTools' = << >>
      BY <1>3 DEF Mcp!Restart, Mcp!Start
    <2>2. todo' \in Seq(Declarable)
      BY <2>1, ToolAssumption
    <2> QED
      BY <2>1, <2>2 DEF ToolsOK
  <1>4. ASSUME Mcp!Listen \/ Mcp!Tick \/ UNCHANGED <<clock, toolVars>>
        PROVE  UNCHANGED <<prefix, todo, toolMap, logicalTools>>
    BY <1>4 DEF Mcp!Listen, Mcp!Tick, toolVars
  <1>5. ASSUME NEW c \in ToolCalls, Mcp!Finish(c) \/ Mcp!RequestInput(c)
        PROVE  UNCHANGED <<prefix, todo, toolMap, logicalTools>>
    BY <1>5 DEF Mcp!Finish, Mcp!RequestInput
  <1>6. ASSUME NEW c \in ToolCalls, NEW caller \in KeyHolders, NEW n \in DOMAIN toolMap,
               NEW held \in {{}} \cup {{x} : x \in states}, Mcp!Post(c, caller, n, held)
        PROVE  UNCHANGED <<prefix, todo, toolMap, logicalTools>>
    BY <1>6 DEF Mcp!Post
  <1> QED
    BY <1>1, <1>2, <1>3, <1>4, <1>5, <1>6 DEF Mcp!Next

(* Two of the logical tools have the name: it was declared again. *)
LEMMA TwoOfAName ==
    ASSUME ToolsOK, NEW n, NEW i \in DOMAIN logicalTools, NEW j \in DOMAIN logicalTools, i # j,
           logicalTools[i].name = n[2], logicalTools[j].name = n[2]
    PROVE  Mcp!DeclaredAgain(n)
  <1> DEFINE same == {m \in DOMAIN logicalTools : logicalTools[m].name = n[2]}
  <1>1. DOMAIN logicalTools = 1..Len(logicalTools) /\ Len(logicalTools) \in Nat
    BY DEF ToolsOK
  <1>2. IsFiniteSet(same)
    <2>1. IsFiniteSet(1..Len(logicalTools))
      BY <1>1, FS_Interval
    <2>2. same \in SUBSET (1..Len(logicalTools))
      BY <1>1
    <2> QED
      BY <2>1, <2>2, FS_Subset
  <1>3. {i, j} \subseteq same
    OBVIOUS
  <1>4. Cardinality({i, j}) = 2
    <2>1. IsFiniteSet({i}) /\ Cardinality({i}) = 1
      BY FS_Singleton
    <2>2. Cardinality({i} \cup {j}) = Cardinality({i}) + 1
      <3>1. j \notin {i}
        OBVIOUS
      <3> QED
        BY <2>1, <3>1, FS_AddElement
    <2>3. {i, j} = {i} \cup {j}
      OBVIOUS
    <2> QED
      BY <2>1, <2>2, <2>3
  <1>5. Cardinality(same) \in Nat /\ 2 <= Cardinality(same)
    BY <1>2, <1>3, <1>4, FS_Subset, FS_CardinalityType
  <1>6. Cardinality(same) > 1
    BY <1>5
  <1> QED
    BY <1>6 DEF Mcp!DeclaredAgain, Mcp!Cardinality, Cardinality

(* Rounds are bounded, and the catalogue tells the truth. *)
LEMMA ToolsTell == McpInv => Mcp!McpRightly
  <1> SUFFICES ASSUME McpInv PROVE Mcp!RoundsBounded /\ Mcp!CatalogTrue
    BY DEF Mcp!McpRightly
  <1>1. Mcp!RoundsBounded
    <2>1. \A x \in states : x.runs <= InputRounds
      BY ToolAssumption DEF McpInv, RoundsOK, Counted
    <2>2. ASSUME NEW c \in ToolCalls, toolCall[c].at = "handler"
          PROVE  /\ Mcp!Runs(toolCall[c]) <= InputRounds + 1
                 /\ \A x \in toolCall[c].resumed : x.by = toolCall[c].caller
      BY <2>2, Resumed, ToolAssumption DEF McpInv
    <2> QED
      BY <2>1, <2>2 DEF Mcp!RoundsBounded
  <1>2. ASSUME NEW i \in DOMAIN logicalTools
        PROVE  /\ Mcp!Prefixed(logicalTools[i]) \in DOMAIN toolMap
               /\ \/ toolMap[Mcp!Prefixed(logicalTools[i])].scopes = logicalTools[i].scopes
                  \/ Mcp!DeclaredAgain(Mcp!Prefixed(logicalTools[i]))
    <2> DEFINE n == Mcp!Prefixed(logicalTools[i])
    <2>1. n \in DOMAIN toolMap
      BY DEF McpInv, ToolsOK
    <2>2. PICK j \in DOMAIN logicalTools :
              toolMap[n] = logicalTools[j] /\ n \in Mcp!Names(logicalTools[j])
      BY <2>1 DEF McpInv, ToolsOK
    <2>3. n[2] = logicalTools[i].name /\ n[2] = logicalTools[j].name
      BY <2>2 DEF Mcp!Names, Mcp!Own, Mcp!Prefixed
    <2> HIDE DEF n
    <2>4. i = j => toolMap[n].scopes = logicalTools[i].scopes
      BY <2>2
    <2>5. i # j => Mcp!DeclaredAgain(n)
      BY <2>3, TwoOfAName DEF McpInv
    <2> QED
      BY <2>1, <2>4, <2>5 DEF n
  <1>3. /\ DOMAIN Mcp!CatalogSnapshot = DOMAIN logicalTools
        /\ \A i \in DOMAIN logicalTools :
               /\ Mcp!CatalogSnapshot[i].name = Mcp!Prefixed(logicalTools[i])
               /\ Mcp!CatalogSnapshot[i].scopes = logicalTools[i].scopes
    BY DEF Mcp!CatalogSnapshot
  <1>4. Mcp!CatalogTrue
    BY <1>2, <1>3 DEF Mcp!CatalogTrue
  <1> QED
    BY <1>1, <1>4

--------------------------------------------------------------------------------
(* Requests of an App *)

OpenStages == {"guard", "jwks", "account", "roles", "lookup", "limit"}
ClosedStages == {"served", "401", "403", "429"}
InFull(q) ==
    q = [at |-> q.at, tried |-> q.tried, asked |-> q.asked, row |-> q.row, who |-> q.who,
         route |-> q.route, token |-> q.token, header |-> q.header]

(* A login was presented to an App whose login strategies are "logins". *)
Logs(q, logins) == q.token # "none" /\ "interactive" \in q.route.kinds /\ logins # {}

(* What a request may be served for, and refused for, that overlapped the states "accts" of the
   account and "held" of the key. *)
ServedFor(who, q, logins, accts, held) ==
    /\ Auth!Authorised(who, q.route)
    /\ who.kind = "person" =>
        /\ q.token = "good" /\ "interactive" \in q.route.kinds
        /\ \E a \in accts : a.row = "active"
        /\ \E a \in accts : who.roles \in {a.roles, {}}
    /\ who.kind = "machine" =>
        /\ "machine" \in q.route.kinds /\ ~Logs(q, logins)
        /\ \E x \in held, y \in held :
               Auth!Usable(x.row, y.now) /\ who.roles = {x.row.role} /\ who.scopes = x.row.scopes
CauseFor(q, rbac, accts, f) ==
    \/ f > 0
    \/ \E a \in accts : a.row # "active"
    \/ \E a \in accts : ~Auth!Authorised(Auth!Person(IF rbac THEN a.roles ELSE {}), q.route)

(* A request between two awaits. *)
Asked(q, logins, rbac, accts, held, f) ==
    /\ InFull(q) /\ q.route \in GuardedRoutes /\ q.at \in OpenStages \cup ClosedStages
    /\ q.at = "guard" => \A x \in logins : x.id \in q.tried => q.token = "none"
    /\ q.at \in {"jwks", "account", "roles"} => "interactive" \in q.route.kinds
    /\ q.at \in {"account", "roles"} => q.token = "good"
    /\ q.at = "roles" => \E a \in accts : a.row = "active"
    /\ q.at \in {"lookup", "limit"} => /\ "machine" \in q.route.kinds /\ ~Logs(q, logins)
                                       /\ \E y \in held : y.now = q.asked
    /\ q.at = "limit" => \A x \in q.row : \E y \in held, z \in held :
                             y.row = x /\ Auth!Usable(x, z.now)
    /\ q.at = "served" => ServedFor(q.who, q, logins, accts, held)
    /\ q.at \in {"401", "403"} /\ q.token = "good" /\ Logs(q, logins)
           => CauseFor(q, rbac, accts, f)
AskedOK ==
    \A q \in AuthRequests :
        \/ request[q] = Auth!Idle
        \/ /\ boot = "up"
           /\ request[q].at \in OpenStages => /\ account \in sawAccount[q]
                                              /\ [row |-> apiKey, now |-> clock] \in sawKey[q]
           /\ Asked(request[q], Auth!LoginStrategies, policy, sawAccount[q], sawKey[q], mishaps)

(* One login strategy, one strategy of a name, whatever came first. *)
StrategiesOK ==
    /\ \A x, y \in registered : x.id = y.id => x = y
    /\ \A x, y \in registered : x.kind = "interactive" /\ y.kind = "interactive" => x = y

(* The limiter: a bucket, or none. *)
LimiterOK ==
    \/ window = {} /\ WindowedBy(passes, [count |-> 0, start |-> 0], clock, Auth!Most, KeyWindow)
    \/ \E b \in window :
              /\ window = {b} /\ b.count > 0
              /\ WindowedBy(passes, b, clock, Auth!Most, KeyWindow)

AuthTypeOK ==
    /\ clock \in Nat /\ mishaps \in Nat
    /\ request = [q \in AuthRequests |-> request[q]]
    /\ sawAccount = [q \in AuthRequests |-> sawAccount[q]]
    /\ sawKey = [q \in AuthRequests |-> sawKey[q]]
AuthInv == AuthTypeOK /\ StrategiesOK /\ AskedOK /\ LimiterOK

(* The registry that the properties look at is the one of the invariant. *)
LEMMA PresentedIs ==
    ASSUME NEW q PROVE Auth!Presented(q) <=> Logs(q, Auth!LoginStrategies)
  BY DEF Auth!Presented, Auth!Candidates, Auth!LoginStrategies, Logs

(* A request that changed in one of the ways the guards change it. *)
LEMMA Staged ==
    ASSUME NEW q, InFull(q), NEW goal
    PROVE  [q EXCEPT !.at = goal] =
               [at |-> goal, tried |-> q.tried, asked |-> q.asked, row |-> q.row,
                who |-> q.who, route |-> q.route, token |-> q.token,
                header |-> q.header]
  BY DEF InFull
LEMMA Rowed ==
    ASSUME NEW q, InFull(q), NEW found
    PROVE  [q EXCEPT !.row = found] =
               [at |-> q.at, tried |-> q.tried, asked |-> q.asked, row |-> found,
                who |-> q.who, route |-> q.route, token |-> q.token,
                header |-> q.header]
  BY DEF InFull
LEMMA Named ==
    ASSUME NEW q, InFull(q), NEW who
    PROVE  [q EXCEPT !.who = who] =
               [at |-> q.at, tried |-> q.tried, asked |-> q.asked, row |-> q.row,
                who |-> who, route |-> q.route, token |-> q.token,
                header |-> q.header]
  BY DEF InFull
LEMMA Dated ==
    ASSUME NEW q, InFull(q), NEW t
    PROVE  [q EXCEPT !.asked = t] =
               [at |-> q.at, tried |-> q.tried, asked |-> t, row |-> q.row,
                who |-> q.who, route |-> q.route, token |-> q.token,
                header |-> q.header]
  BY DEF InFull
LEMMA Skipped ==
    ASSUME NEW q, InFull(q), NEW id
    PROVE  [q EXCEPT !.tried = @ \cup {id}] =
               [at |-> q.at, tried |-> q.tried \cup {id}, asked |-> q.asked,
                row |-> q.row, who |-> q.who, route |-> q.route, token |-> q.token,
                header |-> q.header]
  BY DEF InFull
LEMMA Turned ==
    ASSUME NEW q, InFull(q), NEW status
    PROVE  [q EXCEPT !.at = status, !.row = {}] =
               [at |-> status, tried |-> q.tried, asked |-> q.asked, row |-> {},
                who |-> q.who, route |-> q.route, token |-> q.token,
                header |-> q.header]
  <1>1. PICK m : m = [q EXCEPT !.at = status]
    OBVIOUS
  <1>2. m = [at |-> status, tried |-> q.tried, asked |-> q.asked, row |-> q.row,
           who |-> q.who, route |-> q.route, token |-> q.token, header |-> q.header]
    BY <1>1, Staged
  <1>3. InFull(m)
    BY <1>2 DEF InFull
  <1>4. [m EXCEPT !.row = {}] = [at |-> status, tried |-> q.tried,
                                     asked |-> q.asked, row |-> {}, who |-> q.who,
                                     route |-> q.route, token |-> q.token,
                                     header |-> q.header]
    BY <1>2, <1>3, Rowed
  <1> QED
    BY <1>1, <1>4
LEMMA Principal ==
    ASSUME NEW q, InFull(q), NEW who
    PROVE  [q EXCEPT !.at = "served", !.row = {}, !.who = who] =
               [at |-> "served", tried |-> q.tried, asked |-> q.asked, row |-> {},
                who |-> who, route |-> q.route, token |-> q.token,
                header |-> q.header]
  <1>1. PICK m : m = [q EXCEPT !.at = "served", !.row = {}]
    OBVIOUS
  <1>2. m = [at |-> "served", tried |-> q.tried, asked |-> q.asked, row |-> {},
           who |-> q.who, route |-> q.route, token |-> q.token, header |-> q.header]
    BY <1>1, Turned
  <1>3. InFull(m)
    BY <1>2 DEF InFull
  <1>4. [m EXCEPT !.who = who] = [at |-> "served", tried |-> q.tried,
                                     asked |-> q.asked, row |-> {}, who |-> who,
                                     route |-> q.route, token |-> q.token,
                                     header |-> q.header]
    BY <1>2, <1>3, Named
  <1> QED
    BY <1>1, <1>4
LEMMA Asking ==
    ASSUME NEW q, InFull(q), NEW t
    PROVE  [q EXCEPT !.at = "lookup", !.asked = t] =
               [at |-> "lookup", tried |-> q.tried, asked |-> t, row |-> q.row,
                who |-> q.who, route |-> q.route, token |-> q.token,
                header |-> q.header]
  <1>1. PICK m : m = [q EXCEPT !.at = "lookup"]
    OBVIOUS
  <1>2. m = [at |-> "lookup", tried |-> q.tried, asked |-> q.asked, row |-> q.row,
           who |-> q.who, route |-> q.route, token |-> q.token, header |-> q.header]
    BY <1>1, Staged
  <1>3. InFull(m)
    BY <1>2 DEF InFull
  <1>4. [m EXCEPT !.asked = t] = [at |-> "lookup", tried |-> q.tried,
                                     asked |-> t, row |-> q.row, who |-> q.who,
                                     route |-> q.route, token |-> q.token,
                                     header |-> q.header]
    BY <1>2, <1>3, Dated
  <1> QED
    BY <1>1, <1>4
LEMMA Looked ==
    ASSUME NEW q, InFull(q), NEW found
    PROVE  [q EXCEPT !.at = "limit", !.row = found] =
               [at |-> "limit", tried |-> q.tried, asked |-> q.asked, row |-> found,
                who |-> q.who, route |-> q.route, token |-> q.token,
                header |-> q.header]
  <1>1. PICK m : m = [q EXCEPT !.at = "limit"]
    OBVIOUS
  <1>2. m = [at |-> "limit", tried |-> q.tried, asked |-> q.asked, row |-> q.row,
           who |-> q.who, route |-> q.route, token |-> q.token, header |-> q.header]
    BY <1>1, Staged
  <1>3. InFull(m)
    BY <1>2 DEF InFull
  <1>4. [m EXCEPT !.row = found] = [at |-> "limit", tried |-> q.tried,
                                         asked |-> q.asked, row |-> found,
                                         who |-> q.who, route |-> q.route,
                                         token |-> q.token, header |-> q.header]
    BY <1>2, <1>3, Rowed
  <1> QED
    BY <1>1, <1>4

(* What is known of a request stays known while it overlaps more. *)
LEMMA AskedStays ==
    ASSUME NEW q, NEW logins, NEW rbac, NEW accts, NEW held, NEW f \in Nat,
           NEW accts2, NEW held2, NEW f2 \in Nat,
           accts \subseteq accts2, held \subseteq held2, f <= f2,
           Asked(q, logins, rbac, accts, held, f)
    PROVE  Asked(q, logins, rbac, accts2, held2, f2)
  <1>1. q.at = "served" => ServedFor(q.who, q, logins, accts2, held2)
    BY DEF Asked, ServedFor
  <1>2. CauseFor(q, rbac, accts, f) => CauseFor(q, rbac, accts2, f2)
    BY DEF CauseFor
  <1>3. q.at = "limit" => \A x \in q.row : \E y \in held2, z \in held2 :
                              y.row = x /\ Auth!Usable(x, z.now)
    BY DEF Asked
  <1> QED
    BY <1>1, <1>2, <1>3 DEF Asked

(* A request that was refused, and why. *)
Refusal(q, status) == [q EXCEPT !.at = status, !.row = {}]
LEMMA RefusedAsk ==
    ASSUME NEW q, NEW logins, NEW rbac, NEW accts, NEW held, NEW f,
           InFull(q), q.route \in GuardedRoutes, NEW status \in {"401", "403", "429"},
           q.token = "good" /\ Logs(q, logins) => CauseFor(q, rbac, accts, f),
           NEW next, next = Refusal(q, status)
    PROVE  Asked(next, logins, rbac, accts, held, f) /\ next.at = status
  <1>1. next = [at |-> status, tried |-> q.tried, asked |-> q.asked, row |-> {}, who |-> q.who,
                route |-> q.route, token |-> q.token, header |-> q.header]
    BY Turned DEF Refusal
  <1>2. /\ InFull(next) /\ next.route = q.route /\ next.at = status /\ next.token = q.token
    BY <1>1 DEF InFull
  <1>3. Logs(next, logins) <=> Logs(q, logins)
    BY <1>2 DEF Logs
  <1>4. CauseFor(next, rbac, accts, f) <=> CauseFor(q, rbac, accts, f)
    BY <1>2 DEF CauseFor
  <1>5. Asked(next, logins, rbac, accts, held, f)
    BY <1>2, <1>3, <1>4 DEF Asked, ClosedStages
  <1> QED
    BY <1>2, <1>5

(* A step of one request, while neither the App, the account, the key nor the time changes. *)
LEMMA AskedStep ==
    ASSUME AuthInv, NEW c \in AuthRequests, boot = "up",
           UNCHANGED <<boot, registered, policy, account, apiKey, clock, sawAccount, sawKey>>,
           mishaps' \in Nat, mishaps <= mishaps', LimiterOK',
           NEW next, request' = [request EXCEPT ![c] = next],
           next.at \in OpenStages => request[c].at \in OpenStages,
           Asked(next, Auth!LoginStrategies, policy, sawAccount[c], sawKey[c], mishaps'),
           request[c] # Auth!Idle
    PROVE  AuthInv'
  <1>1. AuthTypeOK /\ request' = [q \in AuthRequests |-> IF q = c THEN next ELSE request[q]]
    BY DEF AuthInv, AuthTypeOK
  <1>2. AuthTypeOK'
    BY <1>1 DEF AuthTypeOK
  <1>3. StrategiesOK'
    BY DEF AuthInv, StrategiesOK
  <1>4. Auth!LoginStrategies' = Auth!LoginStrategies
    BY DEF Auth!LoginStrategies
  <1>5. ASSUME NEW q \in AuthRequests
        PROVE  \/ request'[q] = Auth!Idle
               \/ /\ boot = "up"
                  /\ request'[q].at \in OpenStages =>
                        account \in sawAccount[q] /\ [row |-> apiKey, now |-> clock] \in sawKey[q]
                  /\ Asked(request'[q], Auth!LoginStrategies, policy, sawAccount[q], sawKey[q],
                           mishaps')
    <2>1. CASE q = c
      <3>1. request'[q] = next
        BY <1>1, <2>1
      <3>2. request[c].at \in OpenStages =>
                account \in sawAccount[q] /\ [row |-> apiKey, now |-> clock] \in sawKey[q]
        BY <2>1 DEF AuthInv, AskedOK
      <3> QED
        BY <2>1, <3>1, <3>2
    <2>2. CASE q # c
      <3>1. request'[q] = request[q]
        BY <1>1, <2>2
      <3>2. ASSUME request[q] # Auth!Idle
            PROVE  Asked(request[q], Auth!LoginStrategies, policy, sawAccount[q], sawKey[q], mishaps')
        <4>1. Asked(request[q], Auth!LoginStrategies, policy, sawAccount[q], sawKey[q], mishaps)
          BY <3>2 DEF AuthInv, AskedOK
        <4>2. mishaps \in Nat
          BY <1>1 DEF AuthTypeOK
        <4> QED
          BY <4>1, <4>2, AskedStays
      <3> QED
        BY <3>1, <3>2 DEF AuthInv, AskedOK
    <2> QED
      BY <2>1, <2>2
  <1>6. AskedOK'
    BY <1>4, <1>5 DEF AskedOK, Auth!Idle
  <1> QED
    BY <1>2, <1>3, <1>6 DEF AuthInv

(* A request that is under way, or answered. *)
LEMMA AskedOf ==
    ASSUME AuthInv, NEW c \in AuthRequests, request[c].at \in OpenStages \cup ClosedStages
    PROVE  /\ request[c] # Auth!Idle /\ boot = "up" /\ mishaps \in Nat
           /\ Asked(request[c], Auth!LoginStrategies, policy, sawAccount[c], sawKey[c], mishaps)
           /\ InFull(request[c]) /\ request[c].route \in GuardedRoutes
           /\ request[c].at \in OpenStages =>
                 account \in sawAccount[c] /\ [row |-> apiKey, now |-> clock] \in sawKey[c]
  <1>1. request[c] # Auth!Idle
    BY DEF Auth!Idle, OpenStages, ClosedStages
  <1> QED
    BY <1>1 DEF AuthInv, AuthTypeOK, AskedOK, Asked

LimiterKept == UNCHANGED <<window, passes, clock>>
LEMMA LimiterStays == AuthInv /\ LimiterKept => LimiterOK'
  BY DEF AuthInv, LimiterOK, LimiterKept

(* A step that ends in a refusal ... *)
Meanwhile(c) ==
    /\ request[c].at \in OpenStages
    /\ UNCHANGED <<boot, registered, policy, account, apiKey, clock, sawAccount, sawKey>>
    /\ mishaps' \in Nat /\ mishaps <= mishaps'
LEMMA RefusalStep ==
    ASSUME AuthInv, NEW c \in AuthRequests, Meanwhile(c), LimiterOK',
           NEW status \in {"401", "403", "429"}, Auth!Refuse(c, status),
           request[c].token = "good" /\ Logs(request[c], Auth!LoginStrategies)
               => CauseFor(request[c], policy, sawAccount[c], mishaps')
    PROVE  AuthInv'
  <1>1. PICK next : next = Refusal(request[c], status)
    OBVIOUS
  <1>2. InFull(request[c]) /\ request[c].route \in GuardedRoutes /\ request[c] # Auth!Idle
        /\ boot = "up"
    BY AskedOf DEF Meanwhile
  <1>3. /\ Asked(next, Auth!LoginStrategies, policy, sawAccount[c], sawKey[c], mishaps')
        /\ next.at = status
    BY <1>1, <1>2, RefusedAsk
  <1>4. next.at \notin OpenStages
    BY <1>3 DEF OpenStages
  <1>5. request' = [request EXCEPT ![c] = next]
    BY <1>1 DEF Auth!Refuse, Auth!Set, Refusal
  <1> QED
    BY <1>2, <1>3, <1>4, <1>5, AskedStep DEF Meanwhile

(* ... or in the route's guards, and the handler. *)
LEMMA ServeStep ==
    ASSUME AuthInv, NEW c \in AuthRequests, Meanwhile(c), LimiterOK', NEW who, Auth!Serve(c, who),
           Auth!Authorised(who, request[c].route)
               => ServedFor(who, request[c], Auth!LoginStrategies, sawAccount[c], sawKey[c]),
           /\ request[c].token = "good" /\ Logs(request[c], Auth!LoginStrategies)
           /\ ~Auth!Authorised(who, request[c].route) \/ ~Auth!CanWrite(who)
           => CauseFor(request[c], policy, sawAccount[c], mishaps')
    PROVE  AuthInv'
  <1>1. CASE ~Auth!Authorised(who, request[c].route)
             \/ (request[c].route.writes /\ ~Auth!CanWrite(who))
    <2>1. Auth!Refuse(c, "403")
      BY <1>1 DEF Auth!Serve
    <2> QED
      BY <1>1, <2>1, RefusalStep
  <1>2. CASE ~(~Auth!Authorised(who, request[c].route)
               \/ (request[c].route.writes /\ ~Auth!CanWrite(who)))
    <2>1. PICK next : next = [request[c] EXCEPT !.at = "served", !.row = {}, !.who = who]
      OBVIOUS
    <2>2. InFull(request[c]) /\ request[c].route \in GuardedRoutes /\ request[c] # Auth!Idle
          /\ boot = "up"
      BY AskedOf DEF Meanwhile
    <2>3. PICK q : q = request[c]
      OBVIOUS
    <2>4. next = [at |-> "served", tried |-> q.tried, asked |-> q.asked, row |-> {}, who |-> who,
                  route |-> q.route, token |-> q.token, header |-> q.header]
      BY <2>1, <2>2, <2>3, Principal
    <2>5. /\ InFull(next) /\ next.at = "served" /\ next.who = who /\ next.route = q.route
          /\ next.token = q.token
      BY <2>4 DEF InFull
    <2>6. ServedFor(who, q, Auth!LoginStrategies, sawAccount[c], sawKey[c])
      BY <1>2, <2>3
    <2>7. ServedFor(who, next, Auth!LoginStrategies, sawAccount[c], sawKey[c])
      BY <2>5, <2>6 DEF ServedFor, Logs
    <2>8. Asked(next, Auth!LoginStrategies, policy, sawAccount[c], sawKey[c], mishaps')
      BY <2>2, <2>3, <2>5, <2>7 DEF Asked, ClosedStages
    <2>9. next.at \notin OpenStages
      BY <2>5 DEF OpenStages
    <2>10. request' = [request EXCEPT ![c] = next]
      BY <1>2, <2>1 DEF Auth!Serve, Auth!Set
    <2> QED
      BY <2>2, <2>8, <2>9, <2>10, AskedStep DEF Meanwhile
  <1> QED
    BY <1>1, <1>2

(* A step to another stage: what that stage needs is known. *)
LEMMA OnwardStep ==
    ASSUME AuthInv, NEW c \in AuthRequests, Meanwhile(c), LimiterOK', NEW next,
           Auth!Set(c, next), InFull(next), next.route = request[c].route,
           Asked(next, Auth!LoginStrategies, policy, sawAccount[c], sawKey[c], mishaps')
    PROVE  AuthInv'
  <1>1. request' = [request EXCEPT ![c] = next]
    BY DEF Auth!Set
  <1> QED
    BY <1>1, AskedOf, AskedStep DEF Meanwhile

(* What the guards' steps leave alone. *)
LEMMA KeptIs ==
    ASSUME AuthInv, Auth!Kept
    PROVE  /\ UNCHANGED <<boot, registered, policy, account, apiKey, clock, sawAccount, sawKey>>
           /\ LimiterOK'
  BY LimiterStays DEF Auth!Kept, Auth!world, LimiterKept

(* No strategy is left: a login that was presented had one. *)
LEMMA ExhaustedStep ==
    ASSUME AuthInv, NEW c \in AuthRequests, Auth!Exhausted(c)
    PROVE  AuthInv'
  <1>1. request[c].at = "guard" /\ Auth!Untried(request[c]) = {} /\ Auth!Refuse(c, "401")
        /\ mishaps' = mishaps /\ Auth!Kept
    BY DEF Auth!Exhausted
  <1>2. Asked(request[c], Auth!LoginStrategies, policy, sawAccount[c], sawKey[c], mishaps)
        /\ mishaps \in Nat
    BY <1>1, AskedOf DEF OpenStages
  <1>3. Meanwhile(c) /\ LimiterOK'
    BY <1>1, <1>2, KeptIs DEF Meanwhile, OpenStages
  <1>4. ~(request[c].token = "good" /\ Logs(request[c], Auth!LoginStrategies))
    <2> SUFFICES ASSUME request[c].token = "good", Logs(request[c], Auth!LoginStrategies)
                 PROVE  FALSE
      OBVIOUS
    <2>1. PICK x \in Auth!LoginStrategies : TRUE
      BY DEF Logs
    <2>2. x.id \in request[c].tried
      BY <1>1, <2>1 DEF Auth!Untried, Auth!Candidates, Auth!LoginStrategies, Logs
    <2> QED
      BY <1>1, <1>2, <2>1, <2>2 DEF Asked
  <1> QED
    BY <1>1, <1>3, <1>4, RefusalStep

(* OidcInteractiveStrategy: no credential, one that is refused, or a key to fetch. *)
LEMMA TryLoginStep ==
    ASSUME AuthInv, NEW c \in AuthRequests, Auth!TryLogin(c)
    PROVE  AuthInv'
  <1>1. PICK x \in registered :
            /\ request[c].at = "guard" /\ x.kind = "interactive" /\ Auth!IsNext(x, request[c])
            /\ IF request[c].token = "none"
               THEN Auth!Set(c, [request[c] EXCEPT !.tried = @ \cup {x.id}])
               ELSE IF request[c].token = "no kid" THEN Auth!Refuse(c, "401")
               ELSE Auth!Set(c, [request[c] EXCEPT !.at = "jwks"])
            /\ Auth!Kept /\ mishaps' = mishaps
    BY DEF Auth!TryLogin
  <1>2. /\ Asked(request[c], Auth!LoginStrategies, policy, sawAccount[c], sawKey[c], mishaps)
        /\ mishaps \in Nat /\ InFull(request[c])
    BY <1>1, AskedOf DEF OpenStages
  <1>3. /\ UNCHANGED <<boot, registered, policy, account, apiKey, clock, sawAccount, sawKey>>
        /\ LimiterOK'
    BY <1>1, KeptIs
  <1>4. request[c].at = "guard" /\ mishaps' = mishaps /\ mishaps \in Nat
    BY <1>1, <1>2
  <1>5. Meanwhile(c) /\ LimiterOK'
    BY <1>3, <1>4 DEF Meanwhile, OpenStages
  <1>6. PICK q : q = request[c]
    OBVIOUS
  <1>7. "interactive" \in q.route.kinds
    BY <1>1, <1>6 DEF Auth!IsNext, Auth!Untried, Auth!Candidates
  <1>8. CASE q.token = "none"
    <2>1. PICK next : next = [q EXCEPT !.tried = @ \cup {x.id}]
      OBVIOUS
    <2>2. next = [at |-> q.at, tried |-> q.tried \cup {x.id}, asked |-> q.asked, row |-> q.row,
                  who |-> q.who, route |-> q.route, token |-> q.token, header |-> q.header]
      BY <1>2, <1>6, <2>1, Skipped
    <2>3. InFull(next) /\ next.at = "guard" /\ next.token = "none" /\ next.route = q.route
      BY <1>1, <1>6, <1>8, <2>2 DEF InFull
    <2>4. Asked(next, Auth!LoginStrategies, policy, sawAccount[c], sawKey[c], mishaps')
      BY <1>2, <1>6, <2>3 DEF Asked, OpenStages
    <2>5. Auth!Set(c, next)
      BY <1>1, <1>6, <1>8, <2>1
    <2> QED
      BY <1>5, <1>6, <2>3, <2>4, <2>5, OnwardStep
  <1>9. CASE q.token = "no kid"
    <2>1. Auth!Refuse(c, "401")
      BY <1>1, <1>6, <1>9
    <2> QED
      BY <1>5, <1>6, <1>9, <2>1, RefusalStep
  <1>10. CASE q.token \notin {"none", "no kid"}
    <2>1. PICK next : next = [q EXCEPT !.at = "jwks"]
      OBVIOUS
    <2>2. next = [at |-> "jwks", tried |-> q.tried, asked |-> q.asked, row |-> q.row,
                  who |-> q.who, route |-> q.route, token |-> q.token, header |-> q.header]
      BY <1>2, <1>6, <2>1, Staged
    <2>3. InFull(next) /\ next.at = "jwks" /\ next.route = q.route
      BY <2>2 DEF InFull
    <2>4. Asked(next, Auth!LoginStrategies, policy, sawAccount[c], sawKey[c], mishaps')
      BY <1>2, <1>6, <1>7, <2>3 DEF Asked, OpenStages
    <2>5. Auth!Set(c, next)
      BY <1>1, <1>6, <1>10, <2>1
    <2> QED
      BY <1>5, <1>6, <2>3, <2>4, <2>5, OnwardStep
  <1> QED
    BY <1>8, <1>9, <1>10

(* The token: good, refused for what it is, or for a fetch that failed. *)
LEMMA CheckTokenStep ==
    ASSUME AuthInv, NEW c \in AuthRequests, Auth!VerifyToken(c)
    PROVE  AuthInv'
  <1>1. PICK q : q = request[c]
    OBVIOUS
  <1>2. /\ q.at = "jwks" /\ Auth!Kept
        /\ \/ mishaps' = mishaps /\ q.token = "good" /\ Auth!Set(c, [q EXCEPT !.at = "account"])
           \/ mishaps' = mishaps /\ q.token # "good" /\ Auth!Set(c, [q EXCEPT !.at = "401"])
           \/ mishaps' = mishaps + 1 /\ Auth!Set(c, [q EXCEPT !.at = "401"])
    BY <1>1 DEF Auth!VerifyToken, Auth!OnInvalid
  <1>3. /\ Asked(q, Auth!LoginStrategies, policy, sawAccount[c], sawKey[c], mishaps)
        /\ mishaps \in Nat /\ InFull(q) /\ mishaps' \in Nat /\ mishaps <= mishaps'
    BY <1>1, <1>2, AskedOf DEF OpenStages
  <1>4. Meanwhile(c) /\ LimiterOK'
    BY <1>1, <1>2, <1>3, KeptIs DEF Meanwhile, OpenStages
  <1>5. ASSUME NEW goal \in {"account", "401"}, Auth!Set(c, [q EXCEPT !.at = goal]),
               goal = "account" => q.token = "good",
               goal = "401" => q.token # "good" \/ mishaps' > 0
        PROVE  AuthInv'
    <2>1. PICK next : next = [q EXCEPT !.at = goal]
      OBVIOUS
    <2>2. next = [at |-> goal, tried |-> q.tried, asked |-> q.asked, row |-> q.row,
                  who |-> q.who, route |-> q.route, token |-> q.token, header |-> q.header]
      BY <1>3, <2>1, Staged
    <2>3. InFull(next) /\ next.at = goal /\ next.route = q.route /\ next.token = q.token
      BY <2>2 DEF InFull
    <2>4. Asked(next, Auth!LoginStrategies, policy, sawAccount[c], sawKey[c], mishaps')
      BY <1>2, <1>3, <1>5, <2>3 DEF Asked, OpenStages, ClosedStages, CauseFor
    <2>5. Auth!Set(c, next)
      BY <1>5, <2>1
    <2> QED
      BY <1>1, <1>4, <2>3, <2>4, <2>5, OnwardStep
  <1> QED
    BY <1>2, <1>3, <1>5

(* buildPrincipal: the account, then its roles. *)
LEMMA AccountReadStep ==
    ASSUME AuthInv, NEW c \in AuthRequests, Auth!ReadAccount(c)
    PROVE  AuthInv'
  <1>1. PICK q : q = request[c]
    OBVIOUS
  <1>2. /\ q.at = "account" /\ Auth!Kept /\ mishaps' = mishaps
        /\ IF account.row = "active" THEN Auth!Set(c, [q EXCEPT !.at = "roles"])
           ELSE Auth!Refuse(c, "401")
    BY <1>1 DEF Auth!ReadAccount
  <1>3. /\ Asked(q, Auth!LoginStrategies, policy, sawAccount[c], sawKey[c], mishaps)
        /\ mishaps \in Nat /\ InFull(q) /\ account \in sawAccount[c]
    BY <1>1, <1>2, AskedOf DEF OpenStages
  <1>4. Meanwhile(c) /\ LimiterOK'
    BY <1>1, <1>2, <1>3, KeptIs DEF Meanwhile, OpenStages
  <1>5. CASE account.row = "active"
    <2>1. PICK next : next = [q EXCEPT !.at = "roles"]
      OBVIOUS
    <2>2. next = [at |-> "roles", tried |-> q.tried, asked |-> q.asked, row |-> q.row,
                  who |-> q.who, route |-> q.route, token |-> q.token, header |-> q.header]
      BY <1>3, <2>1, Staged
    <2>3. InFull(next) /\ next.at = "roles" /\ next.route = q.route /\ next.token = q.token
      BY <2>2 DEF InFull
    <2>4. Asked(next, Auth!LoginStrategies, policy, sawAccount[c], sawKey[c], mishaps')
      BY <1>2, <1>3, <1>5, <2>3 DEF Asked, OpenStages
    <2>5. Auth!Set(c, next)
      BY <1>2, <1>5, <2>1
    <2> QED
      BY <1>1, <1>4, <2>3, <2>4, <2>5, OnwardStep
  <1>6. CASE account.row # "active"
    <2>1. CauseFor(request[c], policy, sawAccount[c], mishaps')
      BY <1>3, <1>6 DEF CauseFor
    <2> QED
      BY <1>2, <1>4, <1>6, <2>1, RefusalStep
  <1> QED
    BY <1>5, <1>6

LEMMA RolesStep ==
    ASSUME AuthInv, NEW c \in AuthRequests, Auth!ReadRoles(c)
    PROVE  AuthInv'
  <1> DEFINE who == [kind |-> "person", roles |-> IF policy THEN account.roles ELSE {},
                     scopes |-> {}, actor |-> "self"]
  <1>1. request[c].at = "roles" /\ Auth!Serve(c, who) /\ Auth!Kept /\ mishaps' = mishaps
    BY DEF Auth!ReadRoles
  <1>2. /\ Asked(request[c], Auth!LoginStrategies, policy, sawAccount[c], sawKey[c], mishaps)
        /\ mishaps \in Nat /\ account \in sawAccount[c]
    BY <1>1, AskedOf DEF OpenStages
  <1>3. Meanwhile(c) /\ LimiterOK'
    BY <1>1, <1>2, KeptIs DEF Meanwhile, OpenStages
  <1>4. /\ who = Auth!Person(IF policy THEN account.roles ELSE {})
        /\ who.kind = "person" /\ who.roles = (IF policy THEN account.roles ELSE {})
        /\ Auth!CanWrite(who)
    BY DEF Auth!Person, Auth!CanWrite
  <1> HIDE DEF who
  <1>5. Auth!Authorised(who, request[c].route)
            => ServedFor(who, request[c], Auth!LoginStrategies, sawAccount[c], sawKey[c])
    <2>1. who.roles \in {account.roles, {}}
      BY <1>4
    <2>2. /\ request[c].token = "good" /\ "interactive" \in request[c].route.kinds
          /\ \E a \in sawAccount[c] : a.row = "active"
      BY <1>1, <1>2 DEF Asked
    <2> QED
      BY <1>2, <1>4, <2>1, <2>2 DEF ServedFor
  <1>6. ~Auth!Authorised(who, request[c].route)
            => CauseFor(request[c], policy, sawAccount[c], mishaps')
    BY <1>2, <1>4 DEF CauseFor
  <1> QED
    BY <1>1, <1>3, <1>4, <1>5, <1>6, ServeStep

(* A key to look up: no login was presented. *)
LEMMA AskKeyStep ==
    ASSUME AuthInv, NEW c \in AuthRequests, request[c].at = "guard",
           "machine" \in request[c].route.kinds, ~Logs(request[c], Auth!LoginStrategies),
           Auth!Asks(c), Meanwhile(c), LimiterOK'
    PROVE  AuthInv'
  <1>1. PICK q : q = request[c]
    OBVIOUS
  <1>2. /\ Asked(q, Auth!LoginStrategies, policy, sawAccount[c], sawKey[c], mishaps)
        /\ InFull(q) /\ [row |-> apiKey, now |-> clock] \in sawKey[c]
    BY <1>1, AskedOf DEF OpenStages
  <1>3. PICK next : next = [q EXCEPT !.at = "lookup", !.asked = clock]
    OBVIOUS
  <1>4. next = [at |-> "lookup", tried |-> q.tried, asked |-> clock, row |-> q.row,
                who |-> q.who, route |-> q.route, token |-> q.token, header |-> q.header]
    BY <1>2, <1>3, Asking
  <1>5. /\ InFull(next) /\ next.at = "lookup" /\ next.route = q.route /\ next.token = q.token
        /\ next.asked = clock
    BY <1>4 DEF InFull
  <1>6. \E y \in sawKey[c] : y.now = next.asked
    BY <1>2, <1>5
  <1>7. ~Logs(next, Auth!LoginStrategies) /\ "machine" \in next.route.kinds
    BY <1>1, <1>5 DEF Logs
  <1>8. Asked(next, Auth!LoginStrategies, policy, sawAccount[c], sawKey[c], mishaps')
    BY <1>2, <1>5, <1>6, <1>7 DEF Asked, OpenStages
  <1>9. Auth!Set(c, next)
    BY <1>1, <1>3 DEF Auth!Asks
  <1> QED
    BY <1>1, <1>5, <1>8, <1>9, OnwardStep

(* ApiKeyMachineStrategy: its turn comes when no login was presented. *)
LEMMA TryKeyStep ==
    ASSUME AuthInv, NEW c \in AuthRequests, Auth!TryKey(c)
    PROVE  AuthInv'
  <1>1. PICK x \in registered :
            /\ request[c].at = "guard" /\ x.kind = "machine" /\ Auth!IsNext(x, request[c])
            /\ IF request[c].header = "none"
               THEN Auth!Set(c, [request[c] EXCEPT !.tried = @ \cup {x.id}])
               ELSE IF request[c].header = "malformed" \/ ~policy THEN Auth!Refuse(c, "401")
               ELSE Auth!Asks(c)
            /\ Auth!Kept /\ mishaps' = mishaps
    BY DEF Auth!TryKey
  <1>2. PICK q : q = request[c]
    OBVIOUS
  <1>3. /\ q.at = "guard" /\ x.kind = "machine" /\ Auth!IsNext(x, q) /\ Auth!Kept
        /\ mishaps' = mishaps
    BY <1>1, <1>2
  <1>4. /\ Asked(q, Auth!LoginStrategies, policy, sawAccount[c], sawKey[c], mishaps)
        /\ mishaps \in Nat /\ InFull(q)
    BY <1>2, <1>3, AskedOf DEF OpenStages
  <1>5. /\ UNCHANGED <<boot, registered, policy, account, apiKey, clock, sawAccount, sawKey>>
        /\ LimiterOK'
    BY <1>3, KeptIs
  <1>6. Meanwhile(c) /\ LimiterOK'
    BY <1>2, <1>3, <1>4, <1>5 DEF Meanwhile, OpenStages
  <1>7. /\ "machine" \in q.route.kinds
        /\ \A y \in Auth!LoginStrategies : "interactive" \in q.route.kinds => y.id \in q.tried
    BY <1>3 DEF Auth!IsNext, Auth!Untried, Auth!Candidates, Auth!LoginStrategies, Auth!Before
  <1>8. ~Logs(q, Auth!LoginStrategies)
    <2> SUFFICES ASSUME Logs(q, Auth!LoginStrategies) PROVE FALSE
      OBVIOUS
    <2>1. PICK y \in Auth!LoginStrategies : y.id \in q.tried
      BY <1>7 DEF Logs
    <2> QED
      BY <1>3, <1>4, <2>1 DEF Asked, Logs
  <1>9. CASE q.header = "none"
    <2>1. PICK next : next = [q EXCEPT !.tried = @ \cup {x.id}]
      OBVIOUS
    <2>2. next = [at |-> q.at, tried |-> q.tried \cup {x.id}, asked |-> q.asked, row |-> q.row,
                  who |-> q.who, route |-> q.route, token |-> q.token, header |-> q.header]
      BY <1>4, <2>1, Skipped
    <2>3. /\ InFull(next) /\ next.at = "guard" /\ next.token = q.token /\ next.route = q.route
          /\ next.tried = q.tried \cup {x.id}
      BY <1>3, <2>2 DEF InFull
    <2>4. \A y \in Auth!LoginStrategies : y.id # x.id
      BY <1>3 DEF AuthInv, StrategiesOK, Auth!LoginStrategies
    <2>5. \A y \in Auth!LoginStrategies : y.id \in next.tried => next.token = "none"
      BY <1>3, <1>4, <2>3, <2>4 DEF Asked
    <2>6. Asked(next, Auth!LoginStrategies, policy, sawAccount[c], sawKey[c], mishaps')
      BY <1>4, <2>3, <2>5 DEF Asked, OpenStages
    <2>7. Auth!Set(c, next)
      BY <1>1, <1>2, <1>9, <2>1
    <2> QED
      BY <1>2, <1>6, <2>3, <2>6, <2>7, OnwardStep
  <1>10. CASE q.header # "none" /\ (q.header = "malformed" \/ ~policy)
    <2>1. Auth!Refuse(c, "401")
      BY <1>1, <1>2, <1>10
    <2> QED
      BY <1>2, <1>6, <1>8, <2>1, RefusalStep
  <1>11. CASE q.header # "none" /\ ~(q.header = "malformed" \/ ~policy)
    <2>1. Auth!Asks(c)
      BY <1>1, <1>2, <1>11
    <2> QED
      BY <1>2, <1>3, <1>6, <1>7, <1>8, <2>1, AskKeyStep
  <1> QED
    BY <1>9, <1>10, <1>11

(* ApiKeyGuard: its routes take keys alone. *)
LEMMA LegacyStep ==
    ASSUME AuthInv, NEW c \in AuthRequests, Auth!LegacyGuard(c)
    PROVE  AuthInv'
  <1>1. PICK q : q = request[c]
    OBVIOUS
  <1>2. /\ q.at = "guard" /\ q.route.legacy /\ Auth!Kept /\ mishaps' = mishaps
        /\ IF q.header \in {"none", "malformed"} \/ ~policy THEN Auth!Refuse(c, "403")
           ELSE Auth!Asks(c)
    BY <1>1 DEF Auth!LegacyGuard
  <1>3. q.route \in GuardedRoutes /\ mishaps \in Nat
    BY <1>1, <1>2, AskedOf DEF OpenStages
  <1>4. /\ UNCHANGED <<boot, registered, policy, account, apiKey, clock, sawAccount, sawKey>>
        /\ LimiterOK'
    BY <1>2, KeptIs
  <1>5. Meanwhile(c) /\ LimiterOK'
    BY <1>1, <1>2, <1>3, <1>4 DEF Meanwhile, OpenStages
  <1>6. q.route.kinds = {"machine"}
    BY <1>2, <1>3, AuthAssumption
  <1>7. ~Logs(q, Auth!LoginStrategies) /\ "machine" \in q.route.kinds
    BY <1>6 DEF Logs
  <1>8. CASE q.header \in {"none", "malformed"} \/ ~policy
    <2>1. Auth!Refuse(c, "403")
      BY <1>2, <1>8
    <2> QED
      BY <1>1, <1>5, <1>7, <2>1, RefusalStep
  <1>9. CASE ~(q.header \in {"none", "malformed"} \/ ~policy)
    <2>1. Auth!Asks(c)
      BY <1>2, <1>9
    <2> QED
      BY <1>1, <1>2, <1>5, <1>7, <2>1, AskKeyStep
  <1> QED
    BY <1>8, <1>9

(* The key that was found is the one the request saw, usable when it was asked for. *)
LEMMA LookupStep ==
    ASSUME AuthInv, NEW c \in AuthRequests, Auth!LookupKey(c)
    PROVE  AuthInv'
  <1>1. PICK q : q = request[c]
    OBVIOUS
  <1>2. /\ q.at = "lookup" /\ Auth!Kept /\ mishaps' = mishaps
        /\ IF q.header = "known" /\ Auth!Usable(apiKey, q.asked)
           THEN Auth!Set(c, [q EXCEPT !.at = "limit", !.row = {apiKey}])
           ELSE Auth!Refuse(c, IF q.route.legacy THEN "403" ELSE "401")
    BY <1>1 DEF Auth!LookupKey
  <1>3. /\ Asked(q, Auth!LoginStrategies, policy, sawAccount[c], sawKey[c], mishaps)
        /\ mishaps \in Nat /\ InFull(q) /\ [row |-> apiKey, now |-> clock] \in sawKey[c]
    BY <1>1, <1>2, AskedOf DEF OpenStages
  <1>4. /\ UNCHANGED <<boot, registered, policy, account, apiKey, clock, sawAccount, sawKey>>
        /\ LimiterOK'
    BY <1>2, KeptIs
  <1>5. Meanwhile(c) /\ LimiterOK'
    BY <1>1, <1>2, <1>3, <1>4 DEF Meanwhile, OpenStages
  <1>6. ~Logs(q, Auth!LoginStrategies) /\ "machine" \in q.route.kinds
    BY <1>2, <1>3 DEF Asked
  <1>7. CASE q.header = "known" /\ Auth!Usable(apiKey, q.asked)
    <2>1. PICK next : next = [q EXCEPT !.at = "limit", !.row = {apiKey}]
      OBVIOUS
    <2>2. next = [at |-> "limit", tried |-> q.tried, asked |-> q.asked, row |-> {apiKey},
                  who |-> q.who, route |-> q.route, token |-> q.token, header |-> q.header]
      BY <1>3, <2>1, Looked
    <2>3. /\ InFull(next) /\ next.at = "limit" /\ next.token = q.token /\ next.route = q.route
          /\ next.row = {apiKey} /\ next.asked = q.asked
      BY <2>2 DEF InFull
    <2>4. PICK z \in sawKey[c] : z.now = q.asked
      BY <1>2, <1>3 DEF Asked
    <2>5. PICK y \in sawKey[c] : y.row = apiKey
      BY <1>3
    <2>6. \A x \in next.row : \E yy \in sawKey[c], zz \in sawKey[c] :
              yy.row = x /\ Auth!Usable(x, zz.now)
      BY <1>7, <2>3, <2>4, <2>5
    <2>7. ~Logs(next, Auth!LoginStrategies)
      BY <1>6, <2>3 DEF Logs
    <2>8. Asked(next, Auth!LoginStrategies, policy, sawAccount[c], sawKey[c], mishaps')
      BY <1>3, <1>6, <2>3, <2>4, <2>6, <2>7 DEF Asked, OpenStages
    <2>9. Auth!Set(c, next)
      BY <1>2, <1>7, <2>1
    <2> QED
      BY <1>1, <1>5, <2>3, <2>8, <2>9, OnwardStep
  <1>8. CASE ~(q.header = "known" /\ Auth!Usable(apiKey, q.asked))
    <2>1. PICK status \in {"401", "403", "429"} : Auth!Refuse(c, status)
      BY <1>2, <1>8
    <2> QED
      BY <1>1, <1>5, <1>6, <2>1, RefusalStep
  <1> QED
    BY <1>7, <1>8

(* ApiKeyRateLimiter.check: the first call of a window, the next one, or one too many. *)
LEMMA LimiterStep ==
    ASSUME AuthInv, clock' = clock, window' = Auth!Checked,
           passes' = IF Auth!Allowed(Auth!Checked) THEN Append(passes, clock) ELSE passes
    PROVE  LimiterOK'
  <1>1. PICK L : L = Auth!Most
    OBVIOUS
  <1>2. /\ L \in Nat \ {0} /\ KeyWindow \in Nat \ {0} /\ KeyLimit \in Nat /\ clock \in Nat
        /\ KeyLimit > 1 => L = KeyLimit
    BY <1>1, AuthAssumption DEF Auth!Most, AuthInv, AuthTypeOK
  <1>3. /\ \A b : WindowedBy(passes, b, clock, L, KeyWindow) => passes \in Seq(Nat)
        /\ passes \in Seq(Nat) => Append(passes, clock) = passes \o <<clock>>
    BY <1>2 DEF WindowedBy, InOrder
  <1>4. Auth!Most' = Auth!Most
    BY DEF Auth!Most
  <1>5. ASSUME NEW b, WindowedBy(passes, b, clock, L, KeyWindow),
               b.count = 0 \/ clock - b.start >= KeyWindow,
               Auth!Checked = {Auth!NewBucket}
        PROVE  LimiterOK'
    <2>1. PICK first : first = [count |-> 1, start |-> clock]
      OBVIOUS
    <2>2. first.count = 1
      BY <2>1
    <2>3. window' = {first} /\ Auth!Allowed(Auth!Checked)
      BY <1>5, <2>1, <2>2 DEF Auth!NewBucket, Auth!Allowed
    <2>4. passes' = passes \o <<clock>>
      BY <1>3, <1>5, <2>3
    <2>5. WindowedBy(passes \o <<clock>>, first, clock, L, KeyWindow)
      BY <1>2, <1>5, <2>1, FirstOfWindow
    <2>6. WindowedBy(passes', first, clock', Auth!Most', KeyWindow)
      BY <1>1, <1>4, <2>4, <2>5
    <2> QED
      BY <2>2, <2>3, <2>6 DEF LimiterOK
  <1>6. CASE window = {} /\ WindowedBy(passes, [count |-> 0, start |-> 0], clock, L, KeyWindow)
    <2>1. Auth!Checked = {Auth!NewBucket}
      BY <1>6 DEF Auth!Checked
    <2>2. PICK b : b = [count |-> 0, start |-> 0]
      OBVIOUS
    <2>3. WindowedBy(passes, b, clock, L, KeyWindow) /\ b.count = 0
      BY <1>6, <2>2
    <2> QED
      BY <1>5, <2>1, <2>3
  <1>7. ASSUME NEW b \in window, window = {b}, b.count > 0,
               WindowedBy(passes, b, clock, L, KeyWindow)
        PROVE  LimiterOK'
    <2>1. CASE Auth!Stale(b)
      <3>1. Auth!Checked = {Auth!NewBucket}
        BY <1>7, <2>1 DEF Auth!Checked
      <3>2. clock - b.start >= KeyWindow
        BY <2>1 DEF Auth!Stale
      <3> QED
        BY <1>5, <1>7, <3>1, <3>2
    <2>2. CASE ~Auth!Stale(b)
      <3>1. PICK more : more = [b EXCEPT !.count = @ + 1]
        OBVIOUS
      <3>2. Auth!Checked = {more}
        BY <1>7, <2>2, <3>1 DEF Auth!Checked
      <3>3. more.count = b.count + 1 /\ b.count \in Nat
        BY <1>7, <3>1 DEF WindowedBy, Bucket
      <3>4. CASE more.count <= KeyLimit
        <4>1. Auth!Allowed(Auth!Checked)
          BY <3>2, <3>4 DEF Auth!Allowed
        <4>2. passes' = passes \o <<clock>>
          BY <1>3, <1>7, <4>1
        <4>3. b.count + 1 <= L
          BY <1>2, <1>7, <3>3, <3>4
        <4>4. WindowedBy(passes \o <<clock>>, more, clock, L, KeyWindow)
          BY <1>2, <1>7, <3>1, <4>3, NextOfWindow
        <4>5. WindowedBy(passes', more, clock', Auth!Most', KeyWindow)
          BY <1>1, <1>4, <4>2, <4>4
        <4> QED
          BY <1>7, <3>2, <3>3, <4>5 DEF LimiterOK
      <3>5. CASE ~(more.count <= KeyLimit)
        <4>1. ~Auth!Allowed(Auth!Checked)
          BY <1>2, <1>7, <3>2, <3>3, <3>5 DEF Auth!Allowed
        <4>2. WindowedBy(passes, more, clock, L, KeyWindow)
          BY <1>2, <1>7, <3>1, RefusedCall
        <4>3. WindowedBy(passes', more, clock', Auth!Most', KeyWindow)
          BY <1>1, <1>4, <4>1, <4>2
        <4> QED
          BY <1>7, <3>2, <3>3, <4>3 DEF LimiterOK
      <3> QED
        BY <3>4, <3>5
    <2> QED
      BY <2>1, <2>2
  <1> QED
    BY <1>1, <1>6, <1>7 DEF AuthInv, LimiterOK

(* The key's principal, or one call too many. *)
LEMMA LimitedStep ==
    ASSUME AuthInv, NEW c \in AuthRequests, Auth!Limited(c)
    PROVE  AuthInv'
  <1>1. PICK q : q = request[c]
    OBVIOUS
  <1>2. /\ q.at = "limit" /\ window' = Auth!Checked /\ mishaps' = mishaps
        /\ UNCHANGED <<boot, registered, policy, account, apiKey, clock, sawAccount, sawKey>>
        /\ passes' = IF Auth!Allowed(Auth!Checked) THEN Append(passes, clock) ELSE passes
    BY <1>1 DEF Auth!Limited, Auth!world
  <1>3. \/ \E x \in q.row :
               Auth!Serve(c, [kind |-> "machine", roles |-> {x.role}, scopes |-> x.scopes,
                              actor |-> IF x.actor = "active" THEN "bound" ELSE "none"])
        \/ Auth!Refuse(c, "429")
    BY <1>1 DEF Auth!Limited
  <1>4. /\ Asked(q, Auth!LoginStrategies, policy, sawAccount[c], sawKey[c], mishaps)
        /\ mishaps \in Nat
    BY <1>1, <1>2, AskedOf DEF OpenStages
  <1>5. LimiterOK'
    BY <1>2, LimiterStep
  <1>6. Meanwhile(c)
    BY <1>1, <1>2, <1>4 DEF Meanwhile, OpenStages
  <1>7. /\ ~Logs(q, Auth!LoginStrategies) /\ "machine" \in q.route.kinds
        /\ \A x \in q.row : \E y \in sawKey[c], z \in sawKey[c] :
               y.row = x /\ Auth!Usable(x, z.now)
    BY <1>2, <1>4 DEF Asked
  <1>8. CASE Auth!Refuse(c, "429")
    BY <1>1, <1>5, <1>6, <1>7, <1>8, RefusalStep
  <1>9. ASSUME NEW x \in q.row, NEW who,
               who = [kind |-> "machine", roles |-> {x.role}, scopes |-> x.scopes,
                      actor |-> IF x.actor = "active" THEN "bound" ELSE "none"],
               Auth!Serve(c, who)
        PROVE  AuthInv'
    <2>1. who.kind = "machine" /\ who.roles = {x.role} /\ who.scopes = x.scopes
      BY <1>9
    <2>2. PICK y \in sawKey[c], z \in sawKey[c] : y.row = x /\ Auth!Usable(x, z.now)
      BY <1>7, <1>9
    <2>3. \E u \in sawKey[c], v \in sawKey[c] :
              Auth!Usable(u.row, v.now) /\ who.roles = {u.row.role} /\ who.scopes = u.row.scopes
      BY <2>1, <2>2
    <2>4. Auth!Authorised(who, q.route)
              => ServedFor(who, q, Auth!LoginStrategies, sawAccount[c], sawKey[c])
      BY <1>7, <2>1, <2>3 DEF ServedFor
    <2> QED
      BY <1>1, <1>5, <1>6, <1>7, <1>9, <2>4, ServeStep
  <1> QED
    BY <1>3, <1>8, <1>9

(* A request that arrives, or is answered: nothing is known yet. *)
LEMMA SwapStep ==
    ASSUME AuthInv, NEW c \in AuthRequests,
           UNCHANGED <<boot, registered, policy, account, apiKey, clock, mishaps, window, passes>>,
           NEW next, NEW accts, NEW held, Auth!Set(c, next),
           sawAccount' = [sawAccount EXCEPT ![c] = accts],
           sawKey' = [sawKey EXCEPT ![c] = held],
           \/ next = Auth!Idle
           \/ /\ boot = "up" /\ account \in accts /\ [row |-> apiKey, now |-> clock] \in held
              /\ Asked(next, Auth!LoginStrategies, policy, accts, held, mishaps)
    PROVE  AuthInv'
  <1>1. /\ AuthTypeOK
        /\ request' = [q \in AuthRequests |-> IF q = c THEN next ELSE request[q]]
        /\ sawAccount' = [q \in AuthRequests |-> IF q = c THEN accts ELSE sawAccount[q]]
        /\ sawKey' = [q \in AuthRequests |-> IF q = c THEN held ELSE sawKey[q]]
    BY DEF AuthInv, AuthTypeOK, Auth!Set
  <1>2. AuthTypeOK'
    BY <1>1 DEF AuthTypeOK
  <1>3. StrategiesOK'
    BY DEF AuthInv, StrategiesOK
  <1>4. LimiterOK'
    BY LimiterStays DEF LimiterKept
  <1>5. Auth!LoginStrategies' = Auth!LoginStrategies /\ Auth!Idle' = Auth!Idle
    BY DEF Auth!LoginStrategies, Auth!Idle
  <1>6. ASSUME NEW q \in AuthRequests
        PROVE  \/ request'[q] = Auth!Idle
               \/ /\ boot = "up"
                  /\ request'[q].at \in OpenStages =>
                        account \in sawAccount'[q] /\ [row |-> apiKey, now |-> clock] \in sawKey'[q]
                  /\ Asked(request'[q], Auth!LoginStrategies, policy, sawAccount'[q], sawKey'[q],
                           mishaps)
    <2>1. CASE q = c
      <3>1. request'[q] = next /\ sawAccount'[q] = accts /\ sawKey'[q] = held
        BY <1>1, <2>1
      <3> QED
        BY <3>1
    <2>2. CASE q # c
      <3>1. request'[q] = request[q] /\ sawAccount'[q] = sawAccount[q] /\ sawKey'[q] = sawKey[q]
        BY <1>1, <2>2
      <3> QED
        BY <3>1 DEF AuthInv, AskedOK
    <2> QED
      BY <2>1, <2>2
  <1>7. AskedOK'
    BY <1>5, <1>6 DEF AskedOK
  <1> QED
    BY <1>2, <1>3, <1>4, <1>7 DEF AuthInv

LEMMA ArrivalStep ==
    ASSUME AuthInv, NEW c \in AuthRequests, NEW route \in GuardedRoutes,
           NEW cred, Auth!Arrive(c, route, cred)
    PROVE  AuthInv'
  <1>1. PICK next : next = [at |-> "guard", tried |-> {}, asked |-> 0, row |-> {},
                            who |-> Auth!NoOne, route |-> route, token |-> cred[1],
                            header |-> cred[2]]
    OBVIOUS
  <1>2. /\ boot = "up" /\ Auth!Set(c, next)
        /\ sawAccount' = [sawAccount EXCEPT ![c] = {account}]
        /\ sawKey' = [sawKey EXCEPT ![c] = {[row |-> apiKey, now |-> clock]}]
        /\ UNCHANGED <<boot, registered, policy, account, apiKey, clock, mishaps, window, passes>>
    BY <1>1 DEF Auth!Arrive
  <1>3. InFull(next) /\ next.at = "guard" /\ next.tried = {} /\ next.route \in GuardedRoutes
    BY <1>1 DEF InFull
  <1>4. Asked(next, Auth!LoginStrategies, policy, {account}, {[row |-> apiKey, now |-> clock]},
              mishaps)
    BY <1>3 DEF Asked, OpenStages
  <1> QED
    BY <1>2, <1>4, SwapStep

LEMMA SentStep ==
    ASSUME AuthInv, NEW c \in AuthRequests, Auth!Answered(c)
    PROVE  AuthInv'
  <1>1. /\ Auth!Set(c, Auth!Idle)
        /\ sawAccount' = [sawAccount EXCEPT ![c] = {}] /\ sawKey' = [sawKey EXCEPT ![c] = {}]
        /\ UNCHANGED <<boot, registered, policy, account, apiKey, clock, mishaps, window, passes>>
    BY DEF Auth!Answered
  <1> QED
    BY <1>1, SwapStep

(* Strategies are registered before any request: a second name or a second login fails. *)
LEMMA BootStep ==
    ASSUME AuthInv, (\E m \in modules : Auth!Register(m)) \/ Auth!Listen
    PROVE  AuthInv'
  <1>1. /\ boot = "registering"
        /\ UNCHANGED <<policy, account, apiKey, clock, window, request, mishaps, sawAccount,
                       sawKey, passes>>
    BY DEF Auth!Register, Auth!Listen
  <1>2. AuthTypeOK'
    BY <1>1 DEF AuthInv, AuthTypeOK
  <1>3. LimiterOK'
    BY <1>1, LimiterStays DEF LimiterKept
  <1>4. Auth!Idle' = Auth!Idle
    BY DEF Auth!Idle
  <1>5. AskedOK'
    BY <1>1, <1>4 DEF AuthInv, AskedOK
  <1>6. CASE registered' = registered
    BY <1>2, <1>3, <1>5, <1>6 DEF AuthInv, StrategiesOK
  <1>7. CASE registered' # registered
    <2>1. PICK m \in modules : Auth!Register(m)
      BY <1>7 DEF Auth!Listen
    <2>2. PICK x : x = Auth!Strategy(m)
      OBVIOUS
    <2>3. /\ x.id = m.id /\ x.kind = m.kind
          /\ registered' = registered \cup {x} /\ ~Auth!Named(m.id) /\ ~Auth!SecondLogin(m)
      BY <1>7, <2>1, <2>2 DEF Auth!Register, Auth!Strategy
    <2>4. \A y \in registered : y.id # x.id
      BY <2>3 DEF Auth!Named
    <2>5. x.kind = "interactive" => \A y \in registered : y.kind # "interactive"
      BY <2>3 DEF Auth!SecondLogin
    <2>6. StrategiesOK'
      BY <2>3, <2>4, <2>5 DEF AuthInv, StrategiesOK
    <2> QED
      BY <1>2, <1>3, <1>5, <2>6 DEF AuthInv
  <1> QED
    BY <1>6, <1>7

(* The limiter forgets a bucket two windows old. *)
LEMMA ForgetStep ==
    ASSUME AuthInv, Auth!Evict
    PROVE  AuthInv'
  <1>1. /\ window' = {} /\ \E b \in window : clock - b.start >= 2 * KeyWindow
        /\ UNCHANGED <<boot, registered, policy, account, apiKey, clock, request, mishaps,
                       sawAccount, sawKey, passes>>
    BY DEF Auth!Evict, Auth!world
  <1>2. Auth!Most \in Nat \ {0} /\ KeyWindow \in Nat \ {0} /\ clock \in Nat
    BY AuthAssumption DEF Auth!Most, AuthInv, AuthTypeOK
  <1>3. PICK b \in window : /\ clock - b.start >= 2 * KeyWindow
                            /\ WindowedBy(passes, b, clock, Auth!Most, KeyWindow)
    BY <1>1 DEF AuthInv, LimiterOK
  <1>4. WindowedBy(passes, [count |-> 0, start |-> 0], clock, Auth!Most, KeyWindow)
    BY <1>2, <1>3, EvictedBucket
  <1>5. Auth!Most' = Auth!Most /\ Auth!Idle' = Auth!Idle
    BY DEF Auth!Most, Auth!Idle
  <1>6. LimiterOK'
    BY <1>1, <1>4, <1>5 DEF LimiterOK
  <1>7. AuthTypeOK' /\ StrategiesOK'
    BY <1>1 DEF AuthInv, AuthTypeOK, StrategiesOK
  <1>8. Auth!LoginStrategies' = Auth!LoginStrategies
    BY <1>1 DEF Auth!LoginStrategies
  <1>9. AskedOK'
    BY <1>1, <1>5, <1>8 DEF AuthInv, AskedOK
  <1> QED
    BY <1>6, <1>7, <1>9 DEF AuthInv

(* A change of the account or the key, or time: the requests under way overlap it. *)
LEMMA OverlapStep ==
    ASSUME AuthInv, NEW a, NEW x, NEW t \in Nat,
           account' = a, apiKey' = x, clock' = t, Auth!Witness(a, x, t), LimiterOK',
           UNCHANGED <<boot, registered, policy, request, mishaps>>
    PROVE  AuthInv'
  <1>1. /\ AuthTypeOK
        /\ \A q \in AuthRequests : Auth!Open(q) <=> request[q].at \notin {"idle"} \cup ClosedStages
    BY DEF AuthInv, Auth!Open, ClosedStages
  <1>2. /\ sawAccount' = [q \in AuthRequests |-> IF Auth!Open(q) THEN sawAccount[q] \cup {a}
                                                 ELSE sawAccount[q]]
        /\ sawKey' = [q \in AuthRequests |->
                         IF Auth!Open(q) THEN sawKey[q] \cup {[row |-> x, now |-> t]}
                         ELSE sawKey[q]]
    BY DEF Auth!Witness
  <1> HIDE DEF Auth!Open
  <1>3. AuthTypeOK'
    BY <1>1, <1>2 DEF AuthTypeOK
  <1>4. StrategiesOK'
    BY DEF AuthInv, StrategiesOK
  <1>5. Auth!LoginStrategies' = Auth!LoginStrategies /\ Auth!Idle' = Auth!Idle
    BY DEF Auth!LoginStrategies, Auth!Idle
  <1>6. ASSUME NEW q \in AuthRequests
        PROVE  \/ request[q] = Auth!Idle
               \/ /\ boot = "up"
                  /\ request[q].at \in OpenStages =>
                        a \in sawAccount'[q] /\ [row |-> x, now |-> t] \in sawKey'[q]
                  /\ Asked(request[q], Auth!LoginStrategies, policy, sawAccount'[q], sawKey'[q],
                           mishaps)
    <2> SUFFICES ASSUME request[q] # Auth!Idle
                 PROVE  /\ boot = "up"
                        /\ request[q].at \in OpenStages =>
                              a \in sawAccount'[q] /\ [row |-> x, now |-> t] \in sawKey'[q]
                        /\ Asked(request[q], Auth!LoginStrategies, policy, sawAccount'[q],
                                 sawKey'[q], mishaps)
      OBVIOUS
    <2>1. /\ boot = "up" /\ mishaps \in Nat
          /\ Asked(request[q], Auth!LoginStrategies, policy, sawAccount[q], sawKey[q], mishaps)
      BY <1>1 DEF AuthInv, AuthTypeOK, AskedOK
    <2>2. sawAccount[q] \subseteq sawAccount'[q] /\ sawKey[q] \subseteq sawKey'[q]
      BY <1>2
    <2>3. Asked(request[q], Auth!LoginStrategies, policy, sawAccount'[q], sawKey'[q], mishaps)
      BY <2>1, <2>2, AskedStays
    <2>4. ASSUME request[q].at \in OpenStages
          PROVE  a \in sawAccount'[q] /\ [row |-> x, now |-> t] \in sawKey'[q]
      <3>1. Auth!Open(q)
        BY <1>1, <2>4 DEF OpenStages, ClosedStages
      <3> QED
        BY <1>2, <3>1
    <2> QED
      BY <2>1, <2>3, <2>4
  <1>7. AskedOK'
    BY <1>5, <1>6 DEF AskedOK
  <1> QED
    BY <1>3, <1>4, <1>7 DEF AuthInv

LEMMA WorldStep ==
    ASSUME AuthInv, Auth!ChangeAccount \/ Auth!ChangeKey \/ Auth!Tick
    PROVE  AuthInv'
  <1>1. clock \in Nat /\ Auth!Most' = Auth!Most
    BY DEF AuthInv, AuthTypeOK, Auth!Most
  <1>2. UNCHANGED <<boot, registered, policy, request, mishaps, window, passes>>
    BY DEF Auth!ChangeAccount, Auth!ChangeKey, Auth!Tick
  <1>3. PICK a, x, t : a = account' /\ x = apiKey' /\ t = clock'
    OBVIOUS
  <1>4. CASE clock' = clock
    <2>1. Auth!Witness(a, x, t)
      BY <1>1, <1>3, <1>4 DEF Auth!ChangeAccount, Auth!ChangeKey, Auth!Tick
    <2>2. LimiterOK'
      BY <1>2, <1>4, LimiterStays DEF LimiterKept
    <2> QED
      BY <1>1, <1>2, <1>3, <1>4, <2>1, <2>2, OverlapStep
  <1>5. CASE clock' # clock
    <2>1. Auth!Witness(a, x, t) /\ t = clock + 1
      BY <1>3, <1>5 DEF Auth!ChangeAccount, Auth!ChangeKey, Auth!Tick
    <2>2. Auth!Most \in Nat \ {0} /\ KeyWindow \in Nat \ {0}
      BY AuthAssumption DEF Auth!Most
    <2>3. \A b : WindowedBy(passes, b, clock, Auth!Most, KeyWindow)
                     => WindowedBy(passes, b, clock + 1, Auth!Most, KeyWindow)
      BY <1>1, <2>2, LaterWindows
    <2>4. LimiterOK'
      BY <1>1, <1>2, <1>3, <2>1, <2>3 DEF AuthInv, LimiterOK
    <2> QED
      BY <1>1, <1>2, <1>3, <2>1, <2>4, OverlapStep
  <1> QED
    BY <1>4, <1>5

LEMMA AuthStep ==
    ASSUME AuthInv, Auth!Next \/ UNCHANGED <<requestVars, request, commonVars>>
    PROVE  AuthInv'
  <1>1. ASSUME NEW c \in AuthRequests, Auth!Step(c) PROVE AuthInv'
    BY <1>1, ExhaustedStep, TryLoginStep, CheckTokenStep, AccountReadStep, RolesStep, TryKeyStep,
       LegacyStep, LookupStep, LimitedStep, SentStep, ArrivalStep DEF Auth!Step
  <1>2. ASSUME UNCHANGED <<requestVars, request, commonVars>> PROVE AuthInv'
    <2>1. UNCHANGED <<boot, registered, policy, account, apiKey, clock, window, request, mishaps,
                      sawAccount, sawKey, passes>>
      BY <1>2 DEF requestVars, commonVars
    <2>2. LimiterOK'
      BY <2>1, LimiterStays DEF LimiterKept
    <2>3. AuthTypeOK' /\ StrategiesOK'
      BY <2>1 DEF AuthInv, AuthTypeOK, StrategiesOK
    <2>4. Auth!LoginStrategies' = Auth!LoginStrategies /\ Auth!Idle' = Auth!Idle
      BY <2>1 DEF Auth!LoginStrategies, Auth!Idle
    <2>5. AskedOK'
      BY <2>1, <2>4 DEF AuthInv, AskedOK
    <2> QED
      BY <2>2, <2>3, <2>5 DEF AuthInv
  <1> QED
    BY <1>1, <1>2, BootStep, ForgetStep, WorldStep DEF Auth!Next

LEMMA AuthStart == Auth!Init => AuthInv
  <1> SUFFICES ASSUME Auth!Init PROVE AuthInv
    OBVIOUS
  <1>1. /\ registered = {} /\ clock = 0 /\ window = {} /\ mishaps = 0 /\ passes = << >>
        /\ request = [q \in AuthRequests |-> Auth!Idle]
        /\ sawAccount = [q \in AuthRequests |-> {}] /\ sawKey = [q \in AuthRequests |-> {}]
    BY DEF Auth!Init
  <1>2. AuthTypeOK /\ StrategiesOK /\ AskedOK
    BY <1>1 DEF AuthTypeOK, StrategiesOK, AskedOK
  <1>3. Auth!Most \in Nat \ {0} /\ KeyWindow \in Nat \ {0}
    BY AuthAssumption DEF Auth!Most
  <1>4. /\ InOrder(passes, clock) /\ Spaced(passes, Auth!Most, KeyWindow)
        /\ Rested(passes, clock, Auth!Most, KeyWindow)
    BY <1>1, <1>3 DEF InOrder, Spaced, Rested
  <1>5. LimiterOK
    BY <1>1, <1>4 DEF LimiterOK, WindowedBy, Bucket
  <1> QED
    BY <1>2, <1>5 DEF AuthInv

(* What the invariant says of the answers. *)
LEMMA AuthTells == AuthInv => Auth!AnswersRightly
  <1> SUFFICES ASSUME AuthInv PROVE Auth!AnswersRightly
    OBVIOUS
  <1>1. Auth!OneLogin
    <2>1. \A x \in Auth!LoginStrategies : \A y \in Auth!LoginStrategies : x = y
      BY DEF AuthInv, StrategiesOK, Auth!LoginStrategies
    <2>2. Cardinality(Auth!LoginStrategies) <= 1
      <3>1. CASE Auth!LoginStrategies = {}
        BY <3>1, FS_EmptySet
      <3>2. CASE Auth!LoginStrategies # {}
        <4>1. PICK x : Auth!LoginStrategies = {x}
          BY <2>1, <3>2
        <4>2. Cardinality({x}) = 1
          BY FS_Singleton
        <4> QED
          BY <4>1, <4>2
      <3> QED
        BY <3>1, <3>2
    <2>3. Auth!Cardinality(Auth!LoginStrategies) <= 1
      BY <2>2 DEF Auth!Cardinality, Cardinality
    <2> QED
      BY <2>3 DEF Auth!OneLogin, AuthInv, StrategiesOK
  <1>2. ASSUME NEW q \in AuthRequests, request[q].at \in ClosedStages
        PROVE  /\ request[q].at = "served" =>
                     ServedFor(request[q].who, request[q], Auth!LoginStrategies, sawAccount[q],
                               sawKey[q])
               /\ (request[q].at \in {"401", "403"} /\ request[q].token = "good"
                   /\ Logs(request[q], Auth!LoginStrategies))
                     => CauseFor(request[q], policy, sawAccount[q], mishaps)
    <2>1. Asked(request[q], Auth!LoginStrategies, policy, sawAccount[q], sawKey[q], mishaps)
      BY <1>2, AskedOf
    <2> QED
      BY <2>1 DEF Asked
  <1>3. Auth!ServedRightly
    <2>1. ASSUME NEW q \in AuthRequests, request[q].at = "served"
          PROVE  /\ ServedFor(request[q].who, request[q], Auth!LoginStrategies, sawAccount[q],
                              sawKey[q])
                 /\ Auth!Presented(request[q]) <=> Logs(request[q], Auth!LoginStrategies)
      BY <1>2, <2>1, PresentedIs DEF ClosedStages
    <2> QED
      BY <2>1 DEF Auth!ServedRightly, ServedFor
  <1>4. Auth!RefusedForCause
    <2>1. ASSUME NEW q \in AuthRequests, request[q].at \in {"401", "403"},
                 request[q].token = "good", Auth!Presented(request[q])
          PROVE  CauseFor(request[q], policy, sawAccount[q], mishaps)
      BY <1>2, <2>1, PresentedIs DEF ClosedStages
    <2> QED
      BY <2>1 DEF Auth!RefusedForCause, CauseFor
  <1>5. Auth!LimitHolds
    <2>1. PICK b : WindowedBy(passes, b, clock, Auth!Most, KeyWindow)
      BY DEF AuthInv, LimiterOK
    <2>2. /\ Auth!Most \in Nat \ {0} /\ KeyWindow \in Nat \ {0} /\ clock \in Nat
      BY AuthAssumption DEF Auth!Most, AuthInv, AuthTypeOK
    <2>3. DOMAIN passes = 1..Len(passes)
      BY <2>1 DEF WindowedBy, InOrder
    <2>4. ASSUME NEW i \in DOMAIN passes
          PROVE  Auth!Cardinality({j \in DOMAIN passes :
                                      passes[j] \in passes[i]..(passes[i] + KeyWindow - 1)})
                     < 2 * Auth!Most
      <3>1. Cardinality({j \in 1..Len(passes) :
                            passes[j] \in passes[i]..(passes[i] + KeyWindow - 1)})
                < 2 * Auth!Most
        BY <2>1, <2>2, <2>3, WindowBound
      <3> QED
        BY <2>3, <3>1 DEF Auth!Cardinality, Cardinality
    <2> QED
      BY <2>4 DEF Auth!LimitHolds
  <1> QED
    BY <1>1, <1>3, <1>4, <1>5 DEF Auth!AnswersRightly

--------------------------------------------------------------------------------
(* Endpoints that accept exchanged tokens *)

Stages == {"jwks", "find", "create", "reread", "account", "roles", "served", "401"}
AccountRow == [id : Nat \ {0}, active : BOOLEAN]
LogBucket == [count : Nat, suppressed : Nat, start : Nat]
DelegatedRequest ==
    [at : Stages, by : DOMAIN profiles, token : ExchangedTokens, user : Nat, good : BOOLEAN]

DelegatedTypeOK ==
    /\ clock \in Nat /\ mishaps \in Nat /\ nextId \in Nat \ {0}
    /\ accounts = [e \in DOMAIN accounts |-> accounts[e]]
    /\ \A e \in DOMAIN accounts : accounts[e] \in AccountRow
    /\ request \in [Twins -> {Delegated!Idle} \cup DelegatedRequest]
    /\ saw = [q \in Twins |-> saw[q]]

(* A configuration that boot accepted. *)
ProfilesOK ==
    \A n \in DOMAIN profiles :
        /\ profiles[n].provisioning \in {"never", "jit"}
        /\ Delegated!InNamespace(profiles[n])
        /\ profiles[n].maxAge \in Int /\ profiles[n].tolerance \in Int
        /\ {<<n, "identity_mapping_failed">>, <<n, "token_rejected">>, <<n, "internal_error">>}
               \subseteq Delegated!LogKeys

(* The claims that no clock changes, and those that one does. *)
Timeless(t, p) ==
    /\ t.signed /\ t.issuer = p.issuer
    /\ Delegated!AccessTokenType(t) /\ Delegated!Audience(t, p) /\ Delegated!Client(t, p)
    /\ t.sub /\ Delegated!ScopesGranted(t, p)
    /\ t.exp > t.iat /\ t.exp - t.iat <= p.maxAge + p.tolerance
InTime(t, p, at) ==
    at < t.exp + p.tolerance /\ t.iat <= at + p.tolerance /\ at <= t.iat + p.maxAge + p.tolerance

(* What excuses a refusal: a fault, or an account that was off or removed meanwhile. *)
Excused(seen, f) == f > 0 \/ \E u \in seen : u.id # 0 /\ ~u.active

(* A request "q" under profile "p" between two awaits: what it could find, "seen", holds every
   state its account had since, so whatever it took from the account is there. *)
Known(q, p, seen, held, f, at) ==
    LET e == q.token.email IN
    /\ q.token.bearer
    /\ e \in DOMAIN held => held[e] \in seen
    /\ q.at \in {"find", "create", "reread", "account", "roles", "served"} => q.token.verified
    /\ q.at \in {"create", "reread"} => p.provisioning = "jit"
    /\ q.at \in {"account", "roles", "served"} => \E u \in seen : u.active /\ u.id = q.user
    /\ q.at = "reread" => e \in DOMAIN held \/ Excused(seen, f)
    /\ q.at = "account" => \/ e \in DOMAIN held /\ held[e].active /\ held[e].id = q.user
                           \/ Excused(seen, f)
    /\ q.good => q.token.iat <= at + p.tolerance
    /\ /\ q.at = "401" /\ q.token.kid /\ q.token.verified /\ e # "none"
       /\ p.provisioning = "jit" /\ q.good /\ Timeless(q.token, p) /\ InTime(q.token, p, at)
       => Excused(seen, f)
RequestsOK ==
    \A q \in Twins : request[q].at # "idle" =>
        Known(request[q], profiles[request[q].by], saw[q], accounts, mishaps, clock)
CreatorsOK ==
    \A c \in creators : c[2] \in DOMAIN profiles /\ profiles[c[2]].provisioning = "jit"

(* Every rejection has its line, is in the sum of one, or waits in a bucket. *)
BucketsOK ==
    /\ log = [b \in DOMAIN log |-> log[b]] /\ DOMAIN log \subseteq Delegated!LogKeys
    /\ \A b \in DOMAIN log : log[b] \in LogBucket
    /\ rejected \in [Delegated!LogKeys -> Nat] /\ lines \in [Delegated!LogKeys -> Nat]
    /\ Delegated!RejectionsTold

DelegatedInv == DelegatedTypeOK /\ ProfilesOK /\ RequestsOK /\ CreatorsOK /\ BucketsOK

(* A token is accepted for its claims and its times. *)
LEMMA AcceptedIs ==
    ASSUME NEW t, NEW p
    PROVE  Delegated!Accepted(t, p) <=> Timeless(t, p) /\ InTime(t, p, clock)
  BY DEF Delegated!Accepted, Delegated!Signed, Delegated!Age, Timeless, InTime

(* A request is not there, or is under way or answered. *)
LEMMA RequestKind ==
    ASSUME DelegatedTypeOK, NEW q \in Twins
    PROVE  \/ request[q] = Delegated!Idle /\ request[q].at = "idle"
           \/ request[q] # Delegated!Idle /\ request[q] \in DelegatedRequest
              /\ request[q].at # "idle"
  <1>1. request[q] \in {Delegated!Idle} \cup DelegatedRequest
    BY DEF DelegatedTypeOK
  <1>2. Delegated!Idle.at = "idle"
    BY DEF Delegated!Idle
  <1>3. \A x \in DelegatedRequest : x.at # "idle"
    BY DEF DelegatedRequest, Stages
  <1> QED
    BY <1>1, <1>2, <1>3

(* A request at its next stage. *)
LEMMA Going ==
    ASSUME NEW q \in DelegatedRequest, NEW goal \in Stages
    PROVE  /\ [q EXCEPT !.at = goal] \in DelegatedRequest
           /\ [q EXCEPT !.at = goal].at = goal /\ [q EXCEPT !.at = goal].by = q.by
           /\ [q EXCEPT !.at = goal].token = q.token /\ [q EXCEPT !.at = goal].user = q.user
           /\ [q EXCEPT !.at = goal].good = q.good
  BY DEF DelegatedRequest

(* ... and for an account. *)
Reached(q, u, goal) == [q EXCEPT !.user = u, !.at = goal]
LEMMA GoingFor ==
    ASSUME NEW q \in DelegatedRequest, NEW goal \in Stages, NEW u \in Nat
    PROVE  /\ Reached(q, u, goal) \in DelegatedRequest
           /\ Reached(q, u, goal).at = goal /\ Reached(q, u, goal).user = u
           /\ Reached(q, u, goal).by = q.by /\ Reached(q, u, goal).token = q.token
           /\ Reached(q, u, goal).good = q.good
  BY DEF DelegatedRequest, Reached

(* What is known of a request stays known as time passes, faults happen and its account
   changes, if it could find every state of the account. *)
LEMMA KnownStays ==
    ASSUME NEW q \in DelegatedRequest, NEW p, p.tolerance \in Int, p.maxAge \in Int,
           NEW seen, NEW more, NEW held, NEW next, NEW f \in Nat, NEW f2 \in Nat,
           NEW at \in Nat, NEW at2 \in Nat,
           seen \subseteq more, f <= f2, at <= at2,
           q.token.email \in DOMAIN next => next[q.token.email] \in more,
           /\ q.token.email \in DOMAIN held
           /\ q.token.email \notin DOMAIN next
              \/ next[q.token.email] # held[q.token.email]
           => Excused(more, f2),
           Known(q, p, seen, held, f, at)
    PROVE  Known(q, p, more, next, f2, at2)
  <1> DEFINE e == q.token.email
  <1>1. q.token.iat \in Int /\ q.token.exp \in Int
    BY DelegationAssumption DEF DelegatedRequest
  <1>2. Excused(seen, f) => Excused(more, f2)
    BY DEF Excused
  <1>3. /\ q.token.bearer
        /\ e \in DOMAIN next => next[e] \in more
        /\ q.at \in {"find", "create", "reread", "account", "roles", "served"} => q.token.verified
        /\ q.at \in {"create", "reread"} => p.provisioning = "jit"
        /\ q.at \in {"account", "roles", "served"} => \E u \in more : u.active /\ u.id = q.user
    BY DEF Known
  <1>4. q.at = "reread" => e \in DOMAIN next \/ Excused(more, f2)
    BY <1>2 DEF Known
  <1>5. q.at = "account" => \/ e \in DOMAIN next /\ next[e].active /\ next[e].id = q.user
                            \/ Excused(more, f2)
    BY <1>2 DEF Known
  <1>6. q.good => q.token.iat <= at + p.tolerance
    BY DEF Known
  <1>7. q.good => q.token.iat <= at2 + p.tolerance
    BY <1>1, <1>6
  <1>8. q.good /\ InTime(q.token, p, at2) => InTime(q.token, p, at)
    BY <1>1, <1>6 DEF InTime
  <1>9. /\ q.at = "401" /\ q.token.kid /\ q.token.verified /\ e # "none"
        /\ p.provisioning = "jit" /\ q.good /\ Timeless(q.token, p) /\ InTime(q.token, p, at2)
        => Excused(more, f2)
    BY <1>2, <1>8 DEF Known
  <1> QED
    BY <1>3, <1>4, <1>5, <1>7, <1>9 DEF Known

(* The requests that a step does not serve. *)
LEMMA OthersKnown ==
    ASSUME DelegatedTypeOK, ProfilesOK, RequestsOK, profiles' = profiles,
           clock' \in Nat, clock <= clock', mishaps' \in Nat, mishaps <= mishaps',
           NEW q \in Twins, request'[q] = request[q], saw[q] \subseteq saw'[q],
           request[q].at # "idle" =>
               LET e == request[q].token.email IN
               /\ e \in DOMAIN accounts' => accounts'[e] \in saw'[q]
               /\ e \in DOMAIN accounts /\ (e \notin DOMAIN accounts' \/ accounts'[e] # accounts[e])
                  => Excused(saw'[q], mishaps')
    PROVE  request'[q].at # "idle" =>
               Known(request'[q], profiles'[request'[q].by], saw'[q], accounts', mishaps', clock')
  <1> SUFFICES ASSUME request[q].at # "idle"
               PROVE  Known(request[q], profiles[request[q].by], saw'[q], accounts', mishaps', clock')
    OBVIOUS
  <1> DEFINE p == profiles[request[q].by]
  <1>1. request[q] \in DelegatedRequest
    BY RequestKind
  <1>2. p.tolerance \in Int /\ p.maxAge \in Int
    BY <1>1 DEF DelegatedRequest, ProfilesOK
  <1>3. Known(request[q], p, saw[q], accounts, mishaps, clock)
    BY DEF RequestsOK
  <1>4. clock \in Nat /\ mishaps \in Nat
    BY DEF DelegatedTypeOK
  <1> HIDE DEF p
  <1>5. Known(request[q], p, saw'[q], accounts', mishaps', clock')
    BY <1>1, <1>2, <1>3, <1>4, KnownStays
  <1> QED
    BY <1>5 DEF p

(* A step that serves one request and changes no account. *)
LEMMA OwnStep ==
    ASSUME DelegatedInv, NEW c \in Twins, NEW next \in {Delegated!Idle} \cup DelegatedRequest,
           request' = [request EXCEPT ![c] = next],
           UNCHANGED <<profiles, accounts, nextId, clock, creators>>,
           mishaps' \in Nat, mishaps <= mishaps',
           NEW mine, saw' = [saw EXCEPT ![c] = mine],
           next.at # "idle" =>
               Known(next, profiles[next.by], mine, accounts, mishaps', clock),
           BucketsOK'
    PROVE  DelegatedInv'
  <1>1. /\ request \in [Twins -> {Delegated!Idle} \cup DelegatedRequest]
        /\ saw = [q \in Twins |-> saw[q]]
    BY DEF DelegatedInv, DelegatedTypeOK
  <1>2. request' = [q \in Twins |-> IF q = c THEN next ELSE request[q]]
    BY <1>1
  <1>3. saw' = [q \in Twins |-> IF q = c THEN mine ELSE saw[q]]
    BY <1>1
  <1>4. saw' = [q \in Twins |-> saw'[q]]
    BY <1>3
  <1>5. request' \in [Twins -> {Delegated!Idle} \cup DelegatedRequest]
    BY <1>1, <1>2
  <1>6. DelegatedTypeOK'
    BY <1>4, <1>5 DEF DelegatedInv, DelegatedTypeOK, DelegatedRequest, Delegated!Idle
  <1>7. ProfilesOK' /\ CreatorsOK'
    BY DEF DelegatedInv, ProfilesOK, CreatorsOK, Delegated!InNamespace
  <1>8. ASSUME NEW q \in Twins
        PROVE  request'[q].at # "idle" =>
                   Known(request'[q], profiles'[request'[q].by], saw'[q], accounts', mishaps', clock')
    <2>1. CASE q = c
      BY <1>2, <1>3, <2>1
    <2>2. CASE q # c
      <3>1. request'[q] = request[q] /\ saw'[q] = saw[q]
        BY <1>2, <1>3, <2>2
      <3>2. clock \in Nat
        BY DEF DelegatedInv, DelegatedTypeOK
      <3>3. request[q].at # "idle" /\ request[q].token.email \in DOMAIN accounts
                => accounts[request[q].token.email] \in saw[q]
        BY DEF DelegatedInv, RequestsOK, Known
      <3> QED
        BY <3>1, <3>2, <3>3, OthersKnown DEF DelegatedInv
    <2> QED
      BY <2>1, <2>2
  <1>9. RequestsOK'
    BY <1>8 DEF RequestsOK
  <1> QED
    BY <1>6, <1>7, <1>9 DEF DelegatedInv

(* DelegatedSecurityEventLogger: a rejection is counted in a bucket, and told. *)
LEMMA RecordStep ==
    ASSUME BucketsOK, clock \in Nat, NEW b \in Delegated!LogKeys, Delegated!RecordRejection(b)
    PROVE  BucketsOK'
  <1> DEFINE now0 == clock
             kept == Delegated!Bucket(b)
             put == IF Delegated!Full(kept) THEN [kept EXCEPT !.suppressed = @ + 1]
                    ELSE [kept EXCEPT !.count = @ + 1]
             old == IF b \in DOMAIN log THEN log[b].suppressed ELSE 0
             told == Delegated!Summed(b) + (IF Delegated!Full(kept) THEN 0 ELSE 1)
  <1>1. /\ log = [x \in DOMAIN log |-> log[x]] /\ DOMAIN log \subseteq Delegated!LogKeys
        /\ \A x \in DOMAIN log : log[x] \in LogBucket
        /\ rejected \in [Delegated!LogKeys -> Nat] /\ lines \in [Delegated!LogKeys -> Nat]
        /\ \A x \in Delegated!LogKeys :
               rejected[x] = lines[x] + (IF x \in DOMAIN log THEN log[x].suppressed ELSE 0)
    BY DEF BucketsOK, Delegated!RejectionsTold
  <1>2. kept \in LogBucket /\ Delegated!Summed(b) \in Nat
        /\ Delegated!Summed(b) + kept.suppressed = old
    <2>1. CASE b \notin DOMAIN log
      BY <2>1 DEF Delegated!Bucket, Delegated!Summed, Delegated!Fresh, LogBucket
    <2>2. CASE b \in DOMAIN log /\ Delegated!Over(log[b])
      BY <1>1, <2>2 DEF Delegated!Bucket, Delegated!Summed, Delegated!Fresh, LogBucket
    <2>3. CASE b \in DOMAIN log /\ ~Delegated!Over(log[b])
      BY <1>1, <2>3 DEF Delegated!Bucket, Delegated!Summed, Delegated!Fresh, LogBucket
    <2> QED
      BY <2>1, <2>2, <2>3
  <1>3. /\ log' = [x \in DOMAIN log \cup {b} |-> IF x = b THEN put ELSE log[x]]
        /\ lines' = [lines EXCEPT ![b] = @ + told]
        /\ rejected' = [rejected EXCEPT ![b] = @ + 1]
    BY DEF Delegated!RecordRejection, Delegated!Put, Delegated!Add
  <1> HIDE DEF kept
  <1>4. put \in LogBucket /\ told \in Nat /\ told + put.suppressed = old + 1 /\ old \in Nat
    <2>1. CASE Delegated!Full(kept)
      BY <1>2, <2>1 DEF LogBucket
    <2>2. CASE ~Delegated!Full(kept)
      BY <1>2, <2>2 DEF LogBucket
    <2> QED
      BY <2>1, <2>2
  <1>5. rejected[b] = lines[b] + old /\ rejected[b] \in Nat /\ lines[b] \in Nat
    BY <1>1
  <1> HIDE DEF put, told, old
  <1>6. DOMAIN log' = DOMAIN log \cup {b}
    BY <1>3
  <1>7. log' = [x \in DOMAIN log' |-> log'[x]] /\ DOMAIN log' \subseteq Delegated!LogKeys
        /\ \A x \in DOMAIN log' : log'[x] \in LogBucket
    BY <1>1, <1>3, <1>4
  <1>8. rejected' \in [Delegated!LogKeys -> Nat] /\ lines' \in [Delegated!LogKeys -> Nat]
    BY <1>1, <1>3, <1>4, <1>5
  <1>9. ASSUME NEW x \in Delegated!LogKeys
        PROVE  rejected'[x] = lines'[x] + (IF x \in DOMAIN log' THEN log'[x].suppressed ELSE 0)
    <2>1. CASE x = b
      <3>1. rejected'[x] = rejected[b] + 1 /\ lines'[x] = lines[b] + told
        BY <1>1, <1>3, <2>1
      <3>2. x \in DOMAIN log' /\ log'[x] = put
        BY <1>3, <2>1
      <3>3. put.suppressed \in Nat
        BY <1>4 DEF LogBucket
      <3> QED
        BY <1>4, <1>5, <3>1, <3>2, <3>3
    <2>2. CASE x # b
      <3>1. rejected'[x] = rejected[x] /\ lines'[x] = lines[x]
        BY <1>1, <1>3, <2>2
      <3>2. x \in DOMAIN log' <=> x \in DOMAIN log
        BY <1>6, <2>2
      <3>3. x \in DOMAIN log => log'[x] = log[x]
        BY <1>3, <2>2
      <3> QED
        BY <1>1, <3>1, <3>2, <3>3
    <2> QED
      BY <2>1, <2>2
  <1> QED
    BY <1>7, <1>8, <1>9 DEF BucketsOK, Delegated!RejectionsTold, Delegated!LogKeys

(* The flush, on its timer or when the module ends: what a bucket counted is summed up. *)
LEMMA FlushStep ==
    ASSUME BucketsOK, Delegated!FlushExpired \/ Delegated!Destroy
    PROVE  BucketsOK'
  <1>1. /\ log = [x \in DOMAIN log |-> log[x]] /\ DOMAIN log \subseteq Delegated!LogKeys
        /\ \A x \in DOMAIN log : log[x] \in LogBucket
        /\ rejected \in [Delegated!LogKeys -> Nat] /\ lines \in [Delegated!LogKeys -> Nat]
        /\ \A x \in Delegated!LogKeys :
               rejected[x] = lines[x] + (IF x \in DOMAIN log THEN log[x].suppressed ELSE 0)
    BY DEF BucketsOK, Delegated!RejectionsTold
  <1>2. \E gone \in SUBSET DOMAIN log :
            /\ log' = [x \in DOMAIN log \ gone |-> log[x]]
            /\ lines' = [x \in Delegated!LogKeys |->
                            lines[x] + (IF x \in gone THEN log[x].suppressed ELSE 0)]
            /\ rejected' = rejected
    <2>1. CASE Delegated!FlushExpired
      BY <2>1 DEF Delegated!FlushExpired, Delegated!Told, Delegated!SumUp, Delegated!Only
    <2>2. CASE Delegated!Destroy
      <3>1. log' = [x \in DOMAIN log \ DOMAIN log |-> log[x]]
        BY <2>2 DEF Delegated!Destroy
      <3> QED
        BY <2>2, <3>1 DEF Delegated!Destroy, Delegated!Told, Delegated!SumUp
    <2> QED
      BY <2>1, <2>2
  <1> PICK gone \in SUBSET DOMAIN log :
            /\ log' = [x \in DOMAIN log \ gone |-> log[x]]
            /\ lines' = [x \in Delegated!LogKeys |->
                            lines[x] + (IF x \in gone THEN log[x].suppressed ELSE 0)]
            /\ rejected' = rejected
    BY <1>2
  <1>3. DOMAIN log' = DOMAIN log \ gone
    OBVIOUS
  <1>4. log' = [x \in DOMAIN log' |-> log'[x]] /\ DOMAIN log' \subseteq Delegated!LogKeys
        /\ \A x \in DOMAIN log' : log'[x] \in LogBucket
    BY <1>1, <1>3
  <1>5. \A x \in DOMAIN log : log[x].suppressed \in Nat
    BY <1>1 DEF LogBucket
  <1>6. rejected' \in [Delegated!LogKeys -> Nat] /\ lines' \in [Delegated!LogKeys -> Nat]
    BY <1>1, <1>5
  <1>7. ASSUME NEW x \in Delegated!LogKeys
        PROVE  rejected'[x] = lines'[x] + (IF x \in DOMAIN log' THEN log'[x].suppressed ELSE 0)
    <2>1. lines'[x] = lines[x] + (IF x \in gone THEN log[x].suppressed ELSE 0)
      OBVIOUS
    <2>2. x \in DOMAIN log' => log'[x] = log[x]
      BY <1>3
    <2>3. lines[x] \in Nat /\ rejected[x] \in Nat
      BY <1>1
    <2> QED
      BY <1>1, <1>3, <1>5, <2>1, <2>2, <2>3
  <1>8. \A x \in Delegated!LogKeys :
            rejected'[x] = lines'[x] + (IF x \in DOMAIN log' THEN log'[x].suppressed ELSE 0)
    BY <1>7
  <1> QED
    BY <1>4, <1>6, <1>8 DEF BucketsOK, Delegated!RejectionsTold

(* Nothing was rejected. *)
LEMMA LogStays ==
    ASSUME BucketsOK, UNCHANGED <<log, rejected, lines>>
    PROVE  BucketsOK'
  BY DEF BucketsOK, Delegated!RejectionsTold, Delegated!LogKeys

(* The guard's catch. *)
LEMMA RejectedStep ==
    ASSUME DelegatedInv, NEW c \in Twins, request[c].at # "idle",
           NEW why \in {"identity_mapping_failed", "token_rejected", "internal_error"},
           Delegated!Reject(c, why), mishaps' \in Nat, mishaps <= mishaps',
           LET q == request[c] p == profiles[q.by] IN
               /\ q.token.kid /\ q.token.verified /\ q.token.email # "none"
               /\ p.provisioning = "jit" /\ q.good
               /\ Timeless(q.token, p) /\ InTime(q.token, p, clock)
               => Excused(saw[c], mishaps')
    PROVE  DelegatedInv'
  <1> DEFINE q == request[c]
             p == profiles[q.by]
             next == [q EXCEPT !.at = "401"]
  <1>1. q \in DelegatedRequest
    BY RequestKind DEF DelegatedInv
  <1>2. /\ next \in DelegatedRequest /\ next.at = "401" /\ next.by = q.by /\ next.token = q.token
        /\ next.user = q.user /\ next.good = q.good
    BY <1>1, Going DEF Stages
  <1>3. request' = [request EXCEPT ![c] = next]
    BY DEF Delegated!Reject, Delegated!Go
  <1>4. UNCHANGED <<profiles, accounts, nextId, clock, creators, saw>>
    BY DEF Delegated!Reject
  <1>5. BucketsOK'
    <2>1. q.by \in DOMAIN profiles
      BY <1>1 DEF DelegatedRequest
    <2>2. <<q.by, why>> \in Delegated!LogKeys
      BY <2>1 DEF DelegatedInv, ProfilesOK
    <2>3. Delegated!RecordRejection(<<q.by, why>>)
      BY DEF Delegated!Reject
    <2> QED
      BY <2>2, <2>3, RecordStep DEF DelegatedInv, DelegatedTypeOK
  <1>6. Known(q, p, saw[c], accounts, mishaps, clock)
    BY <1>1, RequestKind DEF DelegatedInv, RequestsOK
  <1>7. Known(next, p, saw[c], accounts, mishaps', clock)
    BY <1>2, <1>6 DEF Known
  <1>8. saw' = [saw EXCEPT ![c] = saw[c]]
    BY <1>4 DEF DelegatedInv, DelegatedTypeOK
  <1>9. Known(next, profiles[next.by], saw[c], accounts, mishaps', clock)
    BY <1>2, <1>7
  <1>10. next \in {Delegated!Idle} \cup DelegatedRequest
    BY <1>2
  <1> HIDE DEF next
  <1> QED
    BY <1>3, <1>4, <1>5, <1>8, <1>9, <1>10, OwnStep

(* The guard goes on. *)
LEMMA GoesOn ==
    ASSUME DelegatedInv, NEW c \in Twins, request[c].at # "idle",
           NEW next \in DelegatedRequest, next.by = request[c].by,
           request' = [request EXCEPT ![c] = next], Delegated!Calm,
           mishaps' \in Nat, mishaps <= mishaps',
           Known(next, profiles[request[c].by], saw[c], accounts, mishaps', clock)
    PROVE  DelegatedInv'
  <1>1. BucketsOK'
    BY LogStays DEF Delegated!Calm, DelegatedInv
  <1>2. saw' = [saw EXCEPT ![c] = saw[c]]
    BY DEF Delegated!Calm, DelegatedInv, DelegatedTypeOK
  <1>3. UNCHANGED <<profiles, accounts, nextId, clock, creators>>
    BY DEF Delegated!Calm
  <1> QED
    BY <1>1, <1>2, <1>3, OwnStep

(* VerifyToken: what is refused was not acceptable, or a fault is its cause. *)
LEMMA VerifyStep ==
    ASSUME DelegatedInv, NEW c \in Twins, Delegated!VerifyToken(c)
    PROVE  DelegatedInv'
  <1> DEFINE q == request[c]
             p == profiles[q.by]
             t == q.token
  <1>1. q.at = "jwks" /\ q \in DelegatedRequest
    BY RequestKind DEF Delegated!VerifyToken, DelegatedInv
  <1>2. mishaps \in Nat
    BY DEF DelegatedInv, DelegatedTypeOK
  <1>3. ASSUME ~Delegated!Accepted(t, p), Delegated!Reject(c, "token_rejected"),
               UNCHANGED mishaps
        PROVE  DelegatedInv'
    <2>1. ~(Timeless(t, p) /\ InTime(t, p, clock))
      BY <1>3, AcceptedIs
    <2> QED
      BY <1>1, <1>2, <1>3, <2>1, RejectedStep
  <1>4. ASSUME t.email = "none" \/ ~t.verified, Delegated!Reject(c, "identity_mapping_failed"),
               UNCHANGED mishaps
        PROVE  DelegatedInv'
    BY <1>1, <1>2, <1>4, RejectedStep
  <1>5. ASSUME t.verified, Delegated!Go(c, "find"), Delegated!Calm, UNCHANGED mishaps
        PROVE  DelegatedInv'
    <2> DEFINE next == [q EXCEPT !.at = "find"]
    <2>1. /\ next \in DelegatedRequest /\ next.at = "find" /\ next.by = q.by
          /\ next.token = q.token /\ next.user = q.user /\ next.good = q.good
      BY <1>1, Going DEF Stages
    <2>2. request' = [request EXCEPT ![c] = next]
      BY <1>5 DEF Delegated!Go
    <2>3. Known(q, p, saw[c], accounts, mishaps, clock)
      BY <1>1 DEF DelegatedInv, RequestsOK
    <2> HIDE DEF next
    <2>4. mishaps' \in Nat /\ mishaps <= mishaps' /\ mishaps' = mishaps
      BY <1>2, <1>5
    <2>5. Known(next, p, saw[c], accounts, mishaps', clock)
      BY <1>5, <2>1, <2>3, <2>4 DEF Known
    <2>6. request[c].at # "idle"
      BY <1>1
    <2> QED
      BY <1>5, <2>1, <2>2, <2>4, <2>5, <2>6, GoesOn
  <1>6. ASSUME mishaps' = mishaps + 1, Delegated!Reject(c, "token_rejected")
        PROVE  DelegatedInv'
    <2>1. Excused(saw[c], mishaps') /\ mishaps' \in Nat /\ mishaps <= mishaps'
      BY <1>2, <1>6 DEF Excused
    <2> QED
      BY <1>1, <1>6, <2>1, RejectedStep
  <1> QED
    BY <1>3, <1>4, <1>5, <1>6 DEF Delegated!VerifyToken, Delegated!Profile

(* FindAccount: an account that is active now, or a refusal of one that is not. *)
LEMMA FindStep ==
    ASSUME DelegatedInv, NEW c \in Twins, Delegated!FindAccount(c)
    PROVE  DelegatedInv'
  <1> DEFINE q == request[c]
             p == profiles[q.by]
             e == q.token.email
             u == Delegated!Found(c)
  <1>1. q.at = "find" /\ q \in DelegatedRequest
    BY RequestKind DEF Delegated!FindAccount, DelegatedInv
  <1>2. mishaps' \in Nat /\ mishaps <= mishaps' /\ mishaps' = mishaps
    BY DEF DelegatedInv, DelegatedTypeOK, Delegated!FindAccount
  <1>3. Known(q, p, saw[c], accounts, mishaps, clock)
    BY <1>1 DEF DelegatedInv, RequestsOK
  <1>4. /\ e \in DOMAIN accounts => u = accounts[e] /\ u \in AccountRow
        /\ e \notin DOMAIN accounts => u = [id |-> 0, active |-> FALSE]
    BY DEF Delegated!Found, Delegated!Under, DelegatedInv, DelegatedTypeOK
  <1>5. p.provisioning \in {"never", "jit"}
    BY <1>1 DEF DelegatedInv, ProfilesOK, DelegatedRequest
  <1>6. e \in DOMAIN accounts => u \in saw[c]
    BY <1>3, <1>4 DEF Known
  <1>7. u.id # 0 => e \in DOMAIN accounts
    BY <1>4
  <1>8. u.active => e \in DOMAIN accounts
    BY <1>4
  <1>9. u.id \in Nat
    BY <1>4 DEF AccountRow
  <1>10. ASSUME NEW goal \in {"account", "roles"}, u.active, Delegated!Calm,
                request' = [request EXCEPT ![c].user = u.id, ![c].at = goal]
         PROVE  DelegatedInv'
    <2> DEFINE next == Reached(q, u.id, goal)
    <2> HIDE DEF u
    <2>0. goal \in Stages
      BY DEF Stages
    <2>1. /\ next \in DelegatedRequest /\ next.at = goal /\ next.by = q.by
          /\ next.token = q.token /\ next.user = u.id /\ next.good = q.good
      BY <1>1, <1>9, <2>0, GoingFor
    <2>2. request' = [request EXCEPT ![c] = next]
      BY <1>10 DEF Reached
    <2> HIDE DEF next
    <2>3. \E x \in saw[c] : x.active /\ x.id = next.user
      BY <1>6, <1>8, <1>10, <2>1
    <2>4. e \in DOMAIN accounts /\ accounts[e].active /\ accounts[e].id = next.user
      BY <1>4, <1>8, <1>10, <2>1
    <2>5. Known(next, p, saw[c], accounts, mishaps', clock)
      BY <1>1, <1>2, <1>3, <1>10, <2>1, <2>3, <2>4 DEF Known
    <2> QED
      BY <1>1, <1>2, <1>10, <2>1, <2>2, <2>5, GoesOn
  <1>11. ASSUME p.provisioning = "never", Delegated!Reject(c, "identity_mapping_failed")
         PROVE  DelegatedInv'
    BY <1>1, <1>2, <1>11, RejectedStep
  <1>12. ASSUME u.id # 0, ~u.active, Delegated!Reject(c, "token_rejected")
         PROVE  DelegatedInv'
    <2>1. Excused(saw[c], mishaps')
      BY <1>6, <1>7, <1>12 DEF Excused
    <2> QED
      BY <1>1, <1>2, <1>12, <2>1, RejectedStep
  <1>13. ASSUME p.provisioning # "never", Delegated!Go(c, "create"), Delegated!Calm
         PROVE  DelegatedInv'
    <2> DEFINE next == [q EXCEPT !.at = "create"]
    <2>1. /\ next \in DelegatedRequest /\ next.at = "create" /\ next.by = q.by
          /\ next.token = q.token /\ next.user = q.user /\ next.good = q.good
      BY <1>1, Going DEF Stages
    <2>2. request' = [request EXCEPT ![c] = next]
      BY <1>13 DEF Delegated!Go
    <2> HIDE DEF next
    <2>3. Known(next, p, saw[c], accounts, mishaps', clock)
      BY <1>1, <1>2, <1>3, <1>5, <1>13, <2>1 DEF Known
    <2> QED
      BY <1>1, <1>2, <1>13, <2>1, <2>2, <2>3, GoesOn
  <1> QED
    BY <1>10, <1>11, <1>12, <1>13 DEF Delegated!FindAccount, Delegated!Profile

(* Reread: the loser of two creations takes the winner's account, if it is there. *)
LEMMA RereadStep ==
    ASSUME DelegatedInv, NEW c \in Twins, Delegated!Reread(c)
    PROVE  DelegatedInv'
  <1> DEFINE q == request[c]
             p == profiles[q.by]
             e == q.token.email
             u == Delegated!Found(c)
  <1>1. q.at = "reread" /\ q \in DelegatedRequest
    BY RequestKind DEF Delegated!Reread, DelegatedInv
  <1>2. mishaps' \in Nat /\ mishaps <= mishaps' /\ mishaps' = mishaps
    BY DEF DelegatedInv, DelegatedTypeOK, Delegated!Reread
  <1>3. Known(q, p, saw[c], accounts, mishaps, clock)
    BY <1>1 DEF DelegatedInv, RequestsOK
  <1>4. /\ e \in DOMAIN accounts => u = accounts[e] /\ u \in AccountRow
        /\ e \notin DOMAIN accounts => u = [id |-> 0, active |-> FALSE]
    BY DEF Delegated!Found, Delegated!Under, DelegatedInv, DelegatedTypeOK
  <1>5. e \in DOMAIN accounts \/ Excused(saw[c], mishaps)
    BY <1>1, <1>3 DEF Known
  <1>6. e \in DOMAIN accounts => u \in saw[c] /\ u.id # 0 /\ u.id \in Nat
    BY <1>3, <1>4 DEF Known, AccountRow
  <1>7. u.id # 0 => e \in DOMAIN accounts
    BY <1>4
  <1>8. ASSUME u.id # 0 => ~u.active,
               NEW why \in {"internal_error", "token_rejected"}, Delegated!Reject(c, why)
        PROVE  DelegatedInv'
    <2>1. Excused(saw[c], mishaps')
      BY <1>2, <1>5, <1>6, <1>8 DEF Excused
    <2> QED
      BY <1>1, <1>2, <1>8, <2>1, RejectedStep
  <1>9. ASSUME u.id # 0, u.active, Delegated!Calm,
               request' = [request EXCEPT ![c].user = u.id, ![c].at = "account"]
        PROVE  DelegatedInv'
    <2> DEFINE next == Reached(q, u.id, "account")
    <2> HIDE DEF u
    <2>0. "account" \in Stages /\ u.id \in Nat
      BY <1>6, <1>7, <1>9 DEF Stages
    <2>1. /\ next \in DelegatedRequest /\ next.at = "account" /\ next.by = q.by
          /\ next.token = q.token /\ next.user = u.id /\ next.good = q.good
      BY <1>1, <2>0, GoingFor
    <2>2. request' = [request EXCEPT ![c] = next]
      BY <1>9 DEF Reached
    <2> HIDE DEF next
    <2>3. \E x \in saw[c] : x.active /\ x.id = next.user
      BY <1>6, <1>7, <1>9, <2>1
    <2>4. e \in DOMAIN accounts /\ accounts[e].active /\ accounts[e].id = next.user
      BY <1>4, <1>7, <1>9, <2>1
    <2>5. Known(next, p, saw[c], accounts, mishaps', clock)
      BY <1>1, <1>2, <1>3, <1>9, <2>1, <2>3, <2>4 DEF Known
    <2> QED
      BY <1>1, <1>2, <1>9, <2>1, <2>2, <2>5, GoesOn
  <1> QED
    BY <1>8, <1>9 DEF Delegated!Reread

(* ReadAccount and ReadRoles: the account is as it was found, or was off or removed meanwhile. *)
LEMMA ReadStep ==
    ASSUME DelegatedInv, NEW c \in Twins, Delegated!ReadAccount(c) \/ Delegated!ReadRoles(c)
    PROVE  DelegatedInv'
  <1> DEFINE q == request[c]
             p == profiles[q.by]
             e == q.token.email
             u == Delegated!Found(c)
  <1>1. q.at \in {"account", "roles"} /\ q \in DelegatedRequest
    BY RequestKind DEF Delegated!ReadAccount, Delegated!ReadRoles, DelegatedInv
  <1>2. mishaps' \in Nat /\ mishaps <= mishaps' /\ mishaps' = mishaps
    BY DEF DelegatedInv, DelegatedTypeOK, Delegated!ReadAccount, Delegated!ReadRoles
  <1>3. Known(q, p, saw[c], accounts, mishaps, clock)
    BY <1>1 DEF DelegatedInv, RequestsOK
  <1>4. e \in DOMAIN accounts => u = accounts[e]
    BY DEF Delegated!Found, Delegated!Under
  <1>5. ASSUME q.at = "account", ~(u.active /\ u.id = q.user), Delegated!Reject(c, "token_rejected")
        PROVE  DelegatedInv'
    <2>1. Excused(saw[c], mishaps')
      BY <1>2, <1>3, <1>4, <1>5 DEF Known
    <2> QED
      BY <1>1, <1>2, <1>5, <2>1, RejectedStep
  <1>6. ASSUME NEW goal \in {"roles", "served"}, Delegated!Go(c, goal), Delegated!Calm
        PROVE  DelegatedInv'
    <2> DEFINE next == [q EXCEPT !.at = goal]
    <2>0. goal \in Stages
      BY DEF Stages
    <2>1. /\ next \in DelegatedRequest /\ next.at = goal /\ next.by = q.by
          /\ next.token = q.token /\ next.user = q.user /\ next.good = q.good
      BY <1>1, <2>0, Going
    <2>2. request' = [request EXCEPT ![c] = next]
      BY <1>6 DEF Delegated!Go
    <2> HIDE DEF next
    <2>3. Known(next, p, saw[c], accounts, mishaps', clock)
      BY <1>1, <1>2, <1>3, <1>6, <2>1 DEF Known
    <2> QED
      BY <1>1, <1>2, <1>6, <2>1, <2>2, <2>3, GoesOn
  <1> QED
    BY <1>5, <1>6 DEF Delegated!ReadAccount, Delegated!ReadRoles

(* A request arrives, or its answer is sent. *)
LEMMA ArriveStep ==
    ASSUME DelegatedInv, NEW c \in Twins,
           NEW n \in DOMAIN profiles, NEW t \in ExchangedTokens, Delegated!Arrive(c, n, t)
    PROVE  DelegatedInv'
  <1> DEFINE next == [at |-> IF t.kid THEN "jwks" ELSE "401", by |-> n, token |-> t, user |-> 0,
                      good |-> Delegated!Accepted(t, profiles[n])]
             mine == {Delegated!Under(t.email)}
  <1>1. Delegated!Accepted(t, profiles[n]) \in BOOLEAN
    BY DEF Delegated!Accepted
  <1>2. next \in DelegatedRequest
    BY <1>1 DEF DelegatedRequest, Stages
  <1>3. /\ request' = [request EXCEPT ![c] = next] /\ saw' = [saw EXCEPT ![c] = mine]
        /\ UNCHANGED <<profiles, accounts, nextId, clock, creators, mishaps>>
        /\ t.bearer
      BY DEF Delegated!Arrive
  <1>4. BucketsOK'
    <2>1. <<n, "token_rejected">> \in Delegated!LogKeys /\ clock \in Nat /\ BucketsOK
      BY DEF DelegatedInv, ProfilesOK, DelegatedTypeOK
    <2>2. UNCHANGED <<log, lines, rejected>> \/ Delegated!RecordRejection(<<n, "token_rejected">>)
      BY DEF Delegated!Arrive
    <2> QED
      BY <2>1, <2>2, LogStays, RecordStep
  <1>5. mishaps' \in Nat /\ mishaps <= mishaps'
    BY <1>3 DEF DelegatedInv, DelegatedTypeOK
  <1>6. /\ next.at = IF t.kid THEN "jwks" ELSE "401"
        /\ next.by = n /\ next.token = t /\ next.good = Delegated!Accepted(t, profiles[n])
    OBVIOUS
  <1>7. t.email \in DOMAIN accounts => accounts[t.email] \in mine
    BY DEF Delegated!Under
  <1>8. next.good => t.iat <= clock + profiles[n].tolerance
    BY <1>6, AcceptedIs DEF InTime
  <1> HIDE DEF next, mine
  <1>9. Known(next, profiles[next.by], mine, accounts, mishaps', clock)
    <2>1. next.at = "401" => ~t.kid
      BY <1>6
    <2>2. next.at \in {"jwks", "401"}
      BY <1>6
    <2> QED
      BY <1>3, <1>6, <1>7, <1>8, <2>1, <2>2 DEF Known
  <1> QED
    BY <1>2, <1>3, <1>4, <1>5, <1>9, OwnStep
LEMMA AnsweredStep ==
    ASSUME DelegatedInv, NEW c \in Twins, Delegated!Answered(c)
    PROVE  DelegatedInv'
  <1>1. /\ request' = [request EXCEPT ![c] = Delegated!Idle] /\ saw' = [saw EXCEPT ![c] = {}]
        /\ UNCHANGED <<profiles, accounts, nextId, clock, creators, mishaps, log, rejected, lines>>
    BY DEF Delegated!Answered
  <1>2. Delegated!Idle.at = "idle"
    BY DEF Delegated!Idle
  <1>3. mishaps' \in Nat /\ mishaps <= mishaps'
    BY <1>1 DEF DelegatedInv, DelegatedTypeOK
  <1>4. BucketsOK'
    BY <1>1, LogStays DEF DelegatedInv
  <1> QED
    BY <1>1, <1>2, <1>3, <1>4, OwnStep

(* A request that goes on with the active account "u" it found. *)
LEMMA FoundIsKnown ==
    ASSUME NEW q, NEW p, NEW seen, NEW held, NEW f, NEW at, NEW u,
           q.at = "account", q.token.bearer, q.token.verified,
           q.good => q.token.iat <= at + p.tolerance,
           q.token.email \in DOMAIN held, held[q.token.email] = u, u \in seen, u.active, u.id = q.user
    PROVE  Known(q, p, seen, held, f, at)
  BY DEF Known

(* provision: a new account for the email, under an id nobody has. *)
LEMMA CreateStep ==
    ASSUME DelegatedInv, NEW c \in Twins, Delegated!Create(c)
    PROVE  DelegatedInv'
  <1> DEFINE q == request[c]
             p == profiles[q.by]
             e == q.token.email
  <1>1. q.at = "create" /\ q \in DelegatedRequest
    BY RequestKind DEF Delegated!Create, DelegatedInv
  <1>2. Known(q, p, saw[c], accounts, mishaps, clock)
    BY <1>1 DEF DelegatedInv, RequestsOK
  <1>3. mishaps \in Nat /\ clock \in Nat /\ nextId \in Nat \ {0}
    BY DEF DelegatedInv, DelegatedTypeOK
  <1>4. p.provisioning = "jit" /\ q.token.verified
    BY <1>1, <1>2 DEF Known
  <1>5. ASSUME \/ e \in DOMAIN accounts /\ UNCHANGED mishaps
               \/ mishaps' = mishaps + 1,
               Delegated!Go(c, "reread"), Delegated!Calm
        PROVE  DelegatedInv'
    <2> DEFINE next == [q EXCEPT !.at = "reread"]
    <2>1. /\ next \in DelegatedRequest /\ next.at = "reread" /\ next.by = q.by
          /\ next.token = q.token /\ next.user = q.user /\ next.good = q.good
      BY <1>1, Going DEF Stages
    <2>2. request' = [request EXCEPT ![c] = next]
      BY <1>5 DEF Delegated!Go
    <2> HIDE DEF next
    <2>3. mishaps' \in Nat /\ mishaps <= mishaps'
          /\ (e \in DOMAIN accounts \/ Excused(saw[c], mishaps'))
      BY <1>3, <1>5 DEF Excused
    <2>4. Known(next, p, saw[c], accounts, mishaps', clock)
      BY <1>1, <1>2, <1>4, <2>1, <2>3 DEF Known
    <2>5. request[c].at # "idle"
      BY <1>1
    <2> QED
      BY <1>5, <2>1, <2>2, <2>3, <2>4, <2>5, GoesOn
  <1>6. ASSUME e \notin DOMAIN accounts, UNCHANGED mishaps,
               accounts' = Delegated!Put(accounts, e, [id |-> nextId, active |-> TRUE]),
               nextId' = nextId + 1, creators' = creators \cup {<<nextId, q.by>>},
               request' = [request EXCEPT ![c].user = nextId, ![c].at = "account"],
               saw' = [x \in Twins |->
                          IF request[x] # Delegated!Idle /\ request[x].token.email = e
                          THEN saw[x] \cup {accounts'[e]} ELSE saw[x]],
               UNCHANGED <<profiles, clock, log, rejected, lines>>
        PROVE  DelegatedInv'
    <2> DEFINE next == Reached(q, nextId, "account")
               new == [id |-> nextId, active |-> TRUE]
    <2>1. /\ next \in DelegatedRequest /\ next.at = "account" /\ next.by = q.by
          /\ next.token = q.token /\ next.user = nextId /\ next.good = q.good
      <3>1. "account" \in Stages /\ nextId \in Nat
        BY <1>3 DEF Stages
      <3> QED
        BY <1>1, <3>1, GoingFor
    <2>2. request' = [request EXCEPT ![c] = next]
      BY <1>6 DEF Reached
    <2> HIDE DEF next
    <2>3. /\ request \in [Twins -> {Delegated!Idle} \cup DelegatedRequest]
          /\ accounts = [x \in DOMAIN accounts |-> accounts[x]]
          /\ \A x \in DOMAIN accounts : accounts[x] \in AccountRow
      BY DEF DelegatedInv, DelegatedTypeOK
    <2>4. request' = [x \in Twins |-> IF x = c THEN next ELSE request[x]]
      BY <2>2, <2>3
    <2>5. request' \in [Twins -> {Delegated!Idle} \cup DelegatedRequest]
      BY <2>1, <2>3, <2>4
    <2>6. new \in AccountRow /\ new.active /\ new.id = nextId
      BY <1>3 DEF AccountRow
    <2> HIDE DEF new
    <2>7. accounts' = [x \in DOMAIN accounts \cup {e} |-> IF x = e THEN new ELSE accounts[x]]
      BY <1>6 DEF Delegated!Put, new
    <2>8. /\ DOMAIN accounts' = DOMAIN accounts \cup {e} /\ accounts'[e] = new
          /\ \A x \in DOMAIN accounts : accounts'[x] = accounts[x]
          /\ accounts' = [x \in DOMAIN accounts' |-> accounts'[x]]
          /\ \A x \in DOMAIN accounts' : accounts'[x] \in AccountRow
      BY <1>6, <2>3, <2>6, <2>7
    <2>9. saw' = [x \in Twins |-> saw'[x]]
      BY <1>6
    <2>10. DelegatedTypeOK'
      <3>1. nextId' \in Nat \ {0} /\ clock' \in Nat /\ mishaps' \in Nat
        BY <1>3, <1>6
      <3> QED
        BY <1>6, <2>5, <2>8, <2>9, <3>1 DEF DelegatedTypeOK, DelegatedRequest, Delegated!Idle
    <2>11. ProfilesOK'
      BY <1>6 DEF DelegatedInv, ProfilesOK, Delegated!InNamespace
    <2>12. CreatorsOK'
      BY <1>1, <1>4, <1>6 DEF DelegatedInv, CreatorsOK, DelegatedRequest
    <2>13. ASSUME NEW x \in Twins
           PROVE  request'[x].at # "idle" =>
                      Known(request'[x], profiles'[request'[x].by], saw'[x], accounts', mishaps', clock')
      <3>1. CASE x = c
        <4>0. request[c] # Delegated!Idle
          BY <1>1 DEF Delegated!Idle
        <4>1. request'[x] = next /\ request[x] # Delegated!Idle
          BY <2>4, <3>1, <4>0
        <4>2. saw'[x] = saw[x] \cup {new}
          BY <1>6, <2>8, <3>1, <4>1
        <4>3. Known(next, p, saw'[x], accounts', mishaps, clock)
          <5>1. /\ next.token.bearer /\ next.token.verified
                /\ next.good => next.token.iat <= clock + p.tolerance
            BY <1>2, <1>4, <2>1 DEF Known
          <5>2. next.token.email \in DOMAIN accounts' /\ accounts'[next.token.email] = new
            BY <2>1, <2>8
          <5>3. new \in saw'[x]
            BY <4>2
          <5>4. new.active /\ new.id = nextId
            BY <2>6
          <5>5. next.user = nextId /\ next.at = "account"
            BY <2>1, Zenon
          <5> QED
            BY <5>1, <5>2, <5>3, <5>4, <5>5, FoundIsKnown
        <4> QED
          BY <1>6, <2>1, <4>1, <4>3
      <3>2. CASE x # c
        <4>1. request'[x] = request[x]
          BY <2>4, <3>2
        <4>2. saw[x] \subseteq saw'[x]
          BY <1>6
        <4>3. ASSUME request[x].at # "idle"
              PROVE  LET m == request[x].token.email IN
                     /\ m \in DOMAIN accounts' => accounts'[m] \in saw'[x]
                     /\ m \in DOMAIN accounts
                        /\ (m \notin DOMAIN accounts' \/ accounts'[m] # accounts[m])
                        => Excused(saw'[x], mishaps')
          <5>1. request[x] # Delegated!Idle
            BY <4>3, RequestKind DEF DelegatedInv
          <5>2. request[x].token.email \in DOMAIN accounts
                    => accounts[request[x].token.email] \in saw[x]
            BY <4>3 DEF DelegatedInv, RequestsOK, Known
          <5>3. request[x].token.email = e => accounts'[e] \in saw'[x]
            BY <1>6, <5>1
          <5> QED
            BY <2>8, <4>2, <5>2, <5>3
        <4>4. clock' \in Nat /\ clock <= clock' /\ mishaps' \in Nat /\ mishaps <= mishaps'
          BY <1>3, <1>6
        <4>5. profiles' = profiles
          BY <1>6
        <4>6. DelegatedTypeOK /\ ProfilesOK /\ RequestsOK
          BY DEF DelegatedInv
        <4> QED
          BY <4>1, <4>2, <4>3, <4>4, <4>5, <4>6, OthersKnown
      <3> QED
        BY <3>1, <3>2, Zenon
    <2>14. RequestsOK'
      BY <2>13 DEF RequestsOK
    <2>15. BucketsOK'
      BY <1>6, LogStays DEF DelegatedInv
    <2> QED
      BY <2>10, <2>11, <2>12, <2>14, <2>15 DEF DelegatedInv
  <1> QED
    BY <1>5, <1>6 DEF Delegated!Create

(* An administrator: what the requests under way could find changes with the account. *)
LEMMA AccountStep ==
    ASSUME DelegatedInv, NEW e, Delegated!ChangeAccount(e)
    PROVE  DelegatedInv'
  <1> DEFINE off == [id |-> accounts[e].id, active |-> e \in DOMAIN accounts' /\ accounts'[e].active]
  <1>1. /\ e \in DOMAIN accounts
        /\ \/ accounts' = [accounts EXCEPT ![e].active = ~@]
           \/ accounts' = [x \in DOMAIN accounts \ {e} |-> accounts[x]]
        /\ saw' = [x \in Twins |->
                      IF request[x] # Delegated!Idle /\ request[x].token.email = e
                      THEN saw[x] \cup {off} ELSE saw[x]]
        /\ UNCHANGED <<profiles, nextId, clock, request, log, mishaps, rejected, lines, creators>>
    BY DEF Delegated!ChangeAccount, Delegated!Only
  <1>2. /\ accounts = [x \in DOMAIN accounts |-> accounts[x]]
        /\ \A x \in DOMAIN accounts : accounts[x] \in AccountRow
    BY DEF DelegatedInv, DelegatedTypeOK
  <1>3. PICK old : old = accounts[e]
    OBVIOUS
  <1>4. old \in AccountRow /\ off.id = old.id /\ off.id # 0
    BY <1>1, <1>2, <1>3 DEF AccountRow
  <1>5. \/ accounts' = [x \in DOMAIN accounts |->
                           IF x = e THEN [id |-> old.id, active |-> ~old.active] ELSE accounts[x]]
        \/ accounts' = [x \in DOMAIN accounts \ {e} |-> accounts[x]]
    <2>1. [accounts EXCEPT ![e].active = ~@] =
              [x \in DOMAIN accounts |-> IF x = e THEN [old EXCEPT !.active = ~@] ELSE accounts[x]]
      BY <1>1, <1>2, <1>3
    <2>2. [old EXCEPT !.active = ~@] = [id |-> old.id, active |-> ~old.active]
      BY <1>4 DEF AccountRow
    <2> QED
      BY <1>1, <2>1, <2>2
  <1>6. /\ accounts' = [x \in DOMAIN accounts' |-> accounts'[x]]
        /\ \A x \in DOMAIN accounts' : accounts'[x] \in AccountRow
    <2>1. [id |-> old.id, active |-> ~old.active] \in AccountRow
      BY <1>4 DEF AccountRow
    <2> QED
      BY <1>2, <1>5, <2>1
  <1>7. \A x : x # e => (x \in DOMAIN accounts' <=> x \in DOMAIN accounts)
                        /\ (x \in DOMAIN accounts => accounts'[x] = accounts[x])
    BY <1>5
  <1>8. e \in DOMAIN accounts' => accounts'[e] = off
    <2>1. e \in DOMAIN accounts' => accounts'[e] = [id |-> old.id, active |-> ~old.active]
      BY <1>5
    <2>2. e \in DOMAIN accounts' => accounts'[e] = [id |-> old.id, active |-> accounts'[e].active]
      BY <2>1
    <2>3. e \in DOMAIN accounts' => off = [id |-> old.id, active |-> accounts'[e].active]
      <3>1. e \in DOMAIN accounts' => accounts'[e].active \in BOOLEAN
        BY <1>6 DEF AccountRow
      <3>2. e \in DOMAIN accounts' =>
                (e \in DOMAIN accounts' /\ accounts'[e].active) = accounts'[e].active
        BY <3>1
      <3> QED
        BY <1>3, <3>2
    <2> QED
      BY <2>2, <2>3
  <1>9. ~off.active \/ ~old.active
    <2>1. off.active <=> e \in DOMAIN accounts' /\ accounts'[e].active
      OBVIOUS
    <2>2. e \in DOMAIN accounts' => accounts'[e].active = ~old.active
      BY <1>5
    <2> QED
      BY <2>1, <2>2
  <1> HIDE DEF off
  <1>10. saw' = [x \in Twins |-> saw'[x]]
    BY <1>1
  <1>11. DelegatedTypeOK'
    BY <1>1, <1>6, <1>10 DEF DelegatedInv, DelegatedTypeOK, DelegatedRequest, Delegated!Idle
  <1>12. ProfilesOK' /\ CreatorsOK'
    BY <1>1 DEF DelegatedInv, ProfilesOK, CreatorsOK, Delegated!InNamespace
  <1>13. ASSUME NEW x \in Twins
         PROVE  request'[x].at # "idle" =>
                    Known(request'[x], profiles'[request'[x].by], saw'[x], accounts', mishaps', clock')
    <2>1. request'[x] = request[x] /\ saw[x] \subseteq saw'[x]
      BY <1>1
    <2>2. ASSUME request[x].at # "idle"
          PROVE  LET m == request[x].token.email IN
                 /\ m \in DOMAIN accounts' => accounts'[m] \in saw'[x]
                 /\ m \in DOMAIN accounts
                    /\ (m \notin DOMAIN accounts' \/ accounts'[m] # accounts[m])
                    => Excused(saw'[x], mishaps')
      <3>1. request[x] # Delegated!Idle
        BY <2>2, RequestKind DEF DelegatedInv
      <3>2. request[x].token.email \in DOMAIN accounts
                => accounts[request[x].token.email] \in saw[x]
        BY <2>2 DEF DelegatedInv, RequestsOK, Known
      <3>3. ASSUME request[x].token.email = e
            PROVE  /\ e \in DOMAIN accounts' => accounts'[e] \in saw'[x]
                   /\ Excused(saw'[x], mishaps')
        <4>1. off \in saw'[x] /\ old \in saw'[x]
          BY <1>1, <1>3, <2>1, <3>1, <3>2, <3>3
        <4>2. old.id # 0
          BY <1>4
        <4> QED
          BY <1>4, <1>8, <1>9, <4>1, <4>2 DEF Excused
      <3>4. ASSUME request[x].token.email # e
            PROVE  LET m == request[x].token.email IN
                   /\ m \in DOMAIN accounts' => accounts'[m] \in saw'[x]
                   /\ ~(m \in DOMAIN accounts
                        /\ (m \notin DOMAIN accounts' \/ accounts'[m] # accounts[m]))
        BY <1>7, <2>1, <3>2, <3>4
      <3> QED
        BY <3>3, <3>4
    <2>3. clock' \in Nat /\ clock <= clock' /\ mishaps' \in Nat /\ mishaps <= mishaps'
      BY <1>1 DEF DelegatedInv, DelegatedTypeOK
    <2> QED
      BY <1>1, <2>1, <2>2, <2>3, OthersKnown DEF DelegatedInv
  <1>14. RequestsOK'
    BY <1>13 DEF RequestsOK
  <1>15. BucketsOK'
    BY <1>1, LogStays DEF DelegatedInv
  <1> QED
    BY <1>11, <1>12, <1>14, <1>15 DEF DelegatedInv

(* Time passes, the log is flushed, or nothing of this happens. *)
LEMMA QuietStep ==
    ASSUME DelegatedInv,
           UNCHANGED <<profiles, accounts, nextId, request, creators, saw, mishaps>>,
           clock' \in Nat, clock <= clock', BucketsOK'
    PROVE  DelegatedInv'
  <1>1. DelegatedTypeOK' /\ ProfilesOK' /\ CreatorsOK'
    BY DEF DelegatedInv, DelegatedTypeOK, ProfilesOK, CreatorsOK, DelegatedRequest,
           Delegated!Idle, Delegated!InNamespace
  <1>2. ASSUME NEW x \in Twins
        PROVE  request'[x].at # "idle" =>
                   Known(request'[x], profiles'[request'[x].by], saw'[x], accounts', mishaps', clock')
    <2>1. request[x].at # "idle" /\ request[x].token.email \in DOMAIN accounts
              => accounts[request[x].token.email] \in saw[x]
      BY DEF DelegatedInv, RequestsOK, Known
    <2>2. mishaps' \in Nat /\ mishaps <= mishaps'
      BY DEF DelegatedInv, DelegatedTypeOK
    <2> QED
      BY <2>1, <2>2, OthersKnown DEF DelegatedInv
  <1>3. RequestsOK'
    BY <1>2 DEF RequestsOK
  <1> QED
    BY <1>1, <1>3 DEF DelegatedInv

(* A step of the delegated endpoints, or of another part. *)
LEMMA DelegatedStep ==
    ASSUME DelegatedInv,
           Delegated!Next \/ UNCHANGED <<profileVars, request, clock, mishaps>>
    PROVE  DelegatedInv'
  <1>1. ASSUME NEW c \in Twins, Delegated!Step(c)
        PROVE  DelegatedInv'
    BY <1>1, ArriveStep, VerifyStep, FindStep, CreateStep, RereadStep, ReadStep, AnsweredStep
       DEF Delegated!Step
  <1>2. ASSUME NEW e, Delegated!ChangeAccount(e)
        PROVE  DelegatedInv'
    BY <1>2, AccountStep
  <1>3. CASE Delegated!Tick \/ UNCHANGED <<profileVars, request, clock, mishaps>>
    <2>1. /\ UNCHANGED <<profiles, accounts, nextId, request, creators, saw, mishaps>>
          /\ UNCHANGED <<log, rejected, lines>>
      BY <1>3 DEF Delegated!Tick, profileVars
    <2>2. clock' \in Nat /\ clock <= clock'
      BY <1>3 DEF Delegated!Tick, DelegatedInv, DelegatedTypeOK
    <2> QED
      BY <2>1, <2>2, LogStays, QuietStep DEF DelegatedInv
  <1>4. CASE Delegated!FlushExpired \/ Delegated!Destroy
    <2>1. UNCHANGED <<profiles, accounts, nextId, request, creators, saw, mishaps, clock>>
      BY <1>4 DEF Delegated!FlushExpired, Delegated!Destroy
    <2>2. clock' \in Nat /\ clock <= clock'
      BY <2>1 DEF DelegatedInv, DelegatedTypeOK
    <2> QED
      BY <1>4, <2>1, <2>2, FlushStep, QuietStep DEF DelegatedInv
  <1> QED
    BY <1>1, <1>2, <1>3, <1>4 DEF Delegated!Next

--------------------------------------------------------------------------------
(* The sum of the parts *)

ServiceInv == /\ part = "exchange" => EInv
              /\ part = "webhook" => WInv
              /\ part = "schema" => SchemaInv
              /\ part = "registry" => RegistryInv
              /\ part = "mcp" => McpInv
              /\ part = "delegated" => DelegatedInv
              /\ part = "auth" => AuthInv

(* The configuration that boot accepted and resolved, or none. *)
LEMMA Resolving ==
    ASSUME NEW c \in Delegations, NEW https, Delegated!ValidConfiguration(c, https),
           profiles = Delegated!Resolved(c)
    PROVE  ProfilesOK
  <1>1. profiles = [n \in DOMAIN c |-> [c[n] EXCEPT !.provisioning =
                                          IF @ = "absent" THEN "never" ELSE @]]
    BY DEF Delegated!Resolved
  <1>2. SUFFICES ASSUME NEW n \in DOMAIN c
                 PROVE  /\ profiles[n].provisioning \in {"never", "jit"}
                        /\ Delegated!InNamespace(profiles[n])
                        /\ profiles[n].maxAge \in Int /\ profiles[n].tolerance \in Int
                        /\ {<<n, "identity_mapping_failed">>, <<n, "token_rejected">>,
                            <<n, "internal_error">>} \subseteq Delegated!LogKeys
    BY <1>1 DEF ProfilesOK
  <1>3. PICK q : q = c[n]
    OBVIOUS
  <1>4. /\ DOMAIN q = {"wellFormed", "https", "insecure", "issuer", "audience", "more", "clients",
                       "scopes", "namespace", "maxAge", "tolerance", "provisioning"}
        /\ q.maxAge \in Int /\ q.tolerance \in Int
    BY <1>3, DelegationAssumption
  <1>5. Delegated!ValidProfile(q)
    BY <1>3 DEF Delegated!ValidConfiguration
  <1>6. PICK was : was = [q EXCEPT !.provisioning = IF @ = "absent" THEN "never" ELSE @]
    OBVIOUS
  <1>7. profiles[n] = was
    BY <1>1, <1>3, <1>6
  <1>8. /\ was.maxAge = q.maxAge /\ was.tolerance = q.tolerance
        /\ was.scopes = q.scopes /\ was.namespace = q.namespace
        /\ was.provisioning = IF q.provisioning = "absent" THEN "never" ELSE q.provisioning
    BY <1>4, <1>6
  <1>9. was.provisioning \in {"never", "jit"}
    BY <1>5, <1>8 DEF Delegated!ValidProfile
  <1>10. Delegated!InNamespace(was)
    BY <1>5, <1>8 DEF Delegated!ValidProfile, Delegated!InNamespace
  <1>11. {<<n, "identity_mapping_failed">>, <<n, "token_rejected">>, <<n, "internal_error">>}
             \subseteq Delegated!LogKeys
    <2>1. n \in UNION {DOMAIN f : f \in Delegations}
      OBVIOUS
    <2> QED
      BY <2>1 DEF Delegated!LogKeys
  <1> QED
    BY <1>4, <1>7, <1>8, <1>9, <1>10, <1>11

LEMMA DelegatedInit == Delegated!Init => DelegatedInv
  <1> SUFFICES ASSUME Delegated!Init PROVE DelegatedInv
    OBVIOUS
  <1>1. /\ accounts \in {[e \in S |-> [id |-> 1, active |-> b]] :
                             S \in {{}} \cup {{e} : e \in LoginEmails}, b \in BOOLEAN}
        /\ nextId = 2 /\ clock = 0 /\ mishaps = 0 /\ log = << >> /\ creators = {}
        /\ request = [q \in Twins |-> Delegated!Idle] /\ saw = [q \in Twins |-> {}]
        /\ rejected = [w \in Delegated!LogKeys |-> 0]
        /\ lines = [w \in Delegated!LogKeys |-> 0]
    BY DEF Delegated!Init
  <1>2. ProfilesOK
    <2>1. CASE profiles = << >>
      BY <2>1 DEF ProfilesOK
    <2>2. ASSUME NEW c \in Delegations, NEW https,
                 Delegated!ValidConfiguration(c, https), profiles = Delegated!Resolved(c)
          PROVE  ProfilesOK
      BY <2>2, Resolving
    <2> QED
      BY <2>1, <2>2 DEF Delegated!Init
  <1>3. DelegatedTypeOK
    <2>1. /\ accounts = [e \in DOMAIN accounts |-> accounts[e]]
          /\ \A e \in DOMAIN accounts : accounts[e] \in AccountRow
      <3>1. PICK S \in {{}} \cup {{e} : e \in LoginEmails}, b \in BOOLEAN :
                accounts = [e \in S |-> [id |-> 1, active |-> b]]
        BY <1>1
      <3>2. [id |-> 1, active |-> b] \in AccountRow
        BY <3>1 DEF AccountRow
      <3> QED
        BY <3>1, <3>2
    <2> QED
      BY <1>1, <2>1 DEF DelegatedTypeOK
  <1>4. RequestsOK /\ CreatorsOK
    BY <1>1 DEF RequestsOK, CreatorsOK, Delegated!Idle
  <1>5. BucketsOK
    <2>1. DOMAIN log = {} /\ log = [b \in DOMAIN log |-> log[b]]
      BY <1>1
    <2>2. Delegated!RejectionsTold
      BY <1>1, <2>1 DEF Delegated!RejectionsTold
    <2> QED
      BY <1>1, <2>1, <2>2 DEF BucketsOK
  <1> QED
    BY <1>2, <1>3, <1>4, <1>5 DEF DelegatedInv

(* What the invariant says of a request that was served or refused, of the accounts that were
   made, and of two profiles that take the same token. *)
LEMMA DelegatedTells == DelegatedInv => Delegated!DelegatedRightly
  <1> SUFFICES ASSUME DelegatedInv PROVE Delegated!DelegatedRightly
    OBVIOUS
  <1>1. \A q \in Twins : request[q].at # "idle" =>
            Known(request[q], profiles[request[q].by], saw[q], accounts, mishaps, clock)
    BY DEF DelegatedInv, RequestsOK
  <1>2. Delegated!ServedRightly
    <2>1. ASSUME NEW q \in Twins, request[q].at = "served"
          PROVE  /\ request[q].token.verified /\ request[q].token.bearer
                 /\ \E u \in saw[q] : u.active /\ u.id = request[q].user
      BY <1>1, <2>1 DEF Known
    <2> QED
      BY <2>1 DEF Delegated!ServedRightly, DelegatedInv, CreatorsOK
  <1>3. Delegated!RefusedForCause
    <2>1. ASSUME NEW q \in Twins, request[q].at = "401", Delegated!Good(q)
          PROVE  Excused(saw[q], mishaps)
      <3>1. Known(request[q], profiles[request[q].by], saw[q], accounts, mishaps, clock)
        BY <1>1, <2>1
      <3>2. /\ Timeless(request[q].token, profiles[request[q].by])
            /\ InTime(request[q].token, profiles[request[q].by], clock)
        BY <2>1, AcceptedIs DEF Delegated!Good, Delegated!Profile
      <3> QED
        BY <2>1, <3>1, <3>2 DEF Known, Delegated!Good, Delegated!Profile
    <2> QED
      BY <2>1 DEF Delegated!RefusedForCause, Excused
  <1>4. Delegated!OneDelegationPerToken
    <2>1. ASSUME NEW m \in DOMAIN profiles, NEW n \in DOMAIN profiles, NEW t,
                 profiles[m].namespace = profiles[n].namespace,
                 Delegated!Accepted(t, profiles[m]), Delegated!Accepted(t, profiles[n])
          PROVE  profiles[m].scopes = profiles[n].scopes
      <3>1. /\ Delegated!ScopesGranted(t, profiles[m]) /\ Delegated!ScopesGranted(t, profiles[n])
            /\ Delegated!InNamespace(profiles[m]) /\ Delegated!InNamespace(profiles[n])
        BY <2>1 DEF Delegated!Accepted, DelegatedInv, ProfilesOK
      <3>2. PICK g, h, own : g = profiles[m].scopes /\ h = profiles[n].scopes
                             /\ own = profiles[m].namespace
        OBVIOUS
      <3>3. /\ g \subseteq t.scopes /\ h \subseteq t.scopes
            /\ \A x \in t.scopes : x.in = own => x \in g /\ x \in h
            /\ \A x \in g \cup h : x.in = own
        BY <2>1, <3>1, <3>2 DEF Delegated!ScopesGranted, Delegated!InNamespace
      <3>4. g = h
        BY <3>3
      <3> QED
        BY <3>2, <3>4
    <2> QED
      BY <2>1 DEF Delegated!OneDelegationPerToken
  <1>5. Delegated!RejectionsTold
    BY DEF DelegatedInv, BucketsOK
  <1> QED
    BY <1>2, <1>3, <1>4, <1>5 DEF Delegated!DelegatedRightly

(* Every initial state. *)
LEMMA ServiceInit == SumInit => ServiceInv
  <1> SUFFICES ASSUME SumInit PROVE ServiceInv
    OBVIOUS
  <1>1. CASE part = "exchange"
    <2>1. /\ now = 1 /\ bucket = [count |-> 0, start |-> 0] /\ failures = 0 /\ openUntil = 0
          /\ keyBucket = bucket /\ logBucket = bucket /\ suppressed = 0 /\ disposed = FALSE
          /\ sent = << >> /\ passed = << >> /\ waitUntil = 0
          /\ outages = 0 /\ logged = 0 /\ rejections = 0 /\ late = 0
      BY <1>1 DEF SumInit, Exchange!Init, Exchange!Empty
    <2>2. Windowed(<< >>, [count |-> 0, start |-> 0], 1)
      <3>1. InOrder(<< >>, 1) /\ Spaced(<< >>, ThrottleLimit, ThrottleWindow)
        BY DEF InOrder, Spaced
      <3>2. Rested(<< >>, 1, ThrottleLimit, ThrottleWindow)
        BY ThrottleAssumption DEF Rested
      <3> QED
        BY <3>1, <3>2 DEF Windowed, WindowedBy, Bucket
    <2>3. Windowed(sent, bucket, now) /\ Windowed(passed, keyBucket, now)
      BY <2>1, <2>2
    <2>4. ExchangeTypeOK
      <3>1. disposed \in BOOLEAN
        BY <2>1
      <3>2. logBucket \in Bucket
        BY <2>1 DEF Bucket
      <3> QED
        BY <2>1, <3>1, <3>2 DEF ExchangeTypeOK
    <2>5. WaitOK /\ LogOK /\ CircuitOK
      BY <2>1, ThrottleAssumption DEF WaitOK, LogOK, CircuitOK
    <2> QED
      BY <1>1, <2>3, <2>4, <2>5 DEF ServiceInv, EInv
  <1>2. CASE part = "webhook"
    <2>1. /\ now = 0 /\ skew \in ClockSkews /\ sender = 1 /\ wire = {}
          /\ secrets = [secret |-> 1, previous |-> 0, expires |-> 0]
          /\ waiting = Webhook!None /\ verdict = [x \in WebhookEvents |-> "pending"] /\ applied = {}
      BY <1>2 DEF SumInit, Webhook!Init
    <2>2. WInv
      BY <2>1 DEF WInv, WebhookTypeOK, RotationOK, AwaitedOK, AppliedOK
    <2> QED
      BY <1>2, <2>2 DEF ServiceInv
  <1>3. CASE part = "schema"
    <2>1. schema \in ContractSchemas /\ stored = {}
      BY <1>3 DEF SumInit, Evolution!Init
    <2>2. SchemaInv
      BY <2>1 DEF SchemaInv
    <2> QED
      BY <1>3, <2>2 DEF ServiceInv
  <1>4. CASE part = "registry"
    <2>1. /\ lock \in [exists : BOOLEAN, of : {[v \in CapabilityVersions |-> Registry!NoDigest]}]
          /\ approved = [v \in CapabilityVersions |-> Registry!Missing]
      BY <1>4 DEF SumInit, Registry!Init
    <2>2. RegistryInv
      BY <2>1 DEF RegistryInv
    <2> QED
      BY <1>4, <2>2 DEF ServiceInv
  <1>5. CASE part = "mcp"
    <2>1. Mcp!Init
      BY <1>5 DEF SumInit, AuthInit
    <2>2. RoundsOK
      BY <2>1 DEF Mcp!Init, Mcp!NoCall, RoundsOK
    <2>3. todo \in Seq(Declarable) /\ toolMap = << >> /\ logicalTools = << >>
      BY <2>1, ToolAssumption DEF Mcp!Init
    <2>4. ToolsOK
      BY <2>3 DEF ToolsOK
    <2> QED
      BY <1>5, <2>2, <2>4 DEF ServiceInv, McpInv
  <1>6. CASE part = "delegated"
    BY <1>6, DelegatedInit DEF SumInit, AuthInit, ServiceInv
  <1>7. CASE part = "auth"
    BY <1>7, AuthStart DEF SumInit, AuthInit, ServiceInv
  <1> QED
    BY <1>1, <1>2, <1>3, <1>4, <1>5, <1>6, <1>7 DEF ServiceInv

(* A step of the exchanges, or of another part. *)
LEMMA ThrottleStep ==
    ASSUME EInv, Exchange!Next \/ UNCHANGED <<now, exchangeVars>>
    PROVE  EInv'
  <1>1. CASE \E c \in Procs : \E foreign \in BOOLEAN : Exchange!Exchange(c, foreign)
    BY <1>1, ExchangeStep
  <1>2. CASE \E c \in Procs : \E a \in Exchange!Answers : Exchange!Answer(c, a)
    BY <1>2, AnswerStep
  <1>3. CASE Exchange!Tick \/ Exchange!Flush \/ Exchange!Dispose
    BY <1>3, ClockAndLogStep
  <1>4. CASE Exchange!Evict
    BY <1>4, EvictStep
  <1>5. CASE Exchange!KeyRequest
    BY <1>5, KeyStep
  <1>6. CASE UNCHANGED <<now, exchangeVars>>
    BY <1>6 DEF exchangeVars, EInv, ExchangeTypeOK, WaitOK, LogOK, CircuitOK
  <1> QED
    BY <1>1, <1>2, <1>3, <1>4, <1>5, <1>6 DEF Exchange!Next

(* A step of the webhooks, or of another part. *)
LEMMA DeliveryStep ==
    ASSUME WInv, Webhook!Next \/ UNCHANGED <<now, webhookVars>>
    PROVE  WInv'
  <1>1. CASE \E e \in WebhookEvents : Webhook!Post(e)
    BY <1>1, PostStep
  <1>2. CASE \E m \in wire, answered \in BOOLEAN : Webhook!Receive(m, answered)
    BY <1>2, ReceiveStep
  <1>3. CASE Webhook!GiveUp
    BY <1>3, GiveUpStep
  <1>4. CASE Webhook!Rotate \/ Webhook!Follow \/ Webhook!Toggle \/ Webhook!Tick
    BY <1>4, OperatorStep
  <1>5. CASE UNCHANGED <<now, webhookVars>>
    BY <1>5 DEF webhookVars, WInv, WebhookTypeOK, RotationOK, AwaitedOK, Lasts, AppliedOK
  <1> QED
    BY <1>1, <1>2, <1>3, <1>4, <1>5 DEF Webhook!Next

(* Every step: of the part itself, or of another part, or none. *)
LEMMA ServiceStep == ServiceInv /\ [SumNext]_sumVars => ServiceInv'
  <1> SUFFICES ASSUME ServiceInv, [SumNext]_sumVars PROVE ServiceInv'
    OBVIOUS
  <1>1. part' = part
    BY DEF SumNext, sumVars
  <1>2. ASSUME part = "exchange" PROVE EInv'
    <2>1. Exchange!Next \/ UNCHANGED <<now, exchangeVars>>
      BY <1>2 DEF SumNext, ServiceSteps, sumVars, serviceVars
    <2> QED
      BY <1>2, <2>1, ThrottleStep DEF ServiceInv
  <1>3. ASSUME part = "webhook" PROVE WInv'
    <2>1. Webhook!Next \/ UNCHANGED <<now, webhookVars>>
      BY <1>3 DEF SumNext, ServiceSteps, sumVars, serviceVars
    <2> QED
      BY <1>3, <2>1, DeliveryStep DEF ServiceInv
  <1>4. ASSUME part = "schema" PROVE SchemaInv'
    <2>1. Evolution!Next \/ UNCHANGED schemaVars
      BY <1>4 DEF SumNext, ServiceSteps, sumVars, serviceVars
    <2> QED
      BY <1>4, <2>1, SchemaStep DEF ServiceInv
  <1>5. ASSUME part = "registry" PROVE RegistryInv'
    <2>1. Registry!Next \/ UNCHANGED registryVars
      BY <1>5 DEF SumNext, ServiceSteps, sumVars, serviceVars
    <2> QED
      BY <1>5, <2>1, RegistryStep DEF ServiceInv
  <1>6. ASSUME part = "mcp" PROVE McpInv'
    <2>1. Mcp!Next \/ UNCHANGED <<clock, toolVars>>
      <3>1. AuthNext(part) \/ UNCHANGED authVars
        BY DEF SumNext, sumVars
      <3> QED
        BY <1>6, <3>1 DEF AuthNext, authVars, commonVars
    <2> QED
      BY <1>6, <2>1, RoundsStep, ToolsStep DEF ServiceInv, McpInv
  <1>7. ASSUME part = "delegated" PROVE DelegatedInv'
    <2>1. Delegated!Next \/ UNCHANGED <<profileVars, request, clock, mishaps>>
      <3>1. AuthNext(part) \/ UNCHANGED authVars
        BY DEF SumNext, sumVars
      <3> QED
        BY <1>7, <3>1 DEF AuthNext, authVars, commonVars, profileVars
    <2> QED
      BY <1>7, <2>1, DelegatedStep DEF ServiceInv
  <1>8. ASSUME part = "auth" PROVE AuthInv'
    <2>1. Auth!Next \/ UNCHANGED <<requestVars, request, commonVars>>
      <3>1. AuthNext(part) \/ UNCHANGED authVars
        BY DEF SumNext, sumVars
      <3> QED
        BY <1>8, <3>1 DEF AuthNext, authVars
    <2> QED
      BY <1>8, <2>1, AuthStep DEF ServiceInv
  <1> QED
    BY <1>1, <1>2, <1>3, <1>4, <1>5, <1>6, <1>7, <1>8 DEF ServiceInv

(* throttles, webhooks, contracts, guards and tools: what ServiceInv says of the part that a
   behaviour is of holds in every state, for every length of the windows, every limit, every skew
   the window allows, every set of schemas, versions, tools, keys, routes and tokens. *)
THEOREM ServiceInvariance == SumSpec => []ServiceInv
  BY ServiceInit, ServiceStep, PTL DEF SumSpec

(* compareContracts and validateJsonSchema: along a chain of releases that the checker calls
   compatible, under any profile, a reader has an issue with a document written under any of
   them only at the keys that the checker passed over. *)
THEOREM SchemaTheorem == SumSpec => []StoredStillRead
  <1>1. ServiceInv => StoredStillRead
    BY StillRead DEF ServiceInv, StoredStillRead
  <1> QED
    BY <1>1, ServiceInvariance, PTL

(* contract-cli: when validate, index --check and generate-runtime --check pass, the runtime is
   of the content the binding pins, and what was locked and is approved is as it was locked. *)
THEOREM RegistryTheorem == SumSpec => []GreenMeansPinned
  <1>1. ServiceInv => GreenMeansPinned
    BY GreenPins, LockHolds DEF ServiceInv, GreenMeansPinned
  <1> QED
    BY <1>1, ServiceInvariance, PTL

(* request-state.ts and mcp-tool.registry.ts: no chain of handler runs is longer than the rounds
   allow, nothing is resumed for another key, and what the catalogue names can be called. *)
THEOREM McpTheorem == SumSpec => []McpRightly
  <1>1. ServiceInv => McpRightly
    BY ToolsTell DEF ServiceInv, McpRightly
  <1> QED
    BY <1>1, ServiceInvariance, PTL

(* delegated-jwt-verifier.service.ts and jwt-verifier.service.ts: a request with an exchanged
   token is served for an account that was active under its verified email meanwhile; only
   profiles that provision make accounts; a login that would have been good is refused only for
   a fault or for an account that was off or removed meanwhile; a token serves one delegation of
   its namespace; every rejection is told.  For every number of requests at once, every set of
   configurations and tokens and every limit. *)
THEOREM DelegatedTheorem == SumSpec => []DelegatedRightly
  <1>1. ServiceInv => DelegatedRightly
    BY DelegatedTells DEF ServiceInv, DelegatedRightly
  <1> QED
    BY <1>1, ServiceInvariance, PTL

(* strategy-registry.ts, jwt-verifier.service.ts, api-key-machine.strategy.ts: an App that listens
   has one way to log in at most; who is served had the account, the roles or the key it is
   served for while its request was under way, and no key stands in for a login that was
   presented; a good login is refused only for what was true of the account meanwhile or for a
   fetch that failed; the limiter lets less than twice the limit through in a window's length.
   For every set of Apps, routes, roles, credentials, accounts and keys, and any number of
   requests at once. *)
THEOREM RequestsTheorem == SumSpec => []AnswersRightly
  <1>1. ServiceInv => AnswersRightly
    BY AuthTells DEF ServiceInv, AnswersRightly
  <1> QED
    BY <1>1, ServiceInvariance, PTL

(* outbound-throttle.ts, api-key-rate-limiter.ts, security-event-log.ts: no period of a window's
   length lets 2 * Limit calls through, who waits Retry-After is served, the circuit counts the
   outages since the last success, and every rejection is logged or in a summary. *)
THEOREM ThrottleTheorem == SumSpec => []ThrottleHonest
  <1>1. ServiceInv => ThrottleHonest
    BY HonestThrottle DEF ServiceInv, ThrottleHonest
  <1> QED
    BY <1>1, ServiceInvariance, PTL

(* postDomainEventWebhookV2 and verifyDomainEventWebhookV2: what the sender takes for processed
   was applied, and no lost answer, copy, skew or rotation has an event rejected for good. *)
THEOREM WebhooksTheorem == SumSpec => []WebhooksEndRightly
  <1>1. ServiceInv => WebhooksEndRightly
    <2> SUFFICES ASSUME ServiceInv, part = "webhook"
                 PROVE  Webhook!ProcessedWasApplied /\ Webhook!OnlyTheBudgetKills
      BY DEF WebhooksEndRightly
    <2>1. verdict \in [WebhookEvents -> {"pending", "processed", "dead: budget"}] /\ AppliedOK
      BY DEF ServiceInv, WInv, WebhookTypeOK
    <2> QED
      BY <2>1 DEF AppliedOK, Webhook!ProcessedWasApplied, Webhook!OnlyTheBudgetKills
  <1> QED
    BY <1>1, ServiceInvariance, PTL
================================================================================
