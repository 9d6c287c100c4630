--------------------------- MODULE ObserverProofs ---------------------------
(***************************************************************************)
(* Proofs about Observer: whatever threads observe and flush, whichever    *)
(* requests and answers are lost or late and whenever the control plane    *)
(* restarts, no observation is lost, none is queued twice, no event is     *)
(* stored twice, and a run that has ended keeps its recording.  And about  *)
(* StageAudio: wherever a stage's PCM is cut into chunks, its clicks are   *)
(* reported as if it had not been cut.                                     *)
(***************************************************************************)
EXTENDS Observer, StageAudio, FiniteSetTheorems, WellFoundedInduction, TLAPS

-----------------------------------------------------------------------------
(* Induction.  The library's induction theorems take the induction         *)
(* hypothesis as an operator; a least counterexample does the same.        *)

NatLess == {p \in Nat \X Nat : p[1] < p[2]}

(* Every nonempty set of natural numbers has a least member. *)
LEMMA LeastMember ==
  ASSUME NEW S \in SUBSET Nat, S # {}
  PROVE  \E x \in S : \A y \in S : x <= y
  <1>1. IsWellFoundedOn(NatLess, Nat)
    BY NatLessThanWellFounded, Zenon DEF OpToRel, NatLess
  <1>2. PICK x \in S : \A y \in S : ~ (<<y, x>> \in NatLess)
    BY <1>1, WFMin
  <1>3. \A y \in S : <<y, x>> \in NatLess <=> y < x
    BY DEF NatLess
  <1>4. x \in Nat /\ \A y \in S : y \in Nat
    OBVIOUS
  <1>5. \A y \in S : ~ (y < x)
    BY <1>2, <1>3, Zenon
  <1> QED
    BY <1>4, <1>5

(* What holds for 0 and passes from n to n + 1 holds up to N.  The set of the
   numbers for which it holds stands for the hypothesis. *)
LEMMA InductionUpTo ==
  ASSUME NEW N \in Nat, NEW Good, 0 \in Good,
         \A n \in 1..N : n - 1 \in Good => n \in Good
  PROVE  \A n \in 0..N : n \in Good
  <1> DEFINE Bad == {n \in 0..N : n \notin Good}
  <1> SUFFICES ASSUME Bad # {} PROVE FALSE
    OBVIOUS
  <1>1. Bad \in SUBSET Nat
    OBVIOUS
  <1> HIDE DEF Bad
  <1>2. PICK n \in Bad : \A m \in Bad : n <= m
    BY <1>1, LeastMember
  <1>3. n \in 1..N /\ n - 1 \in 0..N /\ n \notin Good
    BY <1>2 DEF Bad
  <1>4. n - 1 \in Good
    BY <1>2, <1>3 DEF Bad
  <1> QED
    BY <1>3, <1>4

-----------------------------------------------------------------------------
(* Sequences as the sets of their members *)

(* The members of a concatenation. *)
LEMMA RangeConcat ==
  ASSUME NEW s \in Seq(Nat), NEW t \in Seq(Nat)
  PROVE  s \o t \in Seq(Nat) /\ Range(s \o t) = Range(s) \cup Range(t)
  <1>1. /\ Len(s \o t) = Len(s) + Len(t)
        /\ \A i \in 1..Len(s) : (s \o t)[i] = s[i]
        /\ \A i \in 1..Len(t) : (s \o t)[Len(s) + i] = t[i]
        /\ s \o t \in Seq(Nat)
    OBVIOUS
  <1>2. ASSUME NEW x \in Range(s \o t) PROVE x \in Range(s) \cup Range(t)
    <2>1. PICK i \in 1..(Len(s) + Len(t)) : (s \o t)[i] = x
      BY <1>1 DEF Range
    <2>2. CASE i <= Len(s)
      BY <2>1, <2>2, <1>1 DEF Range
    <2>3. CASE i > Len(s)
      <3>1. i - Len(s) \in 1..Len(t) /\ i = Len(s) + (i - Len(s))
        BY <2>3
      <3> QED
        BY <3>1, <2>1, <1>1 DEF Range
    <2> QED
      BY <2>2, <2>3
  <1>3. ASSUME NEW x \in Range(s) PROVE x \in Range(s \o t)
    BY <1>1, SMTT(30) DEF Range
  <1>4. ASSUME NEW x \in Range(t) PROVE x \in Range(s \o t)
    <2>1. PICK i \in 1..Len(t) : t[i] = x
      BY DEF Range
    <2>2. Len(s) + i \in DOMAIN (s \o t) /\ (s \o t)[Len(s) + i] = x
      BY <1>1, <2>1
    <2> QED
      BY <2>2 DEF Range
  <1> QED
    BY <1>1, <1>2, <1>3, <1>4

(* The members after an Append. *)
LEMMA RangeAppend ==
  ASSUME NEW s \in Seq(Nat), NEW x \in Nat
  PROVE  /\ Append(s, x) \in Seq(Nat)
         /\ Range(Append(s, x)) = Range(s) \cup {x}
  <1>1. /\ Len(Append(s, x)) = Len(s) + 1
        /\ \A i \in 1..Len(s) : Append(s, x)[i] = s[i]
        /\ Append(s, x)[Len(s) + 1] = x
        /\ Append(s, x) \in Seq(Nat)
    OBVIOUS
  <1>2. ASSUME NEW y \in Range(Append(s, x)) PROVE y \in Range(s) \cup {x}
    BY <1>1 DEF Range
  <1>3. ASSUME NEW y \in Range(s) \cup {x} PROVE y \in Range(Append(s, x))
    <2>1. Len(s) + 1 \in 1..Len(Append(s, x))
      BY <1>1
    <2> QED
      BY <1>1, <2>1 DEF Range
  <1> QED
    BY <1>1, <1>2, <1>3

(* A part of a sequence has only members of it, and repeats none of them if the
   sequence repeats none. *)
LEMMA PartOfSeq ==
  ASSUME NEW s \in Seq(Nat), NEW m \in Nat \ {0}, NEW n \in Nat, n <= Len(s)
  PROVE  /\ SubSeq(s, m, n) \in Seq(Nat)
         /\ Len(SubSeq(s, m, n)) = IF m <= n THEN n - m + 1 ELSE 0
         /\ \A i \in 1..Len(SubSeq(s, m, n)) : SubSeq(s, m, n)[i] = s[m + i - 1]
         /\ Range(SubSeq(s, m, n)) = {s[i] : i \in m..n}
         /\ ~Repeats(s) => ~Repeats(SubSeq(s, m, n))
  <1> DEFINE t == SubSeq(s, m, n)
  <1>1. /\ t \in Seq(Nat)
        /\ Len(t) = IF m <= n THEN n - m + 1 ELSE 0
        /\ \A i \in 1..Len(t) : t[i] = s[m + i - 1]
        /\ DOMAIN t = 1..Len(t) /\ DOMAIN s = 1..Len(s) /\ Len(s) \in Nat
    OBVIOUS
  <1> HIDE DEF t
  <1>2. ASSUME NEW i \in DOMAIN t
        PROVE  m + i - 1 \in m..n /\ m + i - 1 \in DOMAIN s /\ t[i] = s[m + i - 1]
    <2>1. i \in 1..Len(t) /\ i \in Int
      BY <1>1
    <2>2. m <= n /\ Len(t) = n - m + 1
      BY <1>1, <2>1
    <2>3. m + i - 1 \in m..n
      BY <2>1, <2>2
    <2>4. m + i - 1 \in 1..Len(s)
      BY <1>1, <2>3, SMTT(30)
    <2> QED
      BY <1>1, <2>1, <2>3, <2>4
  <1>3. ASSUME NEW j \in m..n
        PROVE  j - m + 1 \in DOMAIN t /\ t[j - m + 1] = s[j]
    <2>1. m <= n /\ j - m + 1 \in 1..(n - m + 1) /\ m + (j - m + 1) - 1 = j
      OBVIOUS
    <2> QED
      BY <1>1, <2>1
  <1>4. Range(t) = {s[i] : i \in m..n}
    <2>1. ASSUME NEW x \in Range(t) PROVE x \in {s[i] : i \in m..n}
      <3>1. PICK i \in DOMAIN t : x = t[i]
        BY DEF Range
      <3> QED
        BY <3>1, <1>2
    <2>2. ASSUME NEW j \in m..n PROVE s[j] \in Range(t)
      BY <1>3 DEF Range
    <2> QED
      BY <2>1, <2>2
  <1>5. ASSUME ~Repeats(s) PROVE ~Repeats(t)
    <2> SUFFICES ASSUME NEW i \in DOMAIN t, NEW j \in DOMAIN t, i # j, t[i] = t[j]
                 PROVE  FALSE
      BY DEF Repeats
    <2>1. i \in Int /\ j \in Int
      BY <1>1
    <2>2. m + i - 1 # m + j - 1
      BY <2>1
    <2>3. /\ m + i - 1 \in DOMAIN s /\ m + j - 1 \in DOMAIN s
          /\ s[m + i - 1] = s[m + j - 1]
      BY <1>2
    <2> QED
      BY <2>2, <2>3, <1>5 DEF Repeats
  <1> QED
    BY <1>1, <1>4, <1>5 DEF t

(* Cutting a sequence at a limit. *)
LEMMA SplitSeq ==
  ASSUME NEW s \in Seq(Nat), NEW L \in Nat \ {0}
  PROVE  LET first == SubSeq(s, 1, Least(L, Len(s)))
             others == SubSeq(s, L + 1, Len(s))
         IN  /\ first \in Seq(Nat) /\ others \in Seq(Nat)
             /\ Len(first) <= L
             /\ Range(s) = Range(first) \cup Range(others)
             /\ ~Repeats(s) => ~Repeats(first) /\ ~Repeats(others)
  <1>1. Len(s) \in Nat /\ DOMAIN s = 1..Len(s)
    OBVIOUS
  <1>a. Least(L, Len(s)) \in {L, Len(s)}
    BY DEF Least
  <1>0. PICK n \in Nat : n = Least(L, Len(s))
    BY <1>1, <1>a
  <1>2. n <= Len(s) /\ n <= L /\ (n = L \/ n = Len(s))
    <2>1. CASE L <= Len(s)
      BY <1>0, <1>1, <2>1 DEF Least
    <2>2. CASE ~ (L <= Len(s))
      BY <1>0, <1>1, <2>2 DEF Least
    <2> QED
      BY <2>1, <2>2
  <1>3. PICK first : first = SubSeq(s, 1, n)
    OBVIOUS
  <1>4. PICK others : others = SubSeq(s, L + 1, Len(s))
    OBVIOUS
  <1>5. /\ first \in Seq(Nat)
        /\ Len(first) = IF 1 <= n THEN n - 1 + 1 ELSE 0
        /\ Range(first) = {s[i] : i \in 1..n}
        /\ ~Repeats(s) => ~Repeats(first)
    <2>1. 1 \in Nat \ {0}
      OBVIOUS
    <2> QED
      BY <1>0, <1>2, <1>3, <2>1, PartOfSeq
  <1>6. /\ others \in Seq(Nat)
        /\ Range(others) = {s[i] : i \in (L + 1)..Len(s)}
        /\ ~Repeats(s) => ~Repeats(others)
    <2>1. L + 1 \in Nat \ {0}
      OBVIOUS
    <2>2. PICK a \in Nat \ {0} : a = L + 1
      BY <2>1
    <2>3. PICK b \in Nat : b = Len(s)
      BY <1>1, Zenon
    <2>4. b <= Len(s)
      BY <2>3
    <2>5. /\ SubSeq(s, a, b) \in Seq(Nat)
          /\ Range(SubSeq(s, a, b)) = {s[i] : i \in a..b}
          /\ ~Repeats(s) => ~Repeats(SubSeq(s, a, b))
      BY <2>4, PartOfSeq
    <2> QED
      BY <1>4, <2>2, <2>3, <2>5, Zenon
  <1>7. /\ \A i \in 1..Len(s) : i \in 1..n \/ i \in (L + 1)..Len(s)
        /\ \A i \in 1..n : i \in 1..Len(s)
        /\ \A i \in (L + 1)..Len(s) : i \in 1..Len(s)
    BY <1>0, <1>1, <1>2
  <1>8. Range(s) = Range(first) \cup Range(others)
    BY <1>1, <1>5, <1>6, <1>7 DEF Range
  <1>9. Len(first) <= L
    BY <1>0, <1>2, <1>5
  <1> QED
    BY <1>0, <1>3, <1>4, <1>5, <1>6, <1>8, <1>9

(* A concatenation repeats no member if neither part does and they share none. *)
LEMMA ConcatRepeatsNot ==
  ASSUME NEW s \in Seq(Nat), NEW t \in Seq(Nat), ~Repeats(s), ~Repeats(t),
         Range(s) \cap Range(t) = {}
  PROVE  ~Repeats(s \o t)
  <1> DEFINE u == s \o t
  <1>1. /\ DOMAIN u = 1..(Len(s) + Len(t))
        /\ \A i \in 1..Len(s) : u[i] = s[i]
        /\ \A i \in 1..Len(t) : u[Len(s) + i] = t[i]
    OBVIOUS
  <1> HIDE DEF u
  <1>2. \A i \in DOMAIN u :
          \/ i \in DOMAIN s /\ u[i] = s[i] /\ u[i] \in Range(s)
          \/ /\ i > Len(s) /\ i - Len(s) \in DOMAIN t
             /\ u[i] = t[i - Len(s)] /\ u[i] \in Range(t)
    <2> TAKE i \in DOMAIN u
    <2>3. CASE i \in 1..Len(s)
      BY <1>1, <2>3 DEF Range
    <2> SUFFICES ASSUME i \notin 1..Len(s)
                 PROVE  /\ i > Len(s) /\ i - Len(s) \in DOMAIN t
                        /\ u[i] = t[i - Len(s)] /\ u[i] \in Range(t)
      BY <2>3
    <2>1. i > Len(s) /\ i - Len(s) \in DOMAIN t /\ i = Len(s) + (i - Len(s))
      BY <1>1
    <2>2. u[i] = t[i - Len(s)]
      BY <1>1, <2>1
    <2> QED
      BY <2>1, <2>2 DEF Range
  <1> SUFFICES ASSUME NEW i \in DOMAIN u, NEW j \in DOMAIN u, i # j, u[i] = u[j]
               PROVE  FALSE
    BY DEF Repeats, u
  <1>3. CASE i \in DOMAIN s /\ j \in DOMAIN s
    BY <1>1, <1>3, SMTT(30) DEF Repeats
  <1>4. CASE i > Len(s) /\ j > Len(s)
    <2>1. i \in Int /\ j \in Int /\ Len(s) \in Nat
      BY <1>1
    <2>2. i - Len(s) # j - Len(s)
      BY <2>1
    <2>3. /\ i - Len(s) \in DOMAIN t /\ j - Len(s) \in DOMAIN t
          /\ t[i - Len(s)] = t[j - Len(s)]
      BY <1>2, <1>4
    <2> QED
      BY <2>2, <2>3 DEF Repeats
  <1>5. CASE u[i] \in Range(s) /\ u[j] \in Range(t)
    BY <1>5
  <1>6. CASE u[i] \in Range(t) /\ u[j] \in Range(s)
    BY <1>6
  <1> QED
    BY <1>2, <1>3, <1>4, <1>5, <1>6

(* An Append of something new repeats nothing. *)
LEMMA AppendRepeatsNot ==
  ASSUME NEW s \in Seq(Nat), NEW x \in Nat, ~Repeats(s), x \notin Range(s)
  PROVE  ~Repeats(Append(s, x))
  <1>1. <<x>> \in Seq(Nat) /\ ~Repeats(<<x>>) /\ Range(<<x>>) = {x}
    BY DEF Repeats, Range
  <1>2. Append(s, x) = s \o <<x>>
    OBVIOUS
  <1> QED
    BY <1>1, <1>2, ConcatRepeatsNot

(* The recursive function in Without exists: it does up to every index. *)
LEMMA WithoutUnfolds ==
  ASSUME NEW s \in Seq(Nat), NEW X
  PROVE  \E kept :
           /\ kept[0] = <<>>
           /\ \A i \in 1..Len(s) :
                kept[i] = IF s[i] \in X THEN kept[i - 1]
                                        ELSE Append(kept[i - 1], s[i])
           /\ Without(s, X) = kept[Len(s)]
  <1> DEFINE Value(g, i) ==
               IF i = 0 THEN <<>>
               ELSE IF s[i] \in X THEN g[i - 1] ELSE Append(g[i - 1], s[i])
             Solves(g, n) == g = [i \in 0..n |-> Value(g, i)]
             Good == {n \in Nat : \E g : Solves(g, n)}
  <1> HIDE DEF Value
  <1>1. 0 \in Good
    <2>1. Solves([i \in 0..0 |-> <<>>], 0)
      BY DEF Value
    <2> QED
      BY <2>1
  <1>2. ASSUME NEW n \in 1..Len(s), n - 1 \in Good PROVE n \in Good
    <2>1. PICK g : Solves(g, n - 1)
      BY <1>2
    <2> DEFINE h == [i \in 0..n |-> Value(g, i)]
    <2>2. \A i \in 0..(n - 1) : h[i] = g[i]
      <3>1. \A i \in 0..(n - 1) : g[i] = Value(g, i)
        BY <2>1, Zenon
      <3> QED
        BY <3>1
    <2>3. \A i \in 0..n : Value(h, i) = Value(g, i)
      <3> HIDE DEF h
      <3> QED
        BY <2>2 DEF Value
    <2>4. Solves(h, n) /\ n \in Nat
      BY <2>3
    <2> HIDE DEF h, Solves
    <2> QED
      BY <2>4
  <1>3. Len(s) \in Good
    <2> HIDE DEF Good
    <2>1. Len(s) \in Nat
      OBVIOUS
    <2>2. \A n \in 0..Len(s) : n \in Good
      BY <1>1, <1>2, <2>1, InductionUpTo
    <2> QED
      BY <2>1, <2>2
  <1> DEFINE kept == CHOOSE g : Solves(g, Len(s))
  <1>4. Solves(kept, Len(s))
    BY <1>3, Zenon
  <1>5. Without(s, X) = kept[Len(s)]
    BY Zenon DEF Without, Value
  <1> HIDE DEF kept
  <1>6. \A i \in 0..Len(s) : kept[i] = Value(kept, i)
    BY <1>4, Zenon
  <1>7. kept[0] = <<>>
    <2>1. 0 \in 0..Len(s)
      OBVIOUS
    <2>2. kept[0] = Value(kept, 0)
      BY <1>6, <2>1, Zenon
    <2> QED
      BY <2>2, Zenon DEF Value
  <1>8. \A i \in 1..Len(s) :
          kept[i] = IF s[i] \in X THEN kept[i - 1] ELSE Append(kept[i - 1], s[i])
    <2> SUFFICES ASSUME NEW i \in 1..Len(s)
                 PROVE  kept[i] = IF s[i] \in X THEN kept[i - 1]
                                  ELSE Append(kept[i - 1], s[i])
      OBVIOUS
    <2>1. i \in 0..Len(s) /\ i # 0
      OBVIOUS
    <2>2. kept[i] = Value(kept, i)
      BY <1>6, <2>1, Zenon
    <2> QED
      BY <2>1, <2>2, Zenon DEF Value
  <1> QED
    BY <1>5, <1>7, <1>8

(* What Without leaves: the members that are not in the set, none of them twice
   if the sequence has none twice. *)
LEMMA WithoutKeeps ==
  ASSUME NEW s \in Seq(Nat), NEW X
  PROVE  /\ Without(s, X) \in Seq(Nat)
         /\ Range(Without(s, X)) = Range(s) \ X
         /\ ~Repeats(s) => ~Repeats(Without(s, X))
  <1>1. PICK kept :
           /\ kept[0] = <<>>
           /\ \A i \in 1..Len(s) :
                kept[i] = IF s[i] \in X THEN kept[i - 1]
                                        ELSE Append(kept[i - 1], s[i])
           /\ Without(s, X) = kept[Len(s)]
    BY WithoutUnfolds
  <1> DEFINE First(n) == {s[i] : i \in 1..n}
             Right(n) == /\ kept[n] \in Seq(Nat)
                         /\ Range(kept[n]) = First(n) \ X
                         /\ ~Repeats(s) => ~Repeats(kept[n])
             Good == {n \in Nat : Right(n)}
  <1>2. 0 \in Good
    <2>1. Right(0)
      BY <1>1 DEF Range, Repeats
    <2> HIDE DEF Right
    <2> QED
      BY <2>1
  <1>3. ASSUME NEW n \in 1..Len(s), n - 1 \in Good PROVE n \in Good
    <2>1. n \in Nat /\ s[n] \in Nat /\ First(n) = First(n - 1) \cup {s[n]}
      OBVIOUS
    <2>2. ~Repeats(s) => s[n] \notin First(n - 1)
      BY DEF Repeats
    <2>3. Right(n - 1)
      BY <1>3
    <2>4. CASE s[n] \in X
      <3>1. kept[n] = kept[n - 1]
        BY <1>1, <2>4
      <3>2. First(n) \ X = First(n - 1) \ X
        BY <2>1, <2>4
      <3> QED
        BY <2>1, <2>3, <3>1, <3>2
    <2>5. CASE s[n] \notin X
      <3>1. kept[n] = Append(kept[n - 1], s[n])
        BY <1>1, <2>5
      <3>2. kept[n] \in Seq(Nat) /\ Range(kept[n]) = Range(kept[n - 1]) \cup {s[n]}
        BY <2>1, <2>3, <3>1, RangeAppend
      <3>3. Range(kept[n]) = First(n) \ X
        BY <2>1, <2>3, <2>5, <3>2
      <3>4. ~Repeats(s) => ~Repeats(kept[n])
        BY <2>1, <2>2, <2>3, <3>1, AppendRepeatsNot, SMTT(30)
      <3> QED
        BY <2>1, <3>2, <3>3, <3>4
    <2> QED
      BY <2>4, <2>5
  <1>4. Len(s) \in Good
    <2> HIDE DEF Good
    <2>1. Len(s) \in Nat
      OBVIOUS
    <2>2. \A n \in 0..Len(s) : n \in Good
      BY <1>2, <1>3, <2>1, InductionUpTo
    <2> QED
      BY <2>1, <2>2
  <1>5. Range(s) = First(Len(s))
    BY DEF Range
  <1> QED
    BY <1>1, <1>4, <1>5

-----------------------------------------------------------------------------
(* The inductive invariant *)

(* These observations are stored, or are audio that a restart may have
   dropped. *)
Safe(k, numbers) ==
  \/ numbers \subseteq Range(Stored(k))
  \/ k = "audio" /\ drops > 0

(* The control plane stores no event twice and, until its memory is dropped or
   the run ends, has the WAV file's content in memory. *)
ServerInv ==
  /\ status \in {"running", "completed", "failed"}
  /\ rows \in [{"metric", "event"} -> Seq(Nat)]
  /\ buffer \in Seq(Nat) /\ wav \in Seq(Nat)
  /\ EventsStoredOnce
  /\ status = "running" /\ drops = 0 => wav = buffer

(* A request that nobody waits for is a batch within the limits that repeats no
   event. *)
LateInv ==
  \A m \in late :
    /\ m.batch \in Batch
    /\ \A k \in Kinds : Len(m.batch[k]) <= Limit[k]
    /\ ~Repeats(m.batch["event"])

(* What is queued has been observed, and is queued once. *)
ClientInv ==
  /\ taken \in [Kinds -> Nat]
  /\ pending \in Batch
  /\ flush \in [Flushers -> Flush]
  /\ \A f \in Flushers : flush[f].pc = "idle" => flush[f].unsent = NoItems
  /\ \A k \in Kinds : Range(pending[k]) \subseteq 1..taken[k]
  /\ \A f \in Flushers, k \in Kinds :
       Range(flush[f].unsent[k]) \subseteq 1..taken[k]
  /\ QueuedOnce

(* A batch whose acknowledgement is on its way is stored: only then may flush
   forget it. *)
AcceptedIsSafe ==
  \A f \in Flushers : flush[f].pc = "accepted" =>
    \A k \in Kinds : Safe(k, Range(Sending(f)[k]))

(* Every observation that is queued no more is stored. *)
ForgottenIsSafe ==
  \A k \in Kinds : \A n \in 1..taken[k] :
    \/ n \in Range(pending[k])
    \/ \E f \in Flushers : n \in Range(flush[f].unsent[k])
    \/ Safe(k, {n})

ObserverInv ==
  /\ faults \in 0..MaxFaults /\ drops \in 0..faults
  /\ ServerInv /\ LateInv /\ ClientInv
  /\ AcceptedIsSafe /\ ForgottenIsSafe

(* The invariant says what the runs check. *)
LEMMA InvImplies ==
  ASSUME ObserverInv
  PROVE  ObserverTypeOK /\ NothingIsLost /\ DeliveredOnce
  <1>1. ObserverTypeOK
    BY ObserverAssumption
    DEF ObserverInv, ServerInv, LateInv, ClientInv, ObserverTypeOK
  <1>2. NothingIsLost
    BY DEF ObserverInv, ForgottenIsSafe, Safe, NothingIsLost
  <1>3. DeliveredOnce
    BY DEF ObserverInv, ServerInv, ClientInv, DeliveredOnce
  <1> QED
    BY <1>1, <1>2, <1>3

(* Splitting a batch: the parts are batches, the first is within the limits, and
   together they have the batch's members. *)
LEMMA PartsOfBatch ==
  ASSUME NEW b \in Batch
  PROVE  /\ FirstPart(b) \in Batch /\ OtherParts(b) \in Batch
         /\ \A k \in Kinds :
              /\ Len(FirstPart(b)[k]) <= Limit[k]
              /\ Range(b[k]) = Range(FirstPart(b)[k]) \cup Range(OtherParts(b)[k])
              /\ ~Repeats(b[k]) => /\ ~Repeats(FirstPart(b)[k])
                                   /\ ~Repeats(OtherParts(b)[k])
  <1> DEFINE F == FirstPart(b)
             O == OtherParts(b)
  <1>1. ASSUME NEW k \in Kinds
        PROVE  /\ F[k] \in Seq(Nat) /\ O[k] \in Seq(Nat)
               /\ Len(F[k]) <= Limit[k]
               /\ Range(b[k]) = Range(F[k]) \cup Range(O[k])
               /\ ~Repeats(b[k]) => ~Repeats(F[k]) /\ ~Repeats(O[k])
    <2>1. b[k] \in Seq(Nat) /\ Limit[k] \in Nat \ {0}
      BY ObserverAssumption DEF Batch
    <2>2. /\ F[k] = SubSeq(b[k], 1, Least(Limit[k], Len(b[k])))
          /\ O[k] = SubSeq(b[k], Limit[k] + 1, Len(b[k]))
      BY DEF FirstPart, OtherParts
    <2> QED
      BY <2>1, <2>2, SplitSeq
  <1>2. F \in Batch /\ O \in Batch
    <2>1. F = [k \in Kinds |-> F[k]] /\ O = [k \in Kinds |-> O[k]]
      BY DEF FirstPart, OtherParts
    <2> HIDE DEF F, O
    <2> QED
      BY <1>1, <2>1 DEF Batch
  <1> QED
    BY <1>1, <1>2

-----------------------------------------------------------------------------
(* Steps of the control plane *)

(* What is safe stays safe. *)
Grows ==
  /\ drops <= drops'
  /\ \A k \in Kinds : \/ Range(Stored(k)) \subseteq Range(Stored(k)')
                      \/ k = "audio" /\ drops' > 0

(* Growing keeps observations safe. *)
LEMMA SafeStays ==
  ASSUME Grows, drops \in Nat, drops' \in Nat, NEW k \in Kinds, NEW S, Safe(k, S)
  PROVE  Safe(k, S)'
  BY DEF Grows, Safe

(* A batch's audio is in the file that is written anew, and so is what was in
   the file, unless the buffer was dropped. *)
LEMMA AudioIsWritten ==
  ASSUME ServerInv, status = "running", NEW b \in Batch, WriteAudio(b)
  PROVE  /\ buffer' \in Seq(Nat) /\ wav' \in Seq(Nat)
         /\ drops = 0 => wav' = buffer'
         /\ drops = 0 => Range(wav) \subseteq Range(wav')
         /\ Range(b["audio"]) \subseteq Range(wav')
  <1>1. buffer \in Seq(Nat) /\ wav \in Seq(Nat) /\ b["audio"] \in Seq(Nat)
    BY DEF ServerInv, Batch, Kinds
  <1>2. drops = 0 => wav = buffer
    BY DEF ServerInv
  <1>3. CASE b["audio"] = <<>>
    <2>1. Range(b["audio"]) = {}
      BY <1>3 DEF Range
    <2> QED
      BY <1>1, <1>2, <1>3, <2>1 DEF WriteAudio
  <1>4. CASE b["audio"] # <<>>
    <2>1. wav' = buffer \o b["audio"] /\ buffer' = wav'
      BY <1>4 DEF WriteAudio
    <2>2. /\ buffer \o b["audio"] \in Seq(Nat)
          /\ Range(buffer \o b["audio"]) = Range(buffer) \cup Range(b["audio"])
      BY <1>1, RangeConcat
    <2> QED
      BY <1>2, <2>1, <2>2
  <1> QED
    BY <1>3, <1>4

(* A batch's points and its new events are added to the rows, and no event is
   there twice. *)
LEMMA RowsAreSaved ==
  ASSUME ServerInv, NEW b \in Batch, ~Repeats(b["event"]), SaveRows(b)
  PROVE  /\ rows' \in [{"metric", "event"} -> Seq(Nat)]
         /\ \A k \in {"metric", "event"} :
              /\ Range(rows[k]) \subseteq Range(rows'[k])
              /\ Range(b[k]) \subseteq Range(rows'[k])
         /\ EventsStoredOnce'
  <1>1. PICK old \in Seq(Nat) : old = rows["event"]
    BY DEF ServerInv
  <1>2. PICK points \in Seq(Nat) : points = rows["metric"]
    BY DEF ServerInv
  <1>3. b["metric"] \in Seq(Nat) /\ b["event"] \in Seq(Nat)
    BY DEF Batch, Kinds
  <1>4. PICK new : new = NewEvents(b)
    OBVIOUS
  <1>5. /\ new \in Seq(Nat)
        /\ Range(new) = Range(b["event"]) \ Range(old)
        /\ ~Repeats(new)
    BY <1>1, <1>3, <1>4, WithoutKeeps DEF NewEvents
  <1>6. ~Repeats(old)
    BY <1>1 DEF ServerInv, EventsStoredOnce
  <1>7. rows' = [rows EXCEPT !["metric"] = points \o b["metric"],
                             !["event"] = old \o new]
    BY <1>1, <1>2, <1>4 DEF SaveRows
  <1>8. rows'["metric"] = points \o b["metric"] /\ rows'["event"] = old \o new
    BY <1>7 DEF ServerInv
  <1>9. /\ points \o b["metric"] \in Seq(Nat) /\ old \o new \in Seq(Nat)
        /\ Range(points \o b["metric"]) = Range(points) \cup Range(b["metric"])
        /\ Range(old \o new) = Range(old) \cup Range(new)
    BY <1>3, <1>5, RangeConcat
  <1>10. ~Repeats(old \o new)
    BY <1>5, <1>6, ConcatRepeatsNot
  <1>11. rows' \in [{"metric", "event"} -> Seq(Nat)]
    BY <1>7, <1>9 DEF ServerInv
  <1> QED
    BY <1>1, <1>2, <1>5, <1>8, <1>9, <1>10, <1>11 DEF EventsStoredOnce

(* Handling a batch keeps what is stored; the batch is stored if it is
   accepted. *)
LEMMA IngestKeeps ==
  ASSUME ServerInv, drops \in Nat, NEW b \in Batch, ~Repeats(b["event"]), Ingest(b)
  PROVE  /\ ServerInv' /\ Grows /\ drops' = drops
         /\ Accepts(b) => \A k \in Kinds : Safe(k, Range(b[k]))'
  <1>1. CASE Accepts(b)
    <2>1. status = "running" /\ WriteAudio(b) /\ SaveRows(b) /\ UNCHANGED <<status, drops>>
      BY <1>1 DEF Accepts, Ingest
    <2>2. /\ buffer' \in Seq(Nat) /\ wav' \in Seq(Nat)
          /\ drops = 0 => wav' = buffer'
          /\ drops = 0 => Range(wav) \subseteq Range(wav')
          /\ Range(b["audio"]) \subseteq Range(wav')
      BY <2>1, AudioIsWritten
    <2>3. /\ rows' \in [{"metric", "event"} -> Seq(Nat)]
          /\ \A k \in {"metric", "event"} :
               /\ Range(rows[k]) \subseteq Range(rows'[k])
               /\ Range(b[k]) \subseteq Range(rows'[k])
          /\ EventsStoredOnce'
      BY <2>1, RowsAreSaved
    <2>4. ServerInv'
      BY <2>1, <2>2, <2>3 DEF ServerInv
    <2>5. Grows
      BY <2>1, <2>2, <2>3 DEF Grows, Stored, Kinds
    <2>6. \A k \in Kinds : Safe(k, Range(b[k]))'
      BY <2>2, <2>3 DEF Safe, Stored, Kinds
    <2> QED
      BY <2>1, <2>4, <2>5, <2>6
  <1>2. CASE ~Accepts(b)
    BY <1>2 DEF Ingest, serverVars, ServerInv, EventsStoredOnce, Grows, Stored
  <1> QED
    BY <1>1, <1>2

(* A batch that cannot be saved leaves its audio behind and nothing else. *)
LEMMA IngestUnsavedKeeps ==
  ASSUME ServerInv, drops \in Nat, NEW b \in Batch, IngestUnsaved(b)
  PROVE  ServerInv' /\ Grows /\ drops' = drops
  <1>1. status = "running" /\ WriteAudio(b) /\ UNCHANGED <<status, rows, drops>>
    BY DEF IngestUnsaved, Accepts
  <1>2. /\ buffer' \in Seq(Nat) /\ wav' \in Seq(Nat)
        /\ drops = 0 => wav' = buffer'
        /\ drops = 0 => Range(wav) \subseteq Range(wav')
    BY <1>1, AudioIsWritten
  <1> QED
    BY <1>1, <1>2 DEF ServerInv, EventsStoredOnce, Grows, Stored

(* Ending the run keeps what is stored. *)
LEMMA EndRunKeeps ==
  ASSUME ServerInv, drops \in Nat, NEW end \in {"completed", "failed"}, EndRun(end)
  PROVE  ServerInv' /\ Grows /\ drops' = drops
  <1>1. CASE status = "running"
    <2>1. PICK points \in Seq(Nat) : points = rows["metric"]
      BY DEF ServerInv
    <2>a. <<0>> \in Seq(Nat) /\ <<>> \in Seq(Nat)
      OBVIOUS
    <2>b. EndPoints(end) \in {<<0>>, <<>>}
      BY DEF EndPoints, Unnumbered
    <2>2. PICK extra \in Seq(Nat) : extra = EndPoints(end)
      BY <2>a, <2>b
    <2>3. /\ rows' = [rows EXCEPT !["metric"] = points \o extra]
          /\ status' = end /\ buffer' = <<>> /\ UNCHANGED <<wav, drops>>
      BY <1>1, <2>1, <2>2 DEF EndRun
    <2>4. /\ rows'["metric"] = points \o extra /\ rows'["event"] = rows["event"]
          /\ points \o extra \in Seq(Nat)
          /\ Range(points \o extra) = Range(points) \cup Range(extra)
      BY <2>3, RangeConcat DEF ServerInv
    <2>5. rows' \in [{"metric", "event"} -> Seq(Nat)]
      BY <2>3, <2>4 DEF ServerInv
    <2> QED
      BY <2>1, <2>3, <2>4, <2>5 DEF ServerInv, EventsStoredOnce, Grows, Stored, Kinds
  <1>2. CASE status # "running"
    BY <1>2 DEF EndRun, serverVars, ServerInv, EventsStoredOnce, Grows, Stored
  <1> QED
    BY <1>1, <1>2

(* Dropping the memory of the control plane leaves what is stored. *)
LEMMA DropKeeps ==
  ASSUME ServerInv, drops \in Nat, drops' = drops + 1, buffer' = <<>>,
         UNCHANGED <<status, rows, wav>>
  PROVE  ServerInv' /\ Grows
  BY DEF ServerInv, EventsStoredOnce, Grows, Stored

(* A point from elsewhere is added to the others. *)
LEMMA PostPointKeeps ==
  ASSUME ServerInv, drops \in Nat, PostPoint
  PROVE  ServerInv' /\ Grows /\ drops' = drops
  <1>1. PICK points \in Seq(Nat) : points = rows["metric"]
    BY DEF ServerInv
  <1>2. /\ rows' = [rows EXCEPT !["metric"] = Append(points, 0)]
        /\ UNCHANGED <<status, buffer, wav, drops>>
    BY <1>1 DEF PostPoint, Unnumbered
  <1>3. /\ Append(points, 0) \in Seq(Nat)
        /\ Range(Append(points, 0)) = Range(points) \cup {0}
    BY RangeAppend
  <1>4. /\ rows'["metric"] = Append(points, 0) /\ rows'["event"] = rows["event"]
        /\ rows' \in [{"metric", "event"} -> Seq(Nat)]
    BY <1>2, <1>3 DEF ServerInv
  <1> QED
    BY <1>1, <1>2, <1>3, <1>4 DEF ServerInv, EventsStoredOnce, Grows, Stored, Kinds

-----------------------------------------------------------------------------
(* Steps of the observer *)

(* A flush moves observations between its unsent ones and the list.  The
   invariant is kept if it moves none twice, and forgets none that is not
   safe. *)
LEMMA Requeued ==
  ASSUME ClientInv, AcceptedIsSafe, ForgottenIsSafe, Grows,
         drops \in Nat, drops' \in Nat,
         NEW f \in Flushers, NEW pc \in {"idle", "sending", "accepted", "refused"},
         NEW u \in Batch, NEW p \in Batch,
         taken' = taken, pending' = p,
         flush' = [flush EXCEPT ![f] = [pc |-> pc, unsent |-> u]],
         pc = "idle" => u = NoItems,
         pc = "accepted" => \A k \in Kinds : Safe(k, Range(FirstPart(u)[k]))',
         \A k \in Kinds :
           /\ ~Repeats(u[k]) /\ ~Repeats(p[k])
           /\ Range(u[k]) \cap Range(p[k]) = {}
           /\ Range(u[k]) \cup Range(p[k])
                \subseteq Range(flush[f].unsent[k]) \cup Range(pending[k])
           /\ \A n \in Range(flush[f].unsent[k]) \cup Range(pending[k]) :
                n \in Range(u[k]) \cup Range(p[k]) \/ Safe(k, {n})'
  PROVE  ClientInv' /\ AcceptedIsSafe' /\ ForgottenIsSafe'
  <1>1. /\ flush' \in [Flushers -> Flush]
        /\ flush'[f].pc = pc /\ flush'[f].unsent = u
        /\ \A g \in Flushers \ {f} : flush'[g] = flush[g]
    BY DEF ClientInv, Flush
  <1>2. /\ \A k \in Kinds : Range(pending'[k]) \subseteq 1..taken'[k]
        /\ \A g \in Flushers, k \in Kinds :
             Range(flush'[g].unsent[k]) \subseteq 1..taken'[k]
    BY <1>1 DEF ClientInv
  <1>3. QueuedOnce'
    <2> SUFFICES ASSUME NEW k \in Kinds
                 PROVE  /\ ~Repeats(pending'[k])
                        /\ \A g \in Flushers :
                             /\ ~Repeats(flush'[g].unsent[k])
                             /\ Range(flush'[g].unsent[k]) \cap Range(pending'[k]) = {}
                             /\ \A h \in Flushers \ {g} :
                                  Range(flush'[g].unsent[k])
                                    \cap Range(flush'[h].unsent[k]) = {}
      BY DEF QueuedOnce
    <2>1. \A g \in Flushers :
            /\ ~Repeats(flush[g].unsent[k])
            /\ Range(flush[g].unsent[k]) \cap Range(pending[k]) = {}
            /\ \A h \in Flushers \ {g} :
                 Range(flush[g].unsent[k]) \cap Range(flush[h].unsent[k]) = {}
      BY DEF ClientInv, QueuedOnce
    <2>2. ~Repeats(pending'[k]) /\ \A g \in Flushers : ~Repeats(flush'[g].unsent[k])
      BY <1>1, <2>1
    <2>3. ASSUME NEW g \in Flushers \ {f}
          PROVE  /\ Range(flush'[g].unsent[k]) \cap Range(p[k]) = {}
                 /\ Range(flush'[g].unsent[k]) \cap Range(u[k]) = {}
      BY <1>1, <2>1
    <2>4. ASSUME NEW g \in Flushers, NEW h \in Flushers \ {g}
          PROVE  Range(flush'[g].unsent[k]) \cap Range(flush'[h].unsent[k]) = {}
      <3>1. CASE g = f
        BY <1>1, <2>3, <3>1
      <3>2. CASE h = f
        BY <1>1, <2>3, <3>2
      <3>3. CASE g # f /\ h # f
        BY <1>1, <2>1, <3>3
      <3> QED
        BY <3>1, <3>2, <3>3
    <2>5. ASSUME NEW g \in Flushers
          PROVE  Range(flush'[g].unsent[k]) \cap Range(pending'[k]) = {}
      BY <1>1, <2>3
    <2> QED
      BY <2>2, <2>4, <2>5
  <1>4. ClientInv'
    <2>1. \A g \in Flushers : flush'[g].pc = "idle" => flush'[g].unsent = NoItems
      BY <1>1 DEF ClientInv
    <2> QED
      BY <1>1, <1>2, <1>3, <2>1 DEF ClientInv
  <1>5. AcceptedIsSafe'
    <2> SUFFICES ASSUME NEW g \in Flushers, flush'[g].pc = "accepted", NEW k \in Kinds
                 PROVE  Safe(k, Range(FirstPart(flush[g].unsent)[k]))'
      BY DEF AcceptedIsSafe, Sending
    <2>1. CASE g = f
      BY <1>1, <2>1 DEF Safe
    <2>2. CASE g # f
      <3>1. flush'[g] = flush[g]
        BY <1>1, <2>2
      <3>2. PICK S : S = Range(FirstPart(flush[g].unsent)[k])
        OBVIOUS
      <3>3. Safe(k, S)
        BY <3>1, <3>2 DEF AcceptedIsSafe, Sending
      <3>4. Safe(k, S)'
        BY <3>3, SafeStays
      <3> QED
        BY <3>1, <3>2, <3>4 DEF Safe, FirstPart
    <2> QED
      BY <2>1, <2>2
  <1>6. ForgottenIsSafe'
    <2> SUFFICES ASSUME NEW k \in Kinds, NEW n \in 1..taken[k]
                 PROVE  \/ n \in Range(pending'[k])
                        \/ \E g \in Flushers : n \in Range(flush'[g].unsent[k])
                        \/ Safe(k, {n})'
      BY DEF ForgottenIsSafe
    <2>1. CASE n \in Range(flush[f].unsent[k]) \cup Range(pending[k])
      BY <1>1, <2>1
    <2>2. CASE \E g \in Flushers \ {f} : n \in Range(flush[g].unsent[k])
      BY <1>1, <2>2
    <2>3. CASE Safe(k, {n})
      BY <2>3, SafeStays
    <2> QED
      BY <2>1, <2>2, <2>3 DEF ForgottenIsSafe
  <1> QED
    BY <1>4, <1>5, <1>6

(* The sequences a flush holds. *)
LEMMA FlushFacts ==
  ASSUME ClientInv, NEW f \in Flushers
  PROVE  /\ flush[f].unsent \in Batch /\ pending \in Batch
         /\ flush[f].pc \in {"idle", "sending", "accepted", "refused"}
         /\ flush[f].pc = "idle" => flush[f].unsent = NoItems
         /\ \A k \in Kinds :
              /\ flush[f].unsent[k] \in Seq(Nat) /\ pending[k] \in Seq(Nat)
              /\ ~Repeats(flush[f].unsent[k]) /\ ~Repeats(pending[k])
              /\ Range(flush[f].unsent[k]) \cap Range(pending[k]) = {}
  BY DEF ClientInv, Flush, Batch, QueuedOnce

(* An empty batch has no members. *)
LEMMA NoItemsIsEmpty ==
  /\ NoItems \in Batch
  /\ \A k \in Kinds : Range(NoItems[k]) = {} /\ ~Repeats(NoItems[k])
  BY DEF NoItems, Batch, Range, Repeats

(* A control plane that does nothing keeps everything. *)
LEMMA ServerRests ==
  ASSUME ServerInv, drops \in Nat, UNCHANGED serverVars
  PROVE  ServerInv' /\ Grows /\ drops' = drops
  BY DEF serverVars, ServerInv, EventsStoredOnce, Grows, Stored

(* An observer that does nothing keeps its part of the invariant. *)
LEMMA ClientRests ==
  ASSUME ClientInv, AcceptedIsSafe, ForgottenIsSafe, Grows,
         drops \in Nat, drops' \in Nat, UNCHANGED clientVars
  PROVE  ClientInv' /\ AcceptedIsSafe' /\ ForgottenIsSafe'
  <1>1. taken' = taken /\ pending' = pending /\ flush' = flush
    BY DEF clientVars
  <1>2. ClientInv'
    BY <1>1 DEF ClientInv, QueuedOnce
  <1>3. AcceptedIsSafe'
    <2> SUFFICES ASSUME NEW g \in Flushers, flush[g].pc = "accepted", NEW k \in Kinds
                 PROVE  Safe(k, Range(FirstPart(flush[g].unsent)[k]))'
      BY <1>1 DEF AcceptedIsSafe, Sending
    <2>1. PICK S : S = Range(FirstPart(flush[g].unsent)[k])
      OBVIOUS
    <2>2. Safe(k, S)'
      BY <2>1, SafeStays DEF AcceptedIsSafe, Sending
    <2> QED
      BY <1>1, <2>1, <2>2 DEF Safe, FirstPart
  <1>4. ForgottenIsSafe'
    <2> SUFFICES ASSUME NEW k \in Kinds, NEW n \in 1..taken[k]
                 PROVE  \/ n \in Range(pending[k])
                        \/ \E g \in Flushers : n \in Range(flush[g].unsent[k])
                        \/ Safe(k, {n})'
      BY <1>1 DEF ForgottenIsSafe
    <2>1. CASE Safe(k, {n})
      BY <2>1, SafeStays
    <2> QED
      BY <2>1 DEF ForgottenIsSafe
  <1> QED
    BY <1>2, <1>3, <1>4

(* observe_* preserves the invariant: its number is new. *)
LEMMA ObserveKeepsInv ==
  ASSUME ObserverInv, NEW kinds \in SUBSET Kinds, Observe(kinds),
         UNCHANGED <<flush, late, serverVars, faults>>
  PROVE  ObserverInv'
  <1>1. /\ ServerInv' /\ Grows /\ drops' = drops /\ drops \in Nat
        /\ faults' = faults /\ late' = late /\ flush' = flush
    BY ObserverAssumption, ServerRests DEF ObserverInv
  <1>2. ASSUME NEW k \in Kinds
        PROVE  /\ taken[k] \in Nat /\ taken'[k] \in {taken[k], taken[k] + 1}
               /\ pending[k] \in Seq(Nat) /\ pending'[k] \in Seq(Nat)
               /\ ~Repeats(pending'[k])
               /\ Range(pending'[k])
                    = Range(pending[k]) \cup (taken[k] + 1)..taken'[k]
    <2>1. /\ taken[k] \in Nat /\ pending[k] \in Seq(Nat) /\ ~Repeats(pending[k])
          /\ Range(pending[k]) \subseteq 1..taken[k]
      BY DEF ObserverInv, ClientInv, Batch, QueuedOnce
    <2>2. CASE k \in kinds
      <3>1. taken'[k] = taken[k] + 1 /\ pending'[k] = Append(pending[k], taken[k] + 1)
        BY <2>2 DEF Observe
      <3>2. taken[k] + 1 \notin Range(pending[k]) /\ taken[k] + 1 \in Nat
        BY <2>1
      <3>3. /\ pending'[k] \in Seq(Nat)
            /\ Range(pending'[k]) = Range(pending[k]) \cup {taken[k] + 1}
            /\ ~Repeats(pending'[k])
        BY <2>1, <3>1, <3>2, RangeAppend, AppendRepeatsNot
      <3>4. (taken[k] + 1)..taken'[k] = {taken[k] + 1}
        BY <2>1, <3>1
      <3> QED
        BY <2>1, <3>1, <3>3, <3>4
    <2>3. CASE k \notin kinds
      <3>1. taken'[k] = taken[k] /\ pending'[k] = pending[k]
        BY <2>3 DEF Observe
      <3>2. (taken[k] + 1)..taken'[k] = {}
        BY <2>1, <3>1
      <3> QED
        BY <2>1, <3>1, <3>2
    <2> QED
      BY <2>2, <2>3
  <1>3. taken' \in [Kinds -> Nat] /\ pending' \in Batch
    <2>1. /\ taken' = [k \in Kinds |-> taken'[k]]
          /\ pending' = [k \in Kinds |-> pending'[k]]
      BY DEF Observe
    <2>2. \A k \in Kinds : taken'[k] \in Nat /\ pending'[k] \in Seq(Nat)
      BY <1>2
    <2> QED
      BY <2>1, <2>2 DEF Batch
  <1>4. /\ \A k \in Kinds : Range(pending'[k]) \subseteq 1..taken'[k]
        /\ \A f \in Flushers, k \in Kinds :
             Range(flush'[f].unsent[k]) \subseteq 1..taken'[k]
    <2>1. \A k \in Kinds : /\ 1..taken[k] \subseteq 1..taken'[k]
                           /\ (taken[k] + 1)..taken'[k] \subseteq 1..taken'[k]
      BY <1>2
    <2> QED
      BY <1>1, <1>2, <2>1 DEF ObserverInv, ClientInv
  <1>5. QueuedOnce'
    <2> SUFFICES ASSUME NEW k \in Kinds, NEW f \in Flushers
                 PROVE  Range(flush[f].unsent[k]) \cap Range(pending'[k]) = {}
      BY <1>1, <1>2 DEF ObserverInv, ClientInv, QueuedOnce
    <2>1. /\ Range(flush[f].unsent[k]) \cap Range(pending[k]) = {}
          /\ Range(flush[f].unsent[k]) \subseteq 1..taken[k]
      BY DEF ObserverInv, ClientInv, QueuedOnce
    <2>2. \A n \in (taken[k] + 1)..taken'[k] : n \notin 1..taken[k]
      BY <1>2
    <2> QED
      BY <1>2, <2>1, <2>2
  <1>6. ClientInv'
    BY <1>1, <1>3, <1>4, <1>5 DEF ObserverInv, ClientInv
  <1>7. AcceptedIsSafe'
    BY <1>1 DEF ObserverInv, AcceptedIsSafe, Sending, FirstPart, Safe, Stored, serverVars
  <1>8. ForgottenIsSafe'
    <2> SUFFICES ASSUME NEW k \in Kinds, NEW n \in 1..taken'[k]
                 PROVE  \/ n \in Range(pending'[k])
                        \/ \E g \in Flushers : n \in Range(flush[g].unsent[k])
                        \/ Safe(k, {n})'
      BY <1>1 DEF ForgottenIsSafe
    <2>1. CASE n \in 1..taken[k]
      <3>1. CASE Safe(k, {n})
        BY <1>1, <3>1, SafeStays
      <3> QED
        BY <1>2, <2>1, <3>1 DEF ObserverInv, ForgottenIsSafe
    <2>2. CASE n \notin 1..taken[k]
      <3>1. n \in (taken[k] + 1)..taken'[k]
        BY <1>2, <2>2
      <3> QED
        BY <1>2, <3>1
    <2> QED
      BY <2>1, <2>2
  <1>9. LateInv'
    BY <1>1 DEF ObserverInv, LateInv
  <1> QED
    BY <1>1, <1>6, <1>7, <1>8, <1>9 DEF ObserverInv

(* flush preserves the invariant when it takes the lists. *)
LEMMA BeginFlushKeepsInv ==
  ASSUME ObserverInv, NEW f \in Flushers, BeginFlush(f),
         UNCHANGED <<late, serverVars, faults>>
  PROVE  ObserverInv'
  <1>1. /\ ServerInv' /\ Grows /\ drops' = drops /\ drops \in Nat
        /\ faults' = faults /\ late' = late
    BY ObserverAssumption, ServerRests DEF ObserverInv
  <1>2. /\ ClientInv /\ AcceptedIsSafe /\ ForgottenIsSafe
        /\ pending \in Batch /\ flush[f].unsent = NoItems
        /\ \A k \in Kinds : ~Repeats(pending[k])
    BY FlushFacts DEF ObserverInv, BeginFlush
  <1>3. PICK p \in Batch : p = pending
    BY <1>2
  <1>4. PICK pc \in {"sending"} :
          /\ taken' = taken /\ pending' = NoItems
          /\ flush' = [flush EXCEPT ![f] = [pc |-> pc, unsent |-> p]]
    BY <1>3 DEF BeginFlush, LeftPending
  <1>5. ClientInv' /\ AcceptedIsSafe' /\ ForgottenIsSafe'
    <2>1. PICK none \in Batch : none = NoItems
      BY NoItemsIsEmpty
    <2>2. \A k \in Kinds :
            /\ ~Repeats(p[k]) /\ ~Repeats(none[k])
            /\ Range(p[k]) \cap Range(none[k]) = {}
            /\ Range(p[k]) \cup Range(none[k])
                 \subseteq Range(flush[f].unsent[k]) \cup Range(pending[k])
            /\ \A n \in Range(flush[f].unsent[k]) \cup Range(pending[k]) :
                 n \in Range(p[k]) \cup Range(none[k]) \/ Safe(k, {n})'
      BY <1>2, <1>3, <2>1, NoItemsIsEmpty
    <2>3. /\ pc \in {"idle", "sending", "accepted", "refused"}
          /\ pc # "idle" /\ pc # "accepted" /\ pending' = none
      BY <1>4, <2>1
    <2> QED
      BY <1>1, <1>2, <1>4, <2>2, <2>3, Requeued, ZenonT(60)
  <1> QED
    BY <1>1, <1>5 DEF ObserverInv, LateInv

(* Handling a request of flush preserves the invariant. *)
LEMMA DeliverKeepsInv ==
  ASSUME ObserverInv, NEW f \in Flushers, Deliver(f) \/ DeliverUnsaved(f)
  PROVE  ObserverInv'
  <1>1. /\ ServerInv /\ ClientInv /\ AcceptedIsSafe /\ ForgottenIsSafe
        /\ drops \in Nat /\ faults \in Nat
    BY ObserverAssumption DEF ObserverInv
  <1>2. /\ flush[f].unsent \in Batch /\ pending \in Batch
        /\ \A k \in Kinds :
             /\ ~Repeats(flush[f].unsent[k]) /\ ~Repeats(pending[k])
             /\ Range(flush[f].unsent[k]) \cap Range(pending[k]) = {}
    BY <1>1, FlushFacts
  <1>3. PICK b : b = Sending(f)
    OBVIOUS
  <1>4. b \in Batch /\ ~Repeats(b["event"])
    BY <1>2, <1>3, PartsOfBatch DEF Sending, Kinds
  <1>5. PICK pc \in {"accepted", "refused"} :
          /\ flush' = [flush EXCEPT ![f].pc = pc]
          /\ pc = "accepted" => Accepts(b) /\ Ingest(b)
    BY <1>3 DEF Deliver, DeliverUnsaved
  <1>6. /\ ServerInv' /\ Grows /\ drops' = drops
        /\ pc = "accepted" => \A k \in Kinds : Safe(k, Range(b[k]))'
    <2>1. CASE Deliver(f)
      BY <1>1, <1>3, <1>4, <1>5, <2>1, IngestKeeps DEF Deliver
    <2>2. CASE DeliverUnsaved(f) /\ pc = "refused"
      BY <1>1, <1>3, <1>4, <2>2, IngestUnsavedKeeps DEF DeliverUnsaved
    <2>3. CASE pc = "accepted"
      BY <1>1, <1>4, <1>5, <2>3, IngestKeeps
    <2> QED
      BY <2>1, <2>2, <2>3
  <1>7. flush' = [flush EXCEPT ![f] = [pc |-> pc, unsent |-> flush[f].unsent]]
    <2>1. PICK old \in Flush : old = flush[f]
      BY <1>1 DEF ClientInv
    <2>2. [old EXCEPT !.pc = pc] = [pc |-> pc, unsent |-> old.unsent]
      BY DEF Flush
    <2> QED
      BY <1>5, <2>1, <2>2
  <1>8. /\ taken' = taken /\ pending' = pending /\ late' = late
        /\ faults' = faults \/ Fault
    BY DEF Deliver, DeliverUnsaved
  <1>9. ClientInv' /\ AcceptedIsSafe' /\ ForgottenIsSafe'
    <2>1. PICK u \in Batch : u = flush[f].unsent
      BY <1>2
    <2>2. PICK p \in Batch : p = pending
      BY <1>2
    <2>3. pc = "accepted" => \A k \in Kinds : Safe(k, Range(FirstPart(u)[k]))'
      BY <1>3, <1>6, <2>1 DEF Sending, Safe
    <2> QED
      BY <1>1, <1>2, <1>6, <1>7, <1>8, <2>1, <2>2, <2>3, Requeued, ZenonT(60)
  <1>10. faults' \in 0..MaxFaults /\ drops' \in 0..faults'
    BY <1>6, <1>8, ObserverAssumption DEF ObserverInv, Fault
  <1> QED
    BY <1>6, <1>8, <1>9, <1>10 DEF ObserverInv, LateInv

(* flush preserves the invariant when a batch is acknowledged and forgotten. *)
LEMMA AcknowledgeKeepsInv ==
  ASSUME ObserverInv, NEW f \in Flushers, Acknowledge(f),
         UNCHANGED <<late, serverVars, faults>>
  PROVE  ObserverInv'
  <1>1. /\ ServerInv' /\ Grows /\ drops' = drops /\ drops \in Nat
        /\ faults' = faults /\ late' = late
    BY ObserverAssumption, ServerRests DEF ObserverInv
  <1>2. /\ ClientInv /\ AcceptedIsSafe /\ ForgottenIsSafe
        /\ flush[f].unsent \in Batch /\ pending \in Batch
        /\ \A k \in Kinds :
             /\ ~Repeats(flush[f].unsent[k]) /\ ~Repeats(pending[k])
             /\ Range(flush[f].unsent[k]) \cap Range(pending[k]) = {}
    BY FlushFacts DEF ObserverInv
  <1>3. PICK b \in Batch : b = flush[f].unsent
    BY <1>2
  <1>4. PICK u : u = OtherParts(b)
    OBVIOUS
  <1>5. u \in Batch
    BY <1>4, PartsOfBatch
  <1>6. \A k \in Kinds :
          /\ Range(b[k]) = Range(FirstPart(b)[k]) \cup Range(u[k])
          /\ ~Repeats(u[k])
    BY <1>2, <1>3, <1>4, PartsOfBatch
  <1>7. PICK pc \in {"idle", "sending"} :
          /\ pc = "idle" => u = NoItems
          /\ flush' = [flush EXCEPT ![f] = [pc |-> pc, unsent |-> u]]
    BY <1>3, <1>4 DEF Acknowledge, LastPart, IdleFlush, NoItems
  <1>8. taken' = taken /\ pending' = pending
    BY DEF Acknowledge
  <1>9. \A k \in Kinds : \A n \in Range(FirstPart(b)[k]) : Safe(k, {n})'
    <2> SUFFICES ASSUME NEW k \in Kinds, NEW n \in Range(FirstPart(b)[k])
                 PROVE  Safe(k, {n})'
      OBVIOUS
    <2>1. Safe(k, Range(FirstPart(b)[k]))
      BY <1>2, <1>3 DEF AcceptedIsSafe, Acknowledge, Sending
    <2>2. Safe(k, {n})
      BY <2>1 DEF Safe
    <2> QED
      BY <1>1, <2>2, SafeStays
  <1>10. ClientInv' /\ AcceptedIsSafe' /\ ForgottenIsSafe'
    <2>1. PICK p \in Batch : p = pending
      BY <1>2
    <2>2. \A k \in Kinds :
            /\ ~Repeats(u[k]) /\ ~Repeats(p[k])
            /\ Range(u[k]) \cap Range(p[k]) = {}
            /\ Range(u[k]) \cup Range(p[k])
                 \subseteq Range(flush[f].unsent[k]) \cup Range(pending[k])
            /\ \A n \in Range(flush[f].unsent[k]) \cup Range(pending[k]) :
                 n \in Range(u[k]) \cup Range(p[k]) \/ Safe(k, {n})'
      BY <1>2, <1>3, <1>6, <1>9, <2>1
    <2>3. /\ ClientInv /\ AcceptedIsSafe /\ ForgottenIsSafe /\ Grows
          /\ drops \in Nat /\ drops' \in Nat
          /\ taken' = taken /\ pending' = p
          /\ flush' = [flush EXCEPT ![f] = [pc |-> pc, unsent |-> u]]
          /\ pc \in {"idle", "sending", "accepted", "refused"}
          /\ pc # "accepted" /\ (pc = "idle" => u = NoItems)
      BY <1>1, <1>2, <1>7, <1>8, <2>1
    <2> QED
      BY <1>5, <2>2, <2>3, Requeued, ZenonT(120)
  <1> QED
    BY <1>1, <1>10 DEF ObserverInv, LateInv

(* A flush that fails preserves its part of the invariant: it puts everything
   back. *)
LEMMA RestoreKeeps ==
  ASSUME ClientInv, AcceptedIsSafe, ForgottenIsSafe, Grows,
         drops \in Nat, drops' \in Nat, NEW f \in Flushers, Restore(f)
  PROVE  ClientInv' /\ AcceptedIsSafe' /\ ForgottenIsSafe'
  <1>1. \A k \in Kinds :
          /\ flush[f].unsent[k] \in Seq(Nat) /\ pending[k] \in Seq(Nat)
          /\ ~Repeats(flush[f].unsent[k]) /\ ~Repeats(pending[k])
          /\ Range(flush[f].unsent[k]) \cap Range(pending[k]) = {}
    BY FlushFacts
  <1>2. PICK none \in Batch : none = NoItems
    BY NoItemsIsEmpty
  <1>3. PICK p : p = Restored(f)
    OBVIOUS
  <1>4. \A k \in Kinds :
          /\ p[k] = flush[f].unsent[k] \o pending[k]
          /\ p[k] \in Seq(Nat)
          /\ Range(p[k]) = Range(flush[f].unsent[k]) \cup Range(pending[k])
          /\ ~Repeats(p[k])
    BY <1>1, <1>3, RangeConcat, ConcatRepeatsNot DEF Restored
  <1>5. p \in Batch
    <2>1. p = [k \in Kinds |-> p[k]]
      BY <1>3 DEF Restored
    <2> QED
      BY <1>4, <2>1 DEF Batch
  <1>6. PICK pc \in {"idle"} :
          /\ taken' = taken /\ pending' = p
          /\ flush' = [flush EXCEPT ![f] = [pc |-> pc, unsent |-> none]]
    BY <1>2, <1>3 DEF Restore, IdleFlush
  <1>7. \A k \in Kinds :
          /\ ~Repeats(none[k]) /\ ~Repeats(p[k])
          /\ Range(none[k]) \cap Range(p[k]) = {}
          /\ Range(none[k]) \cup Range(p[k])
               \subseteq Range(flush[f].unsent[k]) \cup Range(pending[k])
          /\ \A n \in Range(flush[f].unsent[k]) \cup Range(pending[k]) :
               n \in Range(none[k]) \cup Range(p[k]) \/ Safe(k, {n})'
    BY <1>2, <1>4, NoItemsIsEmpty
  <1>8. /\ pc \in {"idle", "sending", "accepted", "refused"}
        /\ pc # "accepted" /\ (pc = "idle" => none = NoItems)
    BY <1>2, <1>6
  <1> QED
    BY <1>5, <1>6, <1>7, <1>8, Requeued, ZenonT(60)

(* ... whether the control plane refused, or request or answer were lost: a
   request that arrives later is one that flush had sent. *)
LEMMA FailedSendKeepsInv ==
  ASSUME ObserverInv, NEW f \in Flushers,
         \/ SendRefused(f) /\ UNCHANGED <<late, serverVars, faults>>
         \/ AnswerLost(f) \/ RequestLost(f)
  PROVE  ObserverInv'
  <1>1. UNCHANGED serverVars /\ Restore(f) /\ (faults' = faults \/ Fault)
    BY DEF SendRefused, AnswerLost, RequestLost
  <1>2. /\ ServerInv' /\ Grows /\ drops' = drops /\ drops \in Nat
    BY <1>1, ObserverAssumption, ServerRests DEF ObserverInv
  <1>3. ClientInv' /\ AcceptedIsSafe' /\ ForgottenIsSafe'
    BY <1>1, <1>2, RestoreKeeps DEF ObserverInv
  <1>4. /\ Sending(f) \in Batch
        /\ \A k \in Kinds : Len(Sending(f)[k]) <= Limit[k]
        /\ ~Repeats(Sending(f)["event"])
    BY FlushFacts, PartsOfBatch DEF ObserverInv, Sending, Kinds
  <1>5. LateInv'
    <2>1. \/ late' = late
          \/ late' = late \cup {[id |-> faults, batch |-> Sending(f)]}
      BY DEF SendRefused, AnswerLost, RequestLost
    <2> QED
      BY <1>4, <2>1 DEF ObserverInv, LateInv
  <1>6. faults' \in 0..MaxFaults /\ drops' \in 0..faults'
    BY <1>1, <1>2, ObserverAssumption DEF ObserverInv, Fault
  <1> QED
    BY <1>2, <1>3, <1>5, <1>6 DEF ObserverInv

(* A request that nobody waits for preserves the invariant. *)
LEMMA DeliverLateKeepsInv ==
  ASSUME ObserverInv, NEW m \in late, DeliverLate(m)
  PROVE  ObserverInv'
  <1>1. m.batch \in Batch /\ ~Repeats(m.batch["event"]) /\ Ingest(m.batch)
    BY DEF ObserverInv, LateInv, DeliverLate
  <1>2. ServerInv' /\ Grows /\ drops' = drops /\ drops \in Nat
    BY <1>1, ObserverAssumption, IngestKeeps DEF ObserverInv
  <1>3. ClientInv' /\ AcceptedIsSafe' /\ ForgottenIsSafe'
    BY <1>2, ClientRests DEF ObserverInv, DeliverLate
  <1> QED
    BY <1>2, <1>3 DEF ObserverInv, LateInv, DeliverLate

(* So does the end of the run, ... *)
LEMMA EndRunKeepsInv ==
  ASSUME ObserverInv, NEW end \in {"completed", "failed"}, EndRun(end),
         UNCHANGED <<clientVars, late>>, faults' = faults \/ Fault
  PROVE  ObserverInv'
  <1>1. ServerInv' /\ Grows /\ drops' = drops /\ drops \in Nat
    BY ObserverAssumption, EndRunKeeps DEF ObserverInv
  <1>2. ClientInv' /\ AcceptedIsSafe' /\ ForgottenIsSafe'
    BY <1>1, ClientRests DEF ObserverInv
  <1>3. faults' \in 0..MaxFaults /\ drops' \in 0..faults'
    BY <1>1, ObserverAssumption DEF ObserverInv, Fault
  <1> QED
    BY <1>1, <1>2, <1>3 DEF ObserverInv, LateInv

(* ... an end that cannot be saved, and a restart of the control plane. *)
LEMMA DropKeepsInv ==
  ASSUME ObserverInv, EndRunUnsaved \/ Restart, UNCHANGED <<clientVars, late>>
  PROVE  ObserverInv'
  <1>1. /\ Fault /\ drops' = drops + 1 /\ buffer' = <<>>
        /\ UNCHANGED <<status, rows, wav>>
    BY DEF EndRunUnsaved, Restart
  <1>2. drops \in Nat /\ drops' \in Nat
    BY <1>1, ObserverAssumption DEF ObserverInv
  <1>3. ServerInv' /\ Grows
    BY <1>1, <1>2, DropKeeps DEF ObserverInv
  <1>4. ClientInv' /\ AcceptedIsSafe' /\ ForgottenIsSafe'
    BY <1>2, <1>3, ClientRests DEF ObserverInv
  <1>5. faults' \in 0..MaxFaults /\ drops' \in 0..faults'
    BY <1>1, ObserverAssumption DEF ObserverInv, Fault
  <1> QED
    BY <1>3, <1>4, <1>5 DEF ObserverInv, LateInv

(* A point from elsewhere preserves the invariant. *)
LEMMA PostPointKeepsInv ==
  ASSUME ObserverInv, PostPoint
  PROVE  ObserverInv'
  <1>1. ServerInv' /\ Grows /\ drops' = drops /\ drops \in Nat
    BY ObserverAssumption, PostPointKeeps DEF ObserverInv
  <1>2. ClientInv' /\ AcceptedIsSafe' /\ ForgottenIsSafe'
    BY <1>1, ClientRests DEF ObserverInv, PostPoint
  <1> QED
    BY <1>1, <1>2 DEF ObserverInv, LateInv, PostPoint

(* A step that changes nothing here preserves the invariant. *)
LEMMA RestKeepsInv ==
  ASSUME ObserverInv, UNCHANGED <<clientVars, late, serverVars>>,
         faults' = faults \/ Fault
  PROVE  ObserverInv'
  <1>1. ServerInv' /\ Grows /\ drops' = drops /\ drops \in Nat
    BY ObserverAssumption, ServerRests DEF ObserverInv
  <1>2. ClientInv' /\ AcceptedIsSafe' /\ ForgottenIsSafe'
    BY <1>1, ClientRests DEF ObserverInv
  <1>3. faults' \in 0..MaxFaults /\ drops' \in 0..faults'
    BY <1>1, ObserverAssumption DEF ObserverInv, Fault
  <1> QED
    BY <1>1, <1>2, <1>3 DEF ObserverInv, LateInv

-----------------------------------------------------------------------------
(* Theorems *)

(* The invariant holds at first. *)
LEMMA InitEstablishesInv ==
  ASSUME ObserverInit
  PROVE  ObserverInv
  <1>1. ServerInv /\ LateInv
    BY DEF ObserverInit, ServerInv, LateInv, EventsStoredOnce, Repeats
  <1>2. ClientInv
    <2>1. /\ pending = NoItems /\ \A f \in Flushers : flush[f] = IdleFlush
          /\ taken \in [Kinds -> Nat]
      BY DEF ObserverInit
    <2>2. flush \in [Flushers -> Flush]
      BY NoItemsIsEmpty DEF ObserverInit, Flush, IdleFlush
    <2>3. \A f \in Flushers : flush[f].unsent = NoItems
      BY <2>1 DEF IdleFlush
    <2>4. QueuedOnce
      BY <2>1, <2>3, NoItemsIsEmpty DEF QueuedOnce
    <2> QED
      BY <2>1, <2>2, <2>3, <2>4, NoItemsIsEmpty DEF ClientInv
  <1>3. AcceptedIsSafe /\ ForgottenIsSafe
    BY DEF ObserverInit, AcceptedIsSafe, ForgottenIsSafe, IdleFlush
  <1>4. faults \in 0..MaxFaults /\ drops \in 0..faults
    BY ObserverAssumption DEF ObserverInit
  <1> QED
    BY <1>1, <1>2, <1>3, <1>4 DEF ObserverInv

(* Every step preserves the invariant. *)
LEMMA StepKeepsInv ==
  ASSUME ObserverInv, [ObserverNext]_observerVars
  PROVE  ObserverInv'
  <1>1. ASSUME NEW kinds \in ObservedTogether, Observe(kinds),
               UNCHANGED <<flush, late, serverVars, faults>>
        PROVE  ObserverInv'
    BY <1>1, ObserveKeepsInv DEF ObservedTogether, Kinds
  <1>2. ASSUME NEW f \in Flushers,
               \/ BeginFlush(f) /\ UNCHANGED <<late, serverVars, faults>>
               \/ Deliver(f)
               \/ DeliverUnsaved(f)
               \/ Acknowledge(f) /\ UNCHANGED <<late, serverVars, faults>>
               \/ SendRefused(f) /\ UNCHANGED <<late, serverVars, faults>>
               \/ AnswerLost(f)
               \/ RequestLost(f)
        PROVE  ObserverInv'
    BY <1>2, BeginFlushKeepsInv, DeliverKeepsInv, AcknowledgeKeepsInv,
       FailedSendKeepsInv
  <1>3. ASSUME NEW m \in late, DeliverLate(m) PROVE ObserverInv'
    BY <1>3, DeliverLateKeepsInv
  <1>4. ASSUME NEW end \in {"completed", "failed"},
               EndRun(end) /\ UNCHANGED <<clientVars, late, faults>>
        PROVE  ObserverInv'
    BY <1>4, EndRunKeepsInv
  <1>5. CASE EndRunUnsaved /\ UNCHANGED <<clientVars, late>>
    BY <1>5, DropKeepsInv
  <1>6. CASE PostPoint
    BY <1>6, PostPointKeepsInv
  <1>7. CASE Restart
    BY <1>7, DropKeepsInv DEF Restart
  <1>8. CASE UNCHANGED observerVars
    BY <1>8, RestKeepsInv DEF observerVars
  <1> QED
    BY <1>1, <1>2, <1>3, <1>4, <1>5, <1>6, <1>7, <1>8 DEF ObserverNext

(* The observer and the control plane keep their invariant. *)
THEOREM ObserverInvariance == ObserverSpec => []ObserverInv
  BY InitEstablishesInv, StepKeepsInv, PTL DEF ObserverSpec

(* The lists, the calls of flush and the stored run always have their shape,
   and no request exceeds the API's limits. *)
THEOREM ObserverTypeCorrect == ObserverSpec => []ObserverTypeOK
  BY ObserverInvariance, InvImplies, PTL

(* For any number of threads, limits, observations and faults: VoxBenchObserver
   and POST /v1/observations lose no observation, except audio when the control
   plane loses its memory. *)
THEOREM ObservationsAreNotLost == ObserverSpec => []NothingIsLost
  BY ObserverInvariance, InvImplies, PTL

(* However often flushes fail, are repeated or arrive late, no observation is
   queued twice and no timeline event is stored twice. *)
THEOREM ObservationsAreDeliveredOnce == ObserverSpec => []DeliveredOnce
  BY ObserverInvariance, InvImplies, PTL

(* Once a run has ended, no step of anyone changes its status, its recording or
   its events. *)
THEOREM EndedRunStays == ObserverSpec => VerifiedRunStays
  <1>1. ASSUME [ObserverNext]_observerVars
        PROVE  [status # "running" =>
                  /\ status' = status
                  /\ wav' = wav
                  /\ rows'["event"] = rows["event"]]_observerVars
    <2> SUFFICES ASSUME status # "running"
                 PROVE  status' = status /\ wav' = wav /\ rows'["event"] = rows["event"]
      BY DEF observerVars
    <2>1. \A b : ~Accepts(b)
      BY DEF Accepts
    <2>2. \A b : Ingest(b) => UNCHANGED serverVars
      BY <2>1 DEF Ingest
    <2>3. \A f \in Flushers : ~DeliverUnsaved(f)
      BY <2>1 DEF DeliverUnsaved, IngestUnsaved
    <2>4. \A end : EndRun(end) => UNCHANGED serverVars
      BY DEF EndRun
    <2>5. ~EndRunUnsaved
      BY DEF EndRunUnsaved
    <2>6. CASE PostPoint
      BY <2>6 DEF PostPoint
    <2>7. CASE Restart
      BY <2>7 DEF Restart
    <2>8. ASSUME UNCHANGED serverVars
          PROVE  status' = status /\ wav' = wav /\ rows'["event"] = rows["event"]
      BY <2>8 DEF serverVars
    <2>9. UNCHANGED serverVars \/ PostPoint \/ Restart
      <3>1. ASSUME NEW f \in Flushers, Deliver(f) \/ AnswerLost(f) \/ RequestLost(f)
            PROVE  UNCHANGED serverVars
        BY <2>2, <3>1 DEF Deliver, AnswerLost, RequestLost
      <3>2. ASSUME NEW m \in late, DeliverLate(m) PROVE UNCHANGED serverVars
        BY <2>2, <3>2 DEF DeliverLate
      <3>3. CASE UNCHANGED observerVars
        BY <3>3 DEF observerVars
      <3>4. CASE ObserverNext
        BY <2>3, <2>4, <2>5, <3>1, <3>2, <3>4, Zenon DEF ObserverNext
      <3> QED
        BY <1>1, <3>3, <3>4
    <2> QED
      BY <2>6, <2>7, <2>8, <2>9
  <1> QED
    BY <1>1, PTL DEF ObserverSpec, VerifiedRunStays

-----------------------------------------------------------------------------
(* The click detector of observe_stage_audio.  The jumps of a chunk, with   *)
(* the frame before it, are those of the stream into the chunk's frames     *)
(* (ChunkJumps); the events of a stream are right of the frames so far      *)
(* (Judged), and a chunk keeps them so whether it has no jump, one that is  *)
(* reported or only jumps near the last event (ReportKeeps).                *)

(* The frames of k channels. *)
Pcm(k) == [1..k -> Samples]

(* Channel c jumps from frame n - 1 of s to frame n, and by how much. *)
JumpsAt(s, n, c) == Suspicious(s[n][c], s[n - 1][c])
JumpSize(s, n, c) == Magnitude(s[n][c], s[n - 1][c])

(* What detect_pcm_s16le_discontinuity says of a jump. *)
JumpRecords == [offset : Nat, magnitude : Nat, channel : Nat]

(* The frames that the detector sees for a chunk. *)
Whole(pcm, previous) == IF previous = <<>> THEN pcm ELSE <<previous>> \o pcm

(* The jump into frame n of all, the first skew of which come before the chunk; the
   jumps of those frames. *)
JumpAt(all, skew, n, c) ==
  [offset |-> n - 1 - skew, magnitude |-> JumpSize(all, n, c), channel |-> c]

IsJump(all, skew, k, j) ==
  \E n \in 2..Len(all) : \E c \in 1..k :
    JumpsAt(all, n, c) /\ j = JumpAt(all, skew, n, c)

(* detect_pcm_s16le_discontinuity looks at every channel of every two frames that
   follow each other. *)
LEMMA JumpsAre ==
  ASSUME NEW k \in Nat \ {0}, NEW pcm, NEW previous, NEW all \in Seq(Pcm(k)),
         all = Whole(pcm, previous), NEW skew, skew = Len(all) - Len(pcm)
  PROVE  \A j : j \in Jumps(pcm, previous) <=> IsJump(all, skew, k, j)
  <1> DEFINE channels == IF all = <<>> THEN {} ELSE DOMAIN all[1]
             places == {p \in (2..Len(all)) \X channels :
                          Suspicious(all[p[1]][p[2]], all[p[1] - 1][p[2]])}
  <1>1. Jumps(pcm, previous) =
          {[offset |-> p[1] - 1 - skew,
            magnitude |-> Magnitude(all[p[1]][p[2]], all[p[1] - 1][p[2]]),
            channel |-> p[2]] : p \in places}
    BY Zenon DEF Jumps, Whole
  <1>2. \A n \in 2..Len(all) : channels = 1..k
    <2>1. CASE all = <<>>
      BY <2>1
    <2>2. CASE all # <<>>
      <3>1. all[1] \in Pcm(k)
        BY <2>2
      <3> QED
        BY <2>2, <3>1 DEF Pcm
    <2> QED
      BY <2>1, <2>2
  <1>3. ASSUME NEW n \in 2..Len(all), NEW c \in 1..k, JumpsAt(all, n, c)
        PROVE  JumpAt(all, skew, n, c) \in Jumps(pcm, previous)
    <2>1. <<n, c>> \in (2..Len(all)) \X channels /\ <<n, c>>[1] = n /\ <<n, c>>[2] = c
      BY <1>2
    <2>2. <<n, c>> \in places
      BY <1>3, <2>1 DEF JumpsAt
    <2> HIDE DEF places
    <2> QED
      BY <1>1, <2>1, <2>2, Zenon DEF JumpAt, JumpSize
  <1>4. ASSUME NEW j \in Jumps(pcm, previous)
        PROVE  IsJump(all, skew, k, j)
    <2>1. PICK p \in places :
            j = [offset |-> p[1] - 1 - skew,
                 magnitude |-> Magnitude(all[p[1]][p[2]], all[p[1] - 1][p[2]]),
                 channel |-> p[2]]
      <3> HIDE DEF places
      <3> QED
        BY <1>1, Zenon
    <2>2. p \in (2..Len(all)) \X channels /\ Suspicious(all[p[1]][p[2]], all[p[1] - 1][p[2]])
      BY DEF places
    <2>3. p[1] \in 2..Len(all) /\ p[2] \in channels
      BY <2>2
    <2>4. p[2] \in 1..k
      BY <1>2, <2>3
    <2> QED
      BY <2>1, <2>2, <2>3, <2>4, Zenon DEF IsJump, JumpAt, JumpsAt, JumpSize
  <1> QED
    BY <1>3, <1>4, ZenonT(60) DEF IsJump

(* detect_pcm_s16le_discontinuity finds finitely many jumps in a chunk, each with a
   place and a magnitude. *)
LEMMA JumpsAreFinite ==
  ASSUME NEW k \in Nat \ {0}, NEW pcm, NEW previous, NEW all \in Seq(Pcm(k)),
         all = Whole(pcm, previous), NEW skew \in {0, 1}, skew = Len(all) - Len(pcm)
  PROVE  IsFiniteSet(Jumps(pcm, previous)) /\ Jumps(pcm, previous) \subseteq JumpRecords
  <1> DEFINE J == Jumps(pcm, previous)
             places == {p \in (2..Len(all)) \X (1..k) : JumpsAt(all, p[1], p[2])}
             f == [p \in places |-> JumpAt(all, skew, p[1], p[2])]
  <1>1. \A j : j \in J <=> IsJump(all, skew, k, j)
    BY JumpsAre
  <1> HIDE DEF J
  <1>2. IsFiniteSet(places)
    <2>1. IsFiniteSet(2..Len(all)) /\ IsFiniteSet(1..k)
      BY FS_Interval
    <2>2. IsFiniteSet((2..Len(all)) \X (1..k))
      BY <2>1, FS_Product, Zenon
    <2>3. places \in SUBSET ((2..Len(all)) \X (1..k))
      OBVIOUS
    <2> QED
      BY <2>2, <2>3, FS_Subset, Zenon
  <1>3. \A p \in places : /\ p[1] \in 2..Len(all) /\ p[2] \in 1..k
                          /\ JumpsAt(all, p[1], p[2])
    OBVIOUS
  <1>4. \A n \in 2..Len(all), c \in 1..k : JumpsAt(all, n, c) =>
          <<n, c>> \in places /\ <<n, c>>[1] = n /\ <<n, c>>[2] = c
    OBVIOUS
  <1> HIDE DEF places
  <1>5. f \in Surjection(places, J)
    <2>1. \A p \in places : JumpAt(all, skew, p[1], p[2]) \in J
      BY <1>1, <1>3, Zenon DEF IsJump
    <2>2. f \in [places -> J]
      BY <2>1
    <2>3. \A j \in J : \E p \in places : f[p] = j
      <3> TAKE j \in J
      <3>0. IsJump(all, skew, k, j)
        BY <1>1
      <3>1. PICK n \in 2..Len(all), c \in 1..k :
              JumpsAt(all, n, c) /\ j = JumpAt(all, skew, n, c)
        BY <3>0 DEF IsJump
      <3>2. <<n, c>> \in places /\ f[<<n, c>>] = JumpAt(all, skew, n, c)
        BY <1>4, <3>1
      <3> QED
        BY <3>1, <3>2, Zenon
    <2> HIDE DEF f
    <2> QED
      BY <2>2, <2>3, Zenon DEF Surjection
  <1>6. IsFiniteSet(J)
    BY <1>2, <1>5, FS_Surjection, Zenon
  <1>7. ASSUME NEW j \in J PROVE j \in JumpRecords
    <2>0. IsJump(all, skew, k, j)
      BY <1>1
    <2>1. PICK n \in 2..Len(all), c \in 1..k : j = JumpAt(all, skew, n, c)
      BY <2>0 DEF IsJump
    <2>2. all[n] \in Pcm(k) /\ all[n - 1] \in Pcm(k)
      OBVIOUS
    <2>3. PICK a \in Int, b \in Int : a = all[n][c] /\ b = all[n - 1][c]
      BY <2>2, AudioAssumption DEF Pcm
    <2>4. JumpSize(all, n, c) \in Nat
      BY <2>3, SMTT(30) DEF JumpSize, Magnitude, Abs
    <2>5. n - 1 - skew \in Nat /\ c \in Nat
      OBVIOUS
    <2> QED
      BY <2>1, <2>4, <2>5 DEF JumpAt, JumpRecords
  <1> QED
    BY <1>6, <1>7 DEF J

(* The strongest of some jumps, the first of those by frame and then by channel. *)
StrongestOf(jumps) ==
  LET best == {j \in jumps : \A k \in jumps : k.magnitude <= j.magnitude}
  IN  {j \in best : \A k \in best : \/ j.offset < k.offset
                                    \/ /\ j.offset = k.offset
                                       /\ j.channel <= k.channel}

(* Of the jumps of a chunk one is at least as large as the others: the comparison of
   detect_pcm_s16le_discontinuity ends with a largest one. *)
LEMMA LargestJump ==
  ASSUME NEW J, IsFiniteSet(J), J \subseteq JumpRecords, J # {}
  PROVE  \E j \in J : \A k \in J : k.magnitude <= j.magnitude
  <1> DEFINE AtLeast(j) == {k \in J : k.magnitude >= j.magnitude}
             Counts == {Cardinality(AtLeast(j)) : j \in J}
  <1>1. \A j \in J : j.magnitude \in Nat
    BY DEF JumpRecords
  <1>2. ASSUME NEW j \in J
        PROVE  IsFiniteSet(AtLeast(j)) /\ Cardinality(AtLeast(j)) \in Nat
    <2>1. AtLeast(j) \in SUBSET J
      OBVIOUS
    <2> QED
      BY <2>1, FS_Subset, FS_CardinalityType
  <1>3. Counts \in SUBSET Nat /\ Counts # {}
    BY <1>2
  <1>4. PICK x \in Counts : \A y \in Counts : x <= y
    BY <1>3, LeastMember
  <1>5. PICK j \in J : x = Cardinality(AtLeast(j))
    OBVIOUS
  <1>6. ASSUME NEW k \in J, ~(k.magnitude <= j.magnitude) PROVE FALSE
    <2>1. AtLeast(k) \in SUBSET AtLeast(j) /\ j \in AtLeast(j) /\ j \notin AtLeast(k)
      BY <1>1, <1>6
    <2>2. AtLeast(k) # AtLeast(j)
      BY <2>1
    <2>3. IsFiniteSet(AtLeast(j)) /\ Cardinality(AtLeast(j)) \in Nat
          /\ Cardinality(AtLeast(k)) \in Nat
      BY <1>2
    <2>4. x <= Cardinality(AtLeast(k))
      BY <1>4
    <2> HIDE DEF AtLeast
    <2>5. /\ Cardinality(AtLeast(k)) <= Cardinality(AtLeast(j))
          /\ Cardinality(AtLeast(j)) = Cardinality(AtLeast(k)) => AtLeast(j) = AtLeast(k)
      BY <2>1, <2>3, FS_Subset, Zenon
    <2> QED
      BY <1>5, <2>2, <2>3, <2>4, <2>5
  <1> QED
    BY <1>6

(* Of those jumps the first by frame and then by channel is one jump: a chunk has one
   discontinuity to report or none. *)
LEMMA OneStrongest ==
  ASSUME NEW J, IsFiniteSet(J), J \subseteq JumpRecords, J # {}
  PROVE  \E j \in J : StrongestOf(J) = {j}
  <1> DEFINE best == {j \in J : \A k \in J : k.magnitude <= j.magnitude}
  <1>1. best # {}
    BY LargestJump
  <1>2. best \subseteq J /\ \A j \in best : j \in JumpRecords
    OBVIOUS
  <1>3. \A j, k \in best : j.magnitude = k.magnitude
    BY DEF JumpRecords
  <1>4. StrongestOf(J) = {j \in best : \A k \in best : \/ j.offset < k.offset
                                                      \/ /\ j.offset = k.offset
                                                         /\ j.channel <= k.channel}
    BY DEF StrongestOf
  <1> HIDE DEF best
  <1>5. PICK o \in {j.offset : j \in best} : \A y \in {j.offset : j \in best} : o <= y
    <2>1. {j.offset : j \in best} \in SUBSET Nat /\ {j.offset : j \in best} # {}
      BY <1>1, <1>2 DEF JumpRecords
    <2> QED
      BY <2>1, LeastMember
  <1> DEFINE first == {j \in best : j.offset = o}
  <1>6. PICK c \in {j.channel : j \in first} : \A y \in {j.channel : j \in first} : c <= y
    <2>1. {j.channel : j \in first} \in SUBSET Nat /\ {j.channel : j \in first} # {}
      BY <1>2, <1>5 DEF JumpRecords
    <2> QED
      BY <2>1, LeastMember
  <1>7. PICK s \in best : s.offset = o /\ s.channel = c
    BY <1>6
  <1>8. \A k \in best : s.offset <= k.offset /\ (k.offset = s.offset => s.channel <= k.channel)
    BY <1>5, <1>6, <1>7
  <1>9. s \in StrongestOf(J)
    <2>1. \A k \in best : k.offset \in Nat /\ s.offset \in Nat
      BY <1>2 DEF JumpRecords
    <2> QED
      BY <1>4, <1>8, <2>1
  <1>10. ASSUME NEW j \in StrongestOf(J) PROVE j = s
    <2>1. /\ j \in best
          /\ \/ j.offset < s.offset
             \/ j.offset = s.offset /\ j.channel <= s.channel
      BY <1>4
    <2>2. j \in JumpRecords /\ s \in JumpRecords
      BY <1>2, <2>1
    <2>3. j.offset = s.offset /\ j.channel = s.channel
      BY <1>8, <2>1, <2>2 DEF JumpRecords
    <2>4. j.magnitude = s.magnitude
      BY <1>3, <2>1
    <2> QED
      BY <2>2, <2>3, <2>4 DEF JumpRecords
  <1> QED
    BY <1>2, <1>9, <1>10

(* The frame before a chunk that follows the frames S. *)
LastFrame(S) == IF S = <<>> THEN <<>> ELSE S[Len(S)]

(* The frames T begin with the frames S, and at most MaxChunk follow. *)
Continues(S, T) ==
  /\ Len(S) <= Len(T) /\ Len(T) - Len(S) <= MaxChunk
  /\ \A i \in 1..Len(S) : T[i] = S[i]

(* Of the stream T = S \o pcm, the frames all that the detector sees are the last of S,
   if there is one, and the chunk pcm. *)
IsWhole(all, skew, S, pcm, T) ==
  /\ all = Whole(pcm, LastFrame(S)) /\ skew = Len(all) - Len(pcm)
  /\ Len(all) = Len(T) - (Len(S) - skew) /\ skew <= Len(S)
  /\ Len(S) > 0 => skew = 1
  /\ \A n \in 1..Len(all) : all[n] = T[n + (Len(S) - skew)]

(* With the last frame it has kept, the detector sees the frames of the stream from the
   one before the chunk on. *)
LEMMA WholeIs ==
  ASSUME NEW k \in Nat \ {0}, NEW S \in Seq(Pcm(k)), NEW pcm \in Seq(Pcm(k)),
         NEW T \in Seq(Pcm(k)), T = S \o pcm
  PROVE  \E all \in Seq(Pcm(k)) : \E skew \in {0, 1} : IsWhole(all, skew, S, pcm, T)
  <1>1. PICK l \in Nat, m \in Nat : l = Len(S) /\ m = Len(pcm)
    OBVIOUS
  <1>2. /\ Len(T) = l + m
        /\ \A i \in 1..l : T[i] = S[i]
        /\ \A i \in 1..m : T[l + i] = pcm[i]
    BY <1>1
  <1>3. CASE S = <<>>
    <2>1. l = 0
      BY <1>1, <1>3
    <2>2. Whole(pcm, LastFrame(S)) = pcm
      BY <1>3 DEF Whole, LastFrame
    <2>3. \A n \in 1..m : pcm[n] = T[n + (l - 0)]
      BY <1>2, <2>1
    <2>4. IsWhole(pcm, 0, S, pcm, T)
      BY <1>1, <1>2, <2>1, <2>2, <2>3 DEF IsWhole
    <2> QED
      BY <2>4, Zenon
  <1>4. CASE S # <<>>
    <2>0. l >= 1
      BY <1>1, <1>4
    <2>1. LastFrame(S) = S[l] /\ S[l] \in Pcm(k)
      BY <1>1, <1>4, <2>0 DEF LastFrame
    <2>2. S[l] # <<>>
      <3>1. 1 \in DOMAIN S[l]
        BY <2>1 DEF Pcm
      <3>2. 1 \notin DOMAIN <<>>
        OBVIOUS
      <3> QED
        BY <3>1, <3>2, Zenon
    <2>3. Whole(pcm, LastFrame(S)) = <<S[l]>> \o pcm
      BY <2>1, <2>2, Zenon DEF Whole
    <2>4. PICK all \in Seq(Pcm(k)) : all = <<S[l]>> \o pcm
      <3>1. <<S[l]>> \o pcm \in Seq(Pcm(k))
        BY <2>1
      <3> QED
        BY <3>1
    <2>5. /\ Len(all) = m + 1 /\ all[1] = S[l]
          /\ \A i \in 2..(m + 1) : all[i] = pcm[i - 1]
      BY <1>1, <2>1, <2>4
    <2>6. \A n \in 1..(m + 1) : all[n] = T[n + (l - 1)]
      <3> TAKE n \in 1..(m + 1)
      <3>1. CASE n = 1
        <4>1. n + (l - 1) = l /\ l \in 1..l
          BY <2>0, <3>1
        <4>2. T[l] = S[l]
          BY <1>2, <4>1
        <4> QED
          BY <2>5, <3>1, <4>1, <4>2
      <3>2. CASE n # 1
        <4>1. n - 1 \in 1..m /\ n \in 2..(m + 1) /\ l + (n - 1) = n + (l - 1)
          BY <3>2
        <4>2. all[n] = pcm[n - 1] /\ T[l + (n - 1)] = pcm[n - 1]
          BY <1>2, <2>5, <4>1
        <4> QED
          BY <4>1, <4>2
      <3> QED
        BY <3>1, <3>2
    <2>7. IsWhole(all, 1, S, pcm, T)
      BY <1>1, <1>2, <2>0, <2>3, <2>4, <2>5, <2>6 DEF IsWhole
    <2> QED
      BY <2>7, Zenon
  <1> QED
    BY <1>3, <1>4

(* A jump of the stream T into its frame n, channel c, as seen in the chunk after l
   frames. *)
IsNewJump(T, l, k, j) ==
  \E n \in 2..Len(T) : \E c \in 1..k :
    n > l /\ JumpsAt(T, n, c) /\ j = JumpAt(T, l, n, c)

(* Where the stream is cut makes no difference: the jumps of a chunk are those of the
   stream into its frames. *)
LEMMA ChunkJumps ==
  ASSUME NEW k \in Nat \ {0}, NEW S \in Seq(Pcm(k)), NEW pcm \in Seq(Pcm(k)),
         NEW T \in Seq(Pcm(k)), T = S \o pcm
  PROVE  /\ \A j : j \in Jumps(pcm, LastFrame(S)) <=> IsNewJump(T, Len(S), k, j)
         /\ IsFiniteSet(Jumps(pcm, LastFrame(S)))
         /\ Jumps(pcm, LastFrame(S)) \subseteq JumpRecords
  <1>0. PICK all \in Seq(Pcm(k)), skew \in {0, 1} : IsWhole(all, skew, S, pcm, T)
    BY WholeIs
  <1>1. /\ all = Whole(pcm, LastFrame(S)) /\ skew = Len(all) - Len(pcm)
        /\ Len(all) = Len(T) - (Len(S) - skew) /\ skew <= Len(S)
        /\ Len(S) > 0 => skew = 1
        /\ \A n \in 1..Len(all) : all[n] = T[n + (Len(S) - skew)]
    BY <1>0 DEF IsWhole
  <1>2. PICK l \in Nat, d \in Nat, m \in Nat :
          /\ l = Len(S) /\ d = l - skew /\ m = Len(all) /\ Len(T) = m + d
          /\ skew \in Nat /\ skew <= 1 /\ skew <= l /\ (skew = 0 => l = 0)
    <2>1. PICK l \in Nat, m \in Nat, t \in Nat : l = Len(S) /\ m = Len(all) /\ t = Len(T)
      OBVIOUS
    <2>2. skew \in Nat /\ skew <= 1 /\ skew <= l /\ m = t - (l - skew) /\ (skew = 0 => l = 0)
      BY <1>1, <2>1
    <2>3. l - skew \in Nat /\ t = m + (l - skew)
      BY <2>2
    <2> QED
      BY <2>1, <2>2, <2>3
  <1>3. \A n \in 1..m : all[n] = T[n + d]
    BY <1>1, <1>2
  <1>4. ASSUME NEW n \in 2..m, NEW c \in 1..k
        PROVE  /\ n + d \in 2..Len(T) /\ n + d > l
               /\ JumpsAt(all, n, c) <=> JumpsAt(T, n + d, c)
               /\ JumpAt(all, skew, n, c) = JumpAt(T, l, n + d, c)
    <2>1. n \in 1..m /\ n - 1 \in 1..m /\ (n - 1) + d = (n + d) - 1
      BY <1>2
    <2>2. all[n] = T[n + d] /\ all[n - 1] = T[(n + d) - 1]
      BY <1>3, <2>1
    <2>3. n + d \in 2..Len(T) /\ n + d > l /\ n - 1 - skew = (n + d) - 1 - l
      BY <1>2
    <2>4. JumpsAt(all, n, c) <=> JumpsAt(T, n + d, c)
      BY <2>2, Zenon DEF JumpsAt
    <2>5. JumpAt(all, skew, n, c) = JumpAt(T, l, n + d, c)
      BY <2>2, <2>3, Zenon DEF JumpAt, JumpSize
    <2> QED
      BY <2>3, <2>4, <2>5
  <1>5. ASSUME NEW j, IsJump(all, skew, k, j) PROVE IsNewJump(T, l, k, j)
    <2>1. PICK n \in 2..m, c \in 1..k : JumpsAt(all, n, c) /\ j = JumpAt(all, skew, n, c)
      BY <1>2, <1>5 DEF IsJump
    <2> QED
      BY <1>4, <2>1, Zenon DEF IsNewJump
  <1>6. ASSUME NEW j, IsNewJump(T, l, k, j) PROVE IsJump(all, skew, k, j)
    <2>1. PICK n \in 2..Len(T), c \in 1..k :
            n > l /\ JumpsAt(T, n, c) /\ j = JumpAt(T, l, n, c)
      BY <1>6 DEF IsNewJump
    <2>2. PICK i \in 2..m : i + d = n
      <3>1. n - d \in 2..m /\ (n - d) + d = n
        BY <1>2, <2>1
      <3> QED
        BY <3>1
    <2>3. JumpsAt(all, i, c) /\ j = JumpAt(all, skew, i, c)
      BY <1>4, <2>1, <2>2, Zenon
    <2> QED
      BY <1>2, <2>3, Zenon DEF IsJump
  <1>7. \A j : j \in Jumps(pcm, LastFrame(S)) <=> IsJump(all, skew, k, j)
    BY <1>1, JumpsAre
  <1>8. IsFiniteSet(Jumps(pcm, LastFrame(S))) /\ Jumps(pcm, LastFrame(S)) \subseteq JumpRecords
    BY <1>1, JumpsAreFinite
  <1> QED
    BY <1>2, <1>5, <1>6, <1>7, <1>8, Zenon

(* A frame takes the time p: the times of frames are in the order of the frames. *)
LEMMA TimesInOrder ==
  ASSUME NEW a \in Nat, NEW b \in Nat, NEW p \in Nat \ {0}
  PROVE  /\ a * p \in Nat /\ b * p \in Nat
         /\ a <= b => a * p <= b * p
         /\ a < b => a * p < b * p
  <1>1. a * p \in Nat /\ b * p \in Nat
    OBVIOUS
  <1>2. ASSUME a <= b PROVE a * p <= b * p
    <2>1. PICK d \in Nat : b = a + d
      <3>1. b - a \in Nat /\ b = a + (b - a)
        BY <1>2
      <3> QED
        BY <3>1
    <2>2. b * p = a * p + d * p /\ d * p \in Nat
      BY <2>1
    <2> QED
      BY <1>1, <2>2
  <1>3. ASSUME a < b PROVE a * p < b * p
    <2>1. PICK d \in Nat : b = a + 1 + d
      <3>1. b - a - 1 \in Nat /\ b = a + 1 + (b - a - 1)
        BY <1>3
      <3> QED
        BY <3>1
    <2>2. b * p = a * p + p + d * p /\ d * p \in Nat
      BY <2>1
    <2> QED
      BY <1>1, <2>2
  <1> QED
    BY <1>1, <1>2, <1>3

(* Two frames less than m frames apart are less than the time of m frames apart. *)
LEMMA TimesAreNear ==
  ASSUME NEW a \in Nat, NEW b \in Nat, NEW m \in Nat, NEW p \in Nat \ {0}, b < a + m
  PROVE  m * p \in Nat /\ b * p < a * p + m * p
  <1>1. b * p < (a + m) * p
    BY TimesInOrder
  <1>2. (a + m) * p = a * p + m * p /\ m * p \in Nat
    OBVIOUS
  <1> QED
    BY <1>1, <1>2

(* The discontinuities that _timeline_events holds. *)
Clicks == [time : Nat, magnitude : Nat, channel : Nat, segment : Nat]

(* Event e is of a jump of the frames S, of k channels, p apart. *)
OfJump(e, S, k, p) ==
  \E n \in 2..Len(S) : \E c \in 1..k :
    /\ JumpsAt(S, n, c)
    /\ e.time = (n - 1) * p /\ e.magnitude = JumpSize(S, n, c) /\ e.channel = c

(* A time is within the deduplication window and the length of a chunk of frame n. *)
Near(time, n, p) == Abs(time - (n - 1) * p) < Dedup + MaxChunk * p

(* One of the events R of E is near frame n. *)
Seen(E, R, n, p) == \E r \in R : Near(E[r].time, n, p)

(* The events R of E are right of the frames S: each is of a jump, they are the window
   apart, every jump is near one; the last of them was at the time `last`. *)
Judged(S, k, p, E, R, last) ==
  /\ last \in Nat \cup {Never}
  /\ \A r \in R : r \in 1..Len(E) /\ E[r].time <= last /\ OfJump(E[r], S, k, p)
  /\ last # Never => \E r \in R : E[r].time = last
  /\ \A q, r \in R : q < r => E[r].time - E[q].time >= Dedup
  /\ \A n \in 2..Len(S) : \A c \in 1..k : JumpsAt(S, n, c) => Seen(E, R, n, p)

(* What was a jump of a stream stays one as frames follow, and so does its event. *)
LEMMA JumpsStay ==
  ASSUME NEW k \in Nat \ {0}, NEW S \in Seq(Pcm(k)), NEW T \in Seq(Pcm(k)), Continues(S, T)
  PROVE  /\ \A n \in 2..Len(S) : n \in 2..Len(T)
         /\ \A n \in 2..Len(S) : \A c \in 1..k :
              /\ JumpsAt(T, n, c) <=> JumpsAt(S, n, c)
              /\ JumpSize(T, n, c) = JumpSize(S, n, c)
         /\ \A e, p : OfJump(e, S, k, p) => OfJump(e, T, k, p)
  <1>1. PICK l \in Nat, t \in Nat : l = Len(S) /\ t = Len(T) /\ l <= t
    BY DEF Continues
  <1>2. \A n \in 2..l : n \in 2..t /\ n \in 1..l /\ n - 1 \in 1..l
    BY <1>1
  <1>3. \A n \in 2..l : T[n] = S[n] /\ T[n - 1] = S[n - 1]
    BY <1>1, <1>2 DEF Continues
  <1>4. \A n \in 2..l : \A c \in 1..k : /\ JumpsAt(T, n, c) <=> JumpsAt(S, n, c)
                                        /\ JumpSize(T, n, c) = JumpSize(S, n, c)
    BY <1>3, Zenon DEF JumpsAt, JumpSize
  <1>5. \A e, p : OfJump(e, S, k, p) => OfJump(e, T, k, p)
    BY <1>1, <1>2, <1>4, Zenon DEF OfJump
  <1> QED
    BY <1>1, <1>2, <1>4, <1>5, Zenon

(* The event of one frame of a chunk is near every frame of the chunk, and so is an
   earlier event that is within the deduplication window of it. *)
LEMMA NearInChunk ==
  ASSUME NEW l \in Nat, NEW t \in Nat, t - l <= MaxChunk, NEW p \in Nat \ {0},
         NEW n \in 2..t, n > l, NEW i \in 2..t, i > l
  PROVE  /\ (i - 1) * p \in Nat /\ Near((i - 1) * p, n, p)
         /\ \A last \in Nat :
              last <= (n - 1) * p /\ (i - 1) * p - last < Dedup => Near(last, n, p)
  <1>1. PICK a \in Nat, b \in Nat : a = i - 1 /\ b = n - 1
    OBVIOUS
  <1>2. PICK m \in Nat : m = MaxChunk
    BY AudioAssumption
  <1>3. a < b + m /\ b < a + m
    BY <1>1, <1>2
  <1>4. /\ m * p \in Nat /\ a * p \in Nat /\ b * p \in Nat
        /\ a * p < b * p + m * p /\ b * p < a * p + m * p
    BY <1>3, TimesAreNear, TimesInOrder
  <1>5. PICK x \in Nat, y \in Nat, z \in Nat, d \in Nat :
          x = a * p /\ y = b * p /\ z = m * p /\ d = Dedup
    BY <1>4, AudioAssumption
  <1>6. x < y + z /\ y < x + z
    BY <1>4, <1>5
  <1>7. Abs(x - y) < d + z
    BY <1>6 DEF Abs
  <1>8. \A last \in Nat : last <= y /\ x - last < d => Abs(last - y) < d + z
    BY <1>6 DEF Abs
  <1>9. (i - 1) * p = x /\ (n - 1) * p = y /\ MaxChunk * p = z
    BY <1>1, <1>2, <1>5, Zenon
  <1> QED
    BY <1>5, <1>7, <1>8, <1>9 DEF Near

(* A chunk for which observe_stage_audio adds no event keeps the events right if each
   of its jumps is near an event already. *)
LEMMA StaysJudged ==
  ASSUME NEW k \in Nat \ {0}, NEW S \in Seq(Pcm(k)), NEW T \in Seq(Pcm(k)), Continues(S, T),
         NEW p, NEW E, NEW R, NEW last, Judged(S, k, p, E, R, last),
         \A n \in 2..Len(T) : \A c \in 1..k :
           n > Len(S) /\ JumpsAt(T, n, c) => Seen(E, R, n, p)
  PROVE  Judged(T, k, p, E, R, last)
  <1>1. \A r \in R : OfJump(E[r], T, k, p)
    BY JumpsStay, Zenon DEF Judged
  <1>2. ASSUME NEW n \in 2..Len(T), NEW c \in 1..k, JumpsAt(T, n, c)
        PROVE  Seen(E, R, n, p)
    <2>1. CASE n > Len(S)
      BY <1>2, <2>1
    <2>2. CASE ~(n > Len(S))
      <3>1. n \in 2..Len(S)
        BY <2>2
      <3>2. JumpsAt(S, n, c)
        BY <1>2, <3>1, JumpsStay, Zenon
      <3> QED
        BY <3>1, <3>2, Zenon DEF Judged
    <2> QED
      BY <2>1, <2>2
  <1> QED
    BY <1>1, <1>2, Zenon DEF Judged

(* D is E and one event more, e. *)
OneMoreEvent(E, e, D) ==
  Len(D) = Len(E) + 1 /\ D[Len(E) + 1] = e /\ \A i \in 1..Len(E) : D[i] = E[i]

(* A chunk for which observe_stage_audio adds the event of a jump, far enough from the
   last event, keeps the events right. *)
LEMMA JudgedMore ==
  ASSUME NEW k \in Nat \ {0}, NEW S \in Seq(Pcm(k)), NEW T \in Seq(Pcm(k)), Continues(S, T),
         NEW p \in Nat \ {0}, NEW E \in Seq(Clicks), NEW R, NEW last,
         Judged(S, k, p, E, R, last),
         NEW e \in Clicks, NEW D \in Seq(Clicks), OneMoreEvent(E, e, D),
         NEW i \in 2..Len(T), i > Len(S), e.time = (i - 1) * p, OfJump(e, T, k, p),
         last = Never \/ e.time - last >= Dedup
  PROVE  Judged(T, k, p, D, R \cup {Len(E) + 1}, e.time)
  <1>1. PICK l \in Nat, t \in Nat, x \in Nat :
          l = Len(S) /\ t = Len(T) /\ t - l <= MaxChunk /\ x = Len(E) + 1
    BY DEF Continues
  <1>2. \A r \in R : r \in 1..Len(E) /\ D[r] = E[r] /\ D[r] \in Clicks /\ r < x /\ r \in 1..Len(D)
    BY <1>1 DEF Judged, OneMoreEvent
  <1>3. D[x] = e /\ x \in 1..Len(D)
    BY <1>1 DEF OneMoreEvent
  <1>4. PICK w \in Nat : w = e.time
    BY DEF Clicks
  <1>5. PICK d \in Nat : d = Dedup
    BY AudioAssumption
  <1>6. ASSUME NEW r \in R
        PROVE  D[r].time <= w /\ w - D[r].time >= d
    <2>1. PICK v \in Nat : v = D[r].time
      BY <1>2 DEF Clicks
    <2>2. v <= last /\ last \in Nat \cup {Never}
      BY <1>2, <2>1 DEF Judged
    <2>3. last # Never
      BY <2>2 DEF Never
    <2>4. w - last >= d /\ last \in Nat
      BY <1>4, <1>5, <2>2, <2>3
    <2> QED
      BY <2>1, <2>2, <2>4, SMTT(30)
  <1> DEFINE Q == R \cup {x}
  <1>7. \A r \in Q : r \in 1..Len(D) /\ D[r].time <= w /\ OfJump(D[r], T, k, p)
    <2>1. \A r \in R : OfJump(D[r], T, k, p)
      BY <1>2, JumpsStay, Zenon DEF Judged
    <2>2. D[x].time <= w /\ OfJump(D[x], T, k, p)
      BY <1>3, <1>4
    <2> QED
      BY <1>2, <1>3, <1>6, <2>1, <2>2
  <1>8. \A q, r \in Q : q < r => D[r].time - D[q].time >= d
    <2> SUFFICES ASSUME NEW q \in Q, NEW r \in Q, q < r PROVE D[r].time - D[q].time >= d
      OBVIOUS
    <2>1. CASE r = x
      <3>1. q \in R
        BY <2>1
      <3> QED
        BY <1>3, <1>4, <1>6, <2>1, <3>1
    <2>2. CASE r # x
      <3>1. r \in R /\ r < x /\ r \in Nat
        BY <1>2, <2>2
      <3>2. q \in R
        BY <3>1
      <3> QED
        BY <1>2, <1>5, <3>1, <3>2 DEF Judged
    <2> QED
      BY <2>1, <2>2
  <1>9. ASSUME NEW n \in 2..Len(T), NEW c \in 1..k, JumpsAt(T, n, c)
        PROVE  Seen(D, Q, n, p)
    <2>1. CASE n > Len(S)
      <3>1. Near((i - 1) * p, n, p)
        BY <1>1, <2>1, NearInChunk
      <3>2. Near(D[x].time, n, p)
        BY <1>3, <3>1, Zenon
      <3> QED
        BY <3>2, Zenon DEF Seen
    <2>2. CASE ~(n > Len(S))
      <3>1. n \in 2..Len(S)
        BY <2>2
      <3>2. JumpsAt(S, n, c)
        BY <1>9, <3>1, JumpsStay, Zenon
      <3>3. Seen(E, R, n, p)
        BY <3>1, <3>2, Zenon DEF Judged
      <3>4. PICK r \in R : Near(E[r].time, n, p)
        BY <3>3, Zenon DEF Seen
      <3>5. D[r] = E[r]
        BY <1>2
      <3> QED
        BY <3>4, <3>5, Zenon DEF Seen
    <2> QED
      BY <2>1, <2>2
  <1>10. Judged(T, k, p, D, Q, w)
    <2>1. \E r \in Q : D[r].time = w
      BY <1>3, <1>4
    <2> HIDE DEF Q
    <2> QED
      BY <1>5, <1>7, <1>8, <1>9, <2>1 DEF Judged
  <1> QED
    BY <1>1, <1>4, <1>10

(* The inductive invariant: what _stage_pcm_state keeps of the past is what the detector
   needs of the stream, and the events are right of the frames so far. *)
ClickInv ==
  /\ stream \in Seq(Pcm(prior.format.channels))
  /\ prior.final = LastFrame(stream) /\ prior.offset = Len(stream)
  /\ segment \in Nat /\ events \in Seq(Clicks)
  /\ \A n \in 1..Len(events) : events[n].segment <= segment
  /\ Judged(stream, prior.format.channels, prior.format.period, events, Reported, prior.last)
  /\ prior.format \in Formats \/ stream = <<>>

(* The stream, the events and the time that a chunk of this format continues. *)
KeptStream(format) == IF prior.format = format THEN stream ELSE <<>>
KeptEvents(format) == IF prior.format = format THEN Reported ELSE {}
KeptLast(format) == IF prior.format = format THEN prior.last ELSE Never
SegmentOf(format) == segment + (IF prior.format = format THEN 0 ELSE 1)

(* The state that observe_stage_audio continues: that of the last chunk, or none
   when the format has changed. *)
LEMMA BeforeChunk ==
  ASSUME ClickInv, NEW format \in Formats
  PROVE  /\ KeptStream(format) \in Seq(Pcm(format.channels))
         /\ (IF prior.format = format THEN prior.final ELSE <<>>) = LastFrame(KeptStream(format))
         /\ (IF prior.format = format THEN prior.offset ELSE 0) = Len(KeptStream(format))
         /\ SegmentOf(format) \in Nat /\ segment <= SegmentOf(format)
         /\ \A r \in 1..Len(events) :
              events[r].segment = SegmentOf(format) <=> r \in KeptEvents(format)
         /\ Judged(KeptStream(format), format.channels, format.period, events,
                   KeptEvents(format), KeptLast(format))
  <1>1. CASE prior.format = format
    <2>1. /\ KeptStream(format) = stream /\ KeptEvents(format) = Reported
          /\ KeptLast(format) = prior.last /\ SegmentOf(format) = segment
      BY <1>1 DEF KeptStream, KeptEvents, KeptLast, SegmentOf, ClickInv
    <2>2. \A r \in 1..Len(events) : events[r].segment = segment <=> r \in Reported
      BY DEF Reported, ClickInv
    <2> QED
      BY <1>1, <2>1, <2>2 DEF ClickInv
  <1>2. CASE prior.format # format
    <2>1. /\ KeptStream(format) = <<>> /\ KeptEvents(format) = {}
          /\ KeptLast(format) = Never /\ SegmentOf(format) = segment + 1
      BY <1>2 DEF KeptStream, KeptEvents, KeptLast, SegmentOf
    <2>2. segment \in Nat /\ \A r \in 1..Len(events) : events[r].segment # segment + 1
      <3> SUFFICES ASSUME NEW r \in 1..Len(events) PROVE events[r].segment # segment + 1
        BY DEF ClickInv
      <3>1. events[r] \in Clicks /\ segment \in Nat /\ events[r].segment <= segment
        BY DEF ClickInv
      <3>2. events[r].segment \in Nat
        BY <3>1 DEF Clicks
      <3> QED
        BY <3>1, <3>2
    <2>3. <<>> \in Seq(Pcm(format.channels)) /\ Len(<<>>) = 0 /\ LastFrame(<<>>) = <<>>
      BY DEF LastFrame
    <2>4. 2..Len(<<>>) = {}
      BY <2>3
    <2>5. Judged(<<>>, format.channels, format.period, events, {}, Never)
      BY <2>4 DEF Judged
    <2> QED
      BY <1>2, <2>1, <2>2, <2>3, <2>5
  <1> QED
    BY <1>1, <1>2

(* The last event of a stream is not later than any frame of the chunk that follows. *)
LEMMA LastIsPast ==
  ASSUME NEW k \in Nat \ {0}, NEW S \in Seq(Pcm(k)), NEW p \in Nat \ {0}, NEW E, NEW R, NEW last,
         Judged(S, k, p, E, R, last), last # Never, NEW n \in Nat, n > Len(S)
  PROVE  last \in Nat /\ last <= (n - 1) * p
  <1>1. last \in Nat
    BY DEF Judged
  <1>2. PICK r \in R : E[r].time = last /\ OfJump(E[r], S, k, p)
    BY DEF Judged
  <1>3. PICK m \in 2..Len(S) : last = (m - 1) * p
    BY <1>2 DEF OfJump
  <1>4. m - 1 \in Nat /\ n - 1 \in Nat /\ m - 1 <= n - 1
    OBVIOUS
  <1>5. (m - 1) * p <= (n - 1) * p
    BY <1>4, TimesInOrder
  <1> QED
    BY <1>1, <1>3, <1>5

(* A chunk whose strongest jump is too near to the last event to be reported: every
   jump of the chunk is near that event. *)
LEMMA SuppressedIsSeen ==
  ASSUME NEW k \in Nat \ {0}, NEW S \in Seq(Pcm(k)), NEW T \in Seq(Pcm(k)), Continues(S, T),
         NEW p \in Nat \ {0}, NEW E, NEW R, NEW last, Judged(S, k, p, E, R, last),
         NEW i \in 2..Len(T), i > Len(S), last # Never, ~((i - 1) * p - last >= Dedup),
         NEW n \in 2..Len(T), n > Len(S)
  PROVE  Seen(E, R, n, p)
  <1>1. PICK l \in Nat, t \in Nat : l = Len(S) /\ t = Len(T) /\ t - l <= MaxChunk
    BY DEF Continues
  <1>2. last \in Nat /\ last <= (n - 1) * p
    BY LastIsPast
  <1>3. (i - 1) * p - last < Dedup
    <2>1. (i - 1) * p \in Nat
      BY <1>1, NearInChunk
    <2>2. PICK x \in Nat, d \in Nat : x = (i - 1) * p /\ d = Dedup
      BY <2>1, AudioAssumption
    <2> QED
      BY <1>2, <2>2
  <1>4. Near(last, n, p)
    BY <1>1, <1>2, <1>3, NearInChunk
  <1>5. PICK r \in R : E[r].time = last
    BY DEF Judged
  <1> QED
    BY <1>4, <1>5, Zenon DEF Seen

(* The event that a jump j of a chunk is reported as. *)
EventOf(j, offset, p, segm) ==
  [time |-> (offset + j.offset) * p, magnitude |-> j.magnitude, channel |-> j.channel,
   segment |-> segm]

(* What is reported of a chunk that follows the frames S. *)
ReportFor(pcm, S, p, segm, last) ==
  {e \in {EventOf(j, Len(S), p, segm) : j \in Strongest(pcm, LastFrame(S))} :
     Report(e.time, last)}

(* What a chunk adds to the events E: nothing or one event, the last of which was at
   time last. *)
Adds(E, D, R, Q, last, end, report) ==
  \/ report = {} /\ D = E /\ Q = R /\ end = last
  \/ \E e \in Clicks : /\ report = {e} /\ OneMoreEvent(E, e, D)
                       /\ Q = R \cup {Len(E) + 1} /\ end = e.time

(* A report is nothing or one event. *)
IsReport(report, segm) == report = {} \/ \E e \in Clicks : report = {e} /\ e.segment = segm

(* The events E and the report, as observe_stage_audio appends it. *)
WithReport(E, report) ==
  E \o [n \in 1..Cardinality(report) |-> CHOOSE e \in report : TRUE]

(* D is E with the report. *)
ReportAdded(E, D, report, segm) ==
  \/ report = {} /\ D = E
  \/ \E e \in Clicks : /\ report = {e} /\ OneMoreEvent(E, e, D) /\ e.segment = segm
                       /\ (CHOOSE x \in report : TRUE) = e

(* One chunk keeps the events right: it has no jump, or its strongest is reported, or it
   is suppressed and then an event is near all of the chunk's jumps. *)
LEMMA ReportKeeps ==
  ASSUME NEW k \in Nat \ {0}, NEW S \in Seq(Pcm(k)), NEW pcm \in Seq(Pcm(k)),
         NEW T \in Seq(Pcm(k)), T = S \o pcm, Continues(S, T), NEW p \in Nat \ {0},
         NEW E \in Seq(Clicks), NEW R, NEW last, Judged(S, k, p, E, R, last), NEW segm \in Nat,
         NEW report, report = ReportFor(pcm, S, p, segm, last),
         NEW D \in Seq(Clicks), NEW Q, NEW end, Adds(E, D, R, Q, last, end, report)
  PROVE  Judged(T, k, p, D, Q, end)
  <1> DEFINE J == Jumps(pcm, LastFrame(S))
  <1>1. /\ \A j : j \in J <=> IsNewJump(T, Len(S), k, j)
        /\ IsFiniteSet(J) /\ J \subseteq JumpRecords
    BY ChunkJumps
  <1>2. Strongest(pcm, LastFrame(S)) = StrongestOf(J)
    BY Zenon DEF Strongest, StrongestOf
  <1> HIDE DEF J
  <1>3. ASSUME NEW n \in 2..Len(T), NEW c \in 1..k, n > Len(S), JumpsAt(T, n, c)
        PROVE  J # {}
    <2>1. IsNewJump(T, Len(S), k, JumpAt(T, Len(S), n, c))
      BY <1>3, Zenon DEF IsNewJump
    <2> QED
      BY <1>1, <2>1
  <1>4. CASE J = {}
    <2>1. StrongestOf(J) = {}
      BY <1>4 DEF StrongestOf
    <2>2. report = {}
      BY <1>2, <2>1 DEF ReportFor
    <2>3. D = E /\ Q = R /\ end = last
      BY <2>2 DEF Adds
    <2>4. Judged(T, k, p, E, R, last)
      BY <1>3, <1>4, StaysJudged
    <2> QED
      BY <2>3, <2>4
  <1>5. CASE J # {}
    <2>1. PICK j \in J : StrongestOf(J) = {j}
      BY <1>1, <1>5, OneStrongest
    <2>2. PICK i \in 2..Len(T), c \in 1..k :
            i > Len(S) /\ JumpsAt(T, i, c) /\ j = JumpAt(T, Len(S), i, c)
      <3>1. IsNewJump(T, Len(S), k, j)
        BY <1>1
      <3> QED
        BY <3>1 DEF IsNewJump
    <2>3. PICK e : e = EventOf(j, Len(S), p, segm)
      OBVIOUS
    <2>4. /\ e.time = (i - 1) * p /\ e.magnitude = JumpSize(T, i, c) /\ e.channel = c
          /\ e \in Clicks
      <3>1. j.offset = i - 1 - Len(S) /\ j.magnitude = JumpSize(T, i, c) /\ j.channel = c
        BY <2>2 DEF JumpAt
      <3>2. Len(S) + j.offset = i - 1 /\ i - 1 \in Nat
        BY <3>1
      <3>3. (i - 1) * p \in Nat
        BY <3>2, TimesInOrder
      <3>4. j \in JumpRecords
        BY <1>1
      <3>5. e.time = (i - 1) * p /\ e.magnitude = j.magnitude /\ e.channel = j.channel
        BY <2>3, <3>2 DEF EventOf
      <3> QED
        BY <2>3, <3>1, <3>2, <3>3, <3>4, <3>5 DEF EventOf, Clicks, JumpRecords
    <2>5. {EventOf(x, Len(S), p, segm) : x \in Strongest(pcm, LastFrame(S))} = {e}
      BY <1>2, <2>1, <2>3
    <2>6. OfJump(e, T, k, p)
      BY <2>2, <2>4, Zenon DEF OfJump
    <2>7. CASE Report(e.time, last)
      <3>1. report = {e}
        BY <2>5, <2>7 DEF ReportFor
      <3>2. OneMoreEvent(E, e, D) /\ Q = R \cup {Len(E) + 1} /\ end = e.time
        BY <3>1 DEF Adds
      <3>3. last = Never \/ e.time - last >= Dedup
        BY <2>7 DEF Report
      <3>4. Judged(T, k, p, D, R \cup {Len(E) + 1}, e.time)
        BY <2>2, <2>4, <2>6, <3>2, <3>3, JudgedMore
      <3> QED
        BY <3>2, <3>4
    <2>8. CASE ~Report(e.time, last)
      <3>1. report = {}
        BY <2>5, <2>8 DEF ReportFor
      <3>2. D = E /\ Q = R /\ end = last
        BY <3>1 DEF Adds
      <3>3. last # Never /\ ~((i - 1) * p - last >= Dedup)
        BY <2>4, <2>8 DEF Report
      <3>4. \A n \in 2..Len(T) : n > Len(S) => Seen(E, R, n, p)
        BY <2>2, <3>3, SuppressedIsSeen
      <3>5. Judged(T, k, p, E, R, last)
        BY <3>4, StaysJudged
      <3> QED
        BY <3>2, <3>5
    <2> QED
      BY <2>7, <2>8
  <1> QED
    BY <1>4, <1>5

(* observe_stage_audio reports nothing or one event of a chunk. *)
LEMMA ReportIsOne ==
  ASSUME NEW k \in Nat \ {0}, NEW S \in Seq(Pcm(k)), NEW pcm \in Seq(Pcm(k)),
         NEW T \in Seq(Pcm(k)), T = S \o pcm, NEW p \in Nat \ {0}, NEW last, NEW segm \in Nat,
         NEW report, report = ReportFor(pcm, S, p, segm, last)
  PROVE  IsReport(report, segm)
  <1> DEFINE J == Jumps(pcm, LastFrame(S))
  <1>1. IsFiniteSet(J) /\ J \subseteq JumpRecords
    BY ChunkJumps
  <1>2. Strongest(pcm, LastFrame(S)) = StrongestOf(J)
    BY Zenon DEF Strongest, StrongestOf
  <1> HIDE DEF J
  <1>3. CASE J = {}
    <2>1. StrongestOf(J) = {}
      BY <1>3 DEF StrongestOf
    <2> QED
      BY <1>2, <2>1 DEF ReportFor, IsReport
  <1>4. CASE J # {}
    <2>1. PICK j \in J : StrongestOf(J) = {j}
      BY <1>1, <1>4, OneStrongest
    <2>2. PICK e : e = EventOf(j, Len(S), p, segm)
      OBVIOUS
    <2>3. e \in Clicks /\ e.segment = segm
      <3>1. j.offset \in Nat /\ j.magnitude \in Nat /\ j.channel \in Nat
        BY <1>1 DEF JumpRecords
      <3>2. (Len(S) + j.offset) * p \in Nat
        <4>1. Len(S) + j.offset \in Nat
          BY <3>1
        <4> QED
          BY <4>1, TimesInOrder
      <3> QED
        BY <2>2, <3>1, <3>2 DEF EventOf, Clicks
    <2>4. {EventOf(x, Len(S), p, segm) : x \in Strongest(pcm, LastFrame(S))} = {e}
      BY <1>2, <2>1, <2>2
    <2>5. report = {} \/ report = {e}
      BY <2>4 DEF ReportFor
    <2> QED
      BY <2>3, <2>5 DEF IsReport
  <1> QED
    BY <1>3, <1>4

(* Appending the frames of a chunk to those of the stream. *)
LEMMA LongTogether ==
  ASSUME NEW C, NEW A \in Seq(C), NEW N \in Seq(C)
  PROVE  A \o N \in Seq(C) /\ Len(A \o N) = Len(A) + Len(N)
  OBVIOUS

(* Appending one event to _timeline_events. *)
LEMMA OneAfter ==
  ASSUME NEW C, NEW A \in Seq(C), NEW N \in Seq(C), Len(N) = 1
  PROVE  /\ A \o N \in Seq(C) /\ Len(A \o N) = Len(A) + 1
         /\ (A \o N)[Len(A) + 1] = N[1]
         /\ \A i \in 1..Len(A) : (A \o N)[i] = A[i]
  <1>1. A \o N \in Seq(C)
    OBVIOUS
  <1>2. PICK l \in Nat : l = Len(A)
    OBVIOUS
  <1>3. Len(A \o N) = Len(A) + Len(N)
    BY LongTogether, Zenon
  <1>4. Len(A \o N) = l + 1
    BY <1>2, <1>3
  <1>5. (A \o N)[l + 1] = N[1]
    BY <1>2, <1>4
  <1>6. \A i \in 1..l : (A \o N)[i] = A[i]
    BY <1>2, <1>4
  <1> QED
    BY <1>1, <1>2, <1>4, <1>5, <1>6

(* After a chunk the events are those before it, and its report. *)
LEMMA EventsAreAdded ==
  ASSUME NEW E \in Seq(Clicks), NEW report, NEW D, NEW segm \in Nat,
         IsReport(report, segm), D = WithReport(E, report)
  PROVE  D \in Seq(Clicks) /\ ReportAdded(E, D, report, segm)
  <1>1. CASE report = {}
    <2>1. Cardinality(report) = 0
      BY <1>1, FS_EmptySet
    <2>2. D = E \o <<>>
      <3>1. [n \in 1..0 |-> CHOOSE e \in report : TRUE] = <<>>
        OBVIOUS
      <3> QED
        BY <2>1, <3>1 DEF WithReport
    <2>3. E \o <<>> = E
      OBVIOUS
    <2> QED
      BY <1>1, <2>2, <2>3 DEF ReportAdded
  <1>2. CASE report # {}
    <2>1. PICK e \in Clicks : report = {e} /\ e.segment = segm
      BY <1>2 DEF IsReport
    <2>2. Cardinality(report) = 1
      BY <2>1, FS_Singleton
    <2>3. (CHOOSE x \in report : TRUE) = e
      BY <2>1
    <2>4. PICK N : N = [n \in 1..1 |-> e]
      OBVIOUS
    <2>5. D = E \o N
      BY <2>2, <2>3, <2>4 DEF WithReport
    <2>6. N \in Seq(Clicks) /\ Len(N) = 1 /\ N[1] = e
      BY <2>4
    <2>7. PICK l \in Nat : l = Len(E)
      OBVIOUS
    <2>8. /\ E \o N \in Seq(Clicks) /\ Len(E \o N) = l + 1 /\ (E \o N)[l + 1] = e
          /\ \A i \in 1..l : (E \o N)[i] = E[i]
      BY <2>6, <2>7, OneAfter
    <2>9. OneMoreEvent(E, e, D)
      BY <2>5, <2>7, <2>8 DEF OneMoreEvent
    <2> QED
      BY <2>1, <2>3, <2>5, <2>8, <2>9 DEF ReportAdded
  <1> QED
    BY <1>1, <1>2

(* The last frame that is kept after a chunk and before it. *)
FinalOf(format, pcm) == Final(pcm, prior.format = format)
KeptFrame(format) == IF prior.format = format THEN prior.final ELSE <<>>

(* The last frame that observe_stage_audio keeps is the last of the stream, after an
   empty chunk too. *)
LEMMA FinalIsLast ==
  ASSUME NEW k \in Nat \ {0}, NEW S \in Seq(Pcm(k)), NEW pcm \in Seq(Pcm(k)),
         NEW T \in Seq(Pcm(k)), T = S \o pcm
  PROVE  \A format : KeptFrame(format) = LastFrame(S) => FinalOf(format, pcm) = LastFrame(T)
  <1> SUFFICES ASSUME NEW format, KeptFrame(format) = LastFrame(S)
               PROVE  FinalOf(format, pcm) = LastFrame(T)
    BY Zenon
  <1>1. CASE pcm = <<>>
    <2>1. T = S
      BY <1>1
    <2>2. FinalOf(format, pcm) = KeptFrame(format)
      BY <1>1, Zenon DEF Final, FinalOf, KeptFrame
    <2> QED
      BY <2>1, <2>2, Zenon
  <1>2. CASE pcm # <<>>
    <2>1. PICK l \in Nat, m \in Nat : l = Len(S) /\ m = Len(pcm) /\ m >= 1
      BY <1>2
    <2>2. Len(T) = l + m /\ T[l + m] = pcm[m] /\ T # <<>>
      BY <2>1
    <2> QED
      BY <1>2, <2>1, <2>2 DEF FinalOf, Final, LastFrame
  <1> QED
    BY <1>1, <1>2

(* The stream with one chunk more begins with the stream, and is one chunk longer. *)
LEMMA ChunkContinues ==
  ASSUME NEW k \in Nat \ {0}, NEW S \in Seq(Pcm(k)), NEW n \in 0..MaxChunk,
         NEW pcm \in [1..n -> Pcm(k)]
  PROVE  /\ pcm \in Seq(Pcm(k)) /\ Len(pcm) = n /\ S \o pcm \in Seq(Pcm(k))
         /\ Len(S \o pcm) = Len(S) + n /\ Continues(S, S \o pcm)
  <1>1. MaxChunk \in Nat /\ n \in Nat /\ n <= MaxChunk
    BY AudioAssumption
  <1>2. pcm \in Seq(Pcm(k)) /\ Len(pcm) = n
    BY <1>1
  <1>3. S \o pcm \in Seq(Pcm(k)) /\ Len(S \o pcm) = Len(S) + Len(pcm)
    BY <1>2, LongTogether
  <1>4. PICK l \in Nat : l = Len(S)
    OBVIOUS
  <1>5. \A i \in 1..l : (S \o pcm)[i] = S[i]
    BY <1>2, <1>4
  <1>6. Len(S \o pcm) = l + n
    BY <1>2, <1>3, <1>4
  <1> QED
    BY <1>1, <1>2, <1>3, <1>4, <1>5, <1>6 DEF Continues

(* The events of the present format after a chunk: those before it and its report. *)
LEMMA ReportedAfter ==
  ASSUME NEW E \in Seq(Clicks), NEW D \in Seq(Clicks), NEW R, NEW Q, NEW segm \in Nat,
         NEW report, NEW last, NEW end,
         R \subseteq 1..Len(E),
         \A r \in 1..Len(E) : E[r].segment = segm <=> r \in R,
         Q = {n \in DOMAIN D : D[n].segment = segm},
         ReportAdded(E, D, report, segm),
         end = IF report = {} THEN last ELSE (CHOOSE x \in report : TRUE).time
  PROVE  Adds(E, D, R, Q, last, end, report)
  <1>1. CASE report = {} /\ D = E
    <2>1. DOMAIN D = 1..Len(E)
      BY <1>1
    <2>2. Q = R
      BY <1>1, <2>1
    <2> QED
      BY <1>1, <2>2 DEF Adds
  <1>2. CASE ~(report = {} /\ D = E)
    <2>1. PICK e \in Clicks : /\ report = {e} /\ OneMoreEvent(E, e, D) /\ e.segment = segm
                              /\ (CHOOSE x \in report : TRUE) = e
      BY <1>2 DEF ReportAdded
    <2>2. end = e.time
      BY <2>1
    <2>3. PICK l \in Nat : l = Len(E)
      OBVIOUS
    <2>4. DOMAIN D = 1..(l + 1) /\ D[l + 1] = e /\ \A i \in 1..l : D[i] = E[i]
      BY <2>1, <2>3 DEF OneMoreEvent
    <2>5. Q = R \cup {l + 1}
      <3>1. \A n \in 1..(l + 1) : n \in 1..l \/ n = l + 1
        OBVIOUS
      <3>2. \A n \in 1..l : n \in Q <=> n \in R
        BY <2>3, <2>4
      <3>3. l + 1 \in Q
        BY <2>1, <2>4
      <3>4. Q \subseteq 1..(l + 1) /\ R \subseteq 1..l
        BY <2>3, <2>4
      <3> QED
        BY <3>1, <3>2, <3>3, <3>4
    <2> QED
      BY <2>1, <2>2, <2>3, <2>5 DEF Adds
  <1> QED
    BY <1>1, <1>2

(* What observe_stage_audio reports of a chunk. *)
ReportOf(format, pcm) ==
  ReportFor(pcm, KeptStream(format), format.period, SegmentOf(format), KeptLast(format))

(* observe_stage_audio in terms of what it keeps of the stream. *)
LEMMA ObserveIs ==
  ASSUME ClickInv, NEW format \in Formats, NEW pcm, ObserveStageAudio(format, pcm),
         NEW made, made = ReportOf(format, pcm)
  PROVE  /\ events' = WithReport(events, made)
         /\ prior'.format = format
         /\ prior'.final = FinalOf(format, pcm)
         /\ prior'.offset = Len(KeptStream(format)) + Len(pcm)
         /\ prior'.last = IF made = {} THEN KeptLast(format)
                          ELSE (CHOOSE e \in made : TRUE).time
         /\ stream' = KeptStream(format) \o pcm
         /\ segment' = SegmentOf(format)
  <1> DEFINE same == prior.format = format
             previous == IF same THEN prior.final ELSE <<>>
             offset == IF same THEN prior.offset ELSE 0
             last == IF same THEN prior.last ELSE Never
             now == segment + (IF same THEN 0 ELSE 1)
             found == {[time |-> (offset + j.offset) * format.period,
                        magnitude |-> j.magnitude, channel |-> j.channel,
                        segment |-> now] : j \in Strongest(pcm, previous)}
             report == {e \in found : Report(e.time, last)}
  <1>1. /\ previous = LastFrame(KeptStream(format)) /\ offset = Len(KeptStream(format))
        /\ last = KeptLast(format) /\ now = SegmentOf(format)
    BY BeforeChunk, Zenon DEF KeptLast, SegmentOf
  <1>2. found = {EventOf(j, Len(KeptStream(format)), format.period, SegmentOf(format)) :
                   j \in Strongest(pcm, LastFrame(KeptStream(format)))}
    BY <1>1, Zenon DEF EventOf
  <1>3. report = ReportOf(format, pcm)
    BY <1>1, <1>2, Zenon DEF ReportOf, ReportFor
  <1>4. /\ events' = events \o [n \in 1..Cardinality(report) |-> CHOOSE e \in report : TRUE]
        /\ prior' = [format |-> format, final |-> Final(pcm, same),
                     offset |-> NextOffset(format, pcm, same),
                     last |-> IF report = {} THEN last
                              ELSE (CHOOSE e \in report : TRUE).time]
        /\ stream' = (IF same THEN stream ELSE <<>>) \o pcm
        /\ segment' = now
    BY Zenon DEF ObserveStageAudio
  <1>5. NextOffset(format, pcm, same) = offset + Len(pcm)
    BY Zenon DEF NextOffset
  <1>6. stream' = KeptStream(format) \o pcm
    BY <1>4, Zenon DEF KeptStream
  <1> HIDE DEF same, previous, offset, last, now, found, report
  <1>7. /\ prior'.format = format /\ prior'.final = Final(pcm, same)
        /\ prior'.offset = NextOffset(format, pcm, same)
        /\ prior'.last = IF report = {} THEN last ELSE (CHOOSE e \in report : TRUE).time
    BY <1>4
  <1>8. prior'.final = FinalOf(format, pcm)
    BY <1>7, Zenon DEF same, FinalOf
  <1>9. prior'.offset = Len(KeptStream(format)) + Len(pcm)
    BY <1>1, <1>5, <1>7, Zenon
  <1>10. prior'.last = IF report = {} THEN KeptLast(format) ELSE (CHOOSE e \in report : TRUE).time
    BY <1>1, <1>7, Zenon
  <1>11. segment' = SegmentOf(format)
    BY <1>1, <1>4, Zenon
  <1> QED
    BY <1>3, <1>4, <1>6, <1>7, <1>8, <1>9, <1>10, <1>11, Zenon DEF WithReport

(* observe_stage_audio keeps the invariant, for a chunk of any length and of the format
   of the last one or another. *)
LEMMA ChunkKeeps ==
  ASSUME ClickInv, NEW format \in Formats, NEW n \in 0..MaxChunk,
         NEW pcm \in [1..n -> Frame(format)], ObserveStageAudio(format, pcm)
  PROVE  ClickInv'
  <1>1. PICK k \in Nat \ {0}, p \in Nat \ {0} : k = format.channels /\ p = format.period
    BY AudioAssumption
  <1>2. PICK S \in Seq(Pcm(k)) : S = KeptStream(format)
    BY <1>1, BeforeChunk
  <1>3. pcm \in [1..n -> Pcm(k)]
    BY <1>1 DEF Frame, Pcm
  <1>4. /\ pcm \in Seq(Pcm(k)) /\ Len(pcm) = n /\ S \o pcm \in Seq(Pcm(k))
        /\ Len(S \o pcm) = Len(S) + n /\ Continues(S, S \o pcm)
    BY <1>3, ChunkContinues
  <1>5. PICK T \in Seq(Pcm(k)) : T = S \o pcm
    BY <1>4
  <1>6. PICK segm \in Nat : segm = SegmentOf(format)
    BY BeforeChunk
  <1>7. PICK last, R, report, E, D, end, Q : 
           /\ last = KeptLast(format) /\ R = KeptEvents(format)
           /\ report = ReportOf(format, pcm) /\ E = events /\ D = events'
           /\ end = prior'.last /\ Q = Reported'
    OBVIOUS
  <1>8. /\ D = WithReport(E, report)
        /\ prior'.format = format
        /\ prior'.final = FinalOf(format, pcm)
        /\ prior'.offset = Len(S) + Len(pcm)
        /\ end = IF report = {} THEN last ELSE (CHOOSE e \in report : TRUE).time
        /\ stream' = T
        /\ segment' = segm
    <2>1. /\ events' = WithReport(events, report)
          /\ prior'.format = format
          /\ prior'.final = FinalOf(format, pcm)
          /\ prior'.offset = Len(KeptStream(format)) + Len(pcm)
          /\ prior'.last = IF report = {} THEN KeptLast(format)
                           ELSE (CHOOSE e \in report : TRUE).time
          /\ stream' = KeptStream(format) \o pcm
          /\ segment' = SegmentOf(format)
      <3>1. report = ReportOf(format, pcm)
        BY <1>7
      <3> QED
        BY <3>1, ObserveIs, Zenon
    <2>2. /\ KeptStream(format) = S /\ T = S \o pcm /\ segm = SegmentOf(format)
          /\ last = KeptLast(format) /\ E = events /\ D = events' /\ end = prior'.last
      BY <1>2, <1>5, <1>6, <1>7
    <2> QED
      BY <2>1, <2>2, Zenon
  <1>9. report = ReportFor(pcm, S, p, segm, last)
    BY <1>1, <1>2, <1>6, <1>7, Zenon DEF ReportOf
  <1>10. /\ E \in Seq(Clicks) /\ Judged(S, k, p, E, R, last)
         /\ \A r \in 1..Len(E) : E[r].segment = segm <=> r \in R
         /\ \A r \in 1..Len(E) : E[r].segment <= segm
         /\ (IF prior.format = format THEN prior.final ELSE <<>>) = LastFrame(S)
    <2>1. /\ Judged(S, k, p, E, R, last)
          /\ \A r \in 1..Len(E) : E[r].segment = segm <=> r \in R
          /\ (IF prior.format = format THEN prior.final ELSE <<>>) = LastFrame(S)
          /\ segment <= segm
      BY <1>1, <1>2, <1>6, <1>7, BeforeChunk, Zenon
    <2>2. E \in Seq(Clicks) /\ segment \in Nat /\ \A r \in 1..Len(E) : E[r].segment <= segment
      BY <1>7 DEF ClickInv
    <2>3. \A r \in 1..Len(E) : E[r].segment \in Nat
      <3> SUFFICES ASSUME NEW r \in 1..Len(E) PROVE E[r].segment \in Nat
        OBVIOUS
      <3>1. E[r] \in Clicks
        BY <2>2
      <3> QED
        BY <3>1 DEF Clicks
    <2>4. \A r \in 1..Len(E) : E[r].segment <= segm
      BY <2>1, <2>2, <2>3
    <2> QED
      BY <2>1, <2>2, <2>4
  <1>11. IsReport(report, segm)
    BY <1>4, <1>5, <1>9, ReportIsOne
  <1>12. D \in Seq(Clicks) /\ ReportAdded(E, D, report, segm)
    BY <1>8, <1>10, <1>11, EventsAreAdded
  <1>13. R \subseteq 1..Len(E)
    BY <1>10 DEF Judged
  <1>14. Q = {i \in DOMAIN D : D[i].segment = segm}
    BY <1>7, <1>8, Zenon DEF Reported
  <1>15. Adds(E, D, R, Q, last, end, report)
    BY <1>8, <1>10, <1>12, <1>13, <1>14, ReportedAfter
  <1>16. Judged(T, k, p, D, Q, end)
    BY <1>4, <1>5, <1>9, <1>10, <1>12, <1>15, ReportKeeps
  <1>17. prior'.final = LastFrame(T)
    <2>1. FinalOf(format, pcm) = LastFrame(T)
      <3>1. pcm \in Seq(Pcm(k)) /\ T = S \o pcm
        BY <1>4, <1>5
      <3>2. KeptFrame(format) = LastFrame(S)
        BY <1>10, Zenon DEF KeptFrame
      <3>3. \A f : KeptFrame(f) = LastFrame(S) => FinalOf(f, pcm) = LastFrame(T)
        BY <3>1, FinalIsLast
      <3> QED
        BY <3>2, <3>3, Zenon
    <2> QED
      BY <1>8, <2>1, Zenon
  <1>18. \A i \in 1..Len(D) : D[i].segment <= segm
    <2>1. CASE report = {} /\ D = E
      BY <1>10, <2>1
    <2>2. CASE ~(report = {} /\ D = E)
      <3>1. PICK e \in Clicks : OneMoreEvent(E, e, D) /\ e.segment = segm
        BY <1>12, <2>2 DEF ReportAdded
      <3>2. PICK l \in Nat : l = Len(E)
        BY <1>10
      <3>3. Len(D) = l + 1 /\ D[l + 1] = e /\ \A i \in 1..l : D[i] = E[i]
        BY <3>1, <3>2 DEF OneMoreEvent
      <3> QED
        BY <1>10, <3>1, <3>2, <3>3, SMTT(30)
    <2> QED
      BY <2>1, <2>2
  <1>19. prior'.offset = Len(T)
    BY <1>4, <1>5, <1>8
  <1>20. prior'.format.channels = k /\ prior'.format.period = p
    BY <1>1, <1>8
  <1>21. /\ stream' \in Seq(Pcm(prior'.format.channels))
         /\ prior'.final = LastFrame(stream') /\ prior'.offset = Len(stream')
    BY <1>8, <1>17, <1>19, <1>20, Zenon
  <1>22. /\ segment' \in Nat /\ events' \in Seq(Clicks)
         /\ \A i \in 1..Len(events') : events'[i].segment <= segment'
    BY <1>7, <1>8, <1>12, <1>18, Zenon
  <1>23. Judged(stream', prior'.format.channels, prior'.format.period, events', Reported', prior'.last)
    BY <1>7, <1>8, <1>16, <1>20, Zenon
  <1>24. prior'.format \in Formats
    BY <1>8
  <1> QED
    BY <1>21, <1>22, <1>23, <1>24, Zenon DEF ClickInv, Pcm, LastFrame, Judged, OfJump, JumpsAt, JumpSize, Seen, Near

(* The jumps that detect_pcm_s16le_discontinuity finds in the whole stream, uncut. *)
LEMMA AllJumpsAre ==
  ASSUME NEW k \in Nat \ {0}, NEW T \in Seq(Pcm(k))
  PROVE  \A j : j \in Jumps(T, <<>>) <=> IsNewJump(T, 0, k, j)
  <1>1. PICK S : S = <<>> /\ S \in Seq(Pcm(k))
    <2>1. <<>> \in Seq(Pcm(k))
      OBVIOUS
    <2> QED
      BY <2>1
  <1>2. T = S \o T /\ Len(S) = 0
    BY <1>1
  <1>3. LastFrame(S) = <<>>
    BY <1>1 DEF LastFrame
  <1>4. \A j : j \in Jumps(T, LastFrame(S)) <=> IsNewJump(T, Len(S), k, j)
    BY <1>1, <1>2, ChunkJumps
  <1> QED
    BY <1>2, <1>3, <1>4, Zenon

(* Before the first frame there is no jump and no event of the present format. *)
LEMMA NoFrames ==
  ASSUME ClickInv, stream = <<>>
  PROVE  ClicksAreReported
  <1>1. AllJumps = {}
    <2>1. Len(<<>>) = 0 /\ 2..0 = {}
      OBVIOUS
    <2>2. (2..Len(<<>>)) \X {} = {}
      BY <2>1
    <2> QED
      BY <2>1, <2>2 DEF AllJumps, Jumps
  <1>2. Reported = {}
    <2>1. \A r \in Reported : OfJump(events[r], <<>>, prior.format.channels, prior.format.period)
      BY DEF ClickInv, Judged
    <2>2. 2..Len(<<>>) = {}
      OBVIOUS
    <2> QED
      BY <2>1, <2>2 DEF OfJump
  <1> QED
    BY <1>1, <1>2 DEF ClicksAreReported, EventsAreJumps, EventsAreApart, JumpsAreSeen

(* The invariant says of the stream so far what ClicksAreReported says. *)
LEMMA ClickInvSays ==
  ASSUME ClickInv
  PROVE  ClicksAreReported
  <1>1. CASE stream = <<>>
    BY <1>1, NoFrames
  <1>2. CASE prior.format \in Formats
    <2>1. PICK k \in Nat \ {0}, p \in Nat \ {0} : k = prior.format.channels /\ p = prior.format.period
      BY <1>2, AudioAssumption
    <2>2. PICK T \in Seq(Pcm(k)) : T = stream
      BY <2>1 DEF ClickInv
    <2>3. \A j : j \in AllJumps <=> IsNewJump(T, 0, k, j)
      BY <2>2, AllJumpsAre DEF AllJumps
    <2>4. PICK E, R, last : /\ E = events /\ R = Reported /\ E \in Seq(Clicks)
                             /\ Judged(T, k, p, E, R, last)
      BY <2>1, <2>2 DEF ClickInv
    <2>5. EventsAreJumps
      <3> SUFFICES ASSUME NEW r \in R
                   PROVE  \E j \in AllJumps : /\ E[r].time = j.offset * p
                                              /\ E[r].magnitude = j.magnitude
                                              /\ E[r].channel = j.channel
        BY <2>1, <2>4, Zenon DEF EventsAreJumps
      <3>1. OfJump(E[r], T, k, p)
        BY <2>4 DEF Judged
      <3>2. PICK n \in 2..Len(T) : \E c \in 1..k :
              /\ JumpsAt(T, n, c) /\ E[r].time = (n - 1) * p
              /\ E[r].magnitude = JumpSize(T, n, c) /\ E[r].channel = c
        BY <3>1, Zenon DEF OfJump
      <3>3. PICK c \in 1..k :
              /\ JumpsAt(T, n, c) /\ E[r].time = (n - 1) * p
              /\ E[r].magnitude = JumpSize(T, n, c) /\ E[r].channel = c
        BY <3>2, Zenon
      <3>4. PICK j : j = JumpAt(T, 0, n, c)
        OBVIOUS
      <3>5. j.offset = n - 1 /\ j.magnitude = JumpSize(T, n, c) /\ j.channel = c
        BY <3>4 DEF JumpAt
      <3>6. j \in AllJumps
        <4>1. n > 0
          OBVIOUS
        <4> QED
          BY <2>3, <3>3, <3>4, <4>1, Zenon DEF IsNewJump
      <3> QED
        BY <3>3, <3>5, <3>6, Zenon
    <2>6. EventsAreApart
      BY <2>4 DEF EventsAreApart, Judged
    <2>7. JumpsAreSeen
      <3> SUFFICES ASSUME NEW j \in AllJumps
                   PROVE  \E r \in R : Abs(E[r].time - j.offset * p) < Dedup + MaxChunk * p
        BY <2>1, <2>4, Zenon DEF JumpsAreSeen
      <3>1. IsNewJump(T, 0, k, j)
        BY <2>3
      <3>2. PICK n \in 2..Len(T) : \E c \in 1..k : JumpsAt(T, n, c) /\ j = JumpAt(T, 0, n, c)
        BY <3>1, Zenon DEF IsNewJump
      <3>3. PICK c \in 1..k : JumpsAt(T, n, c) /\ j = JumpAt(T, 0, n, c)
        BY <3>2, Zenon
      <3>4. j.offset = n - 1
        BY <3>3 DEF JumpAt
      <3>5. Seen(E, R, n, p)
        BY <2>4, <3>3, Zenon DEF Judged
      <3>6. PICK r \in R : Abs(E[r].time - (n - 1) * p) < Dedup + MaxChunk * p
        BY <3>5, Zenon DEF Seen, Near
      <3> QED
        BY <3>4, <3>6, Zenon
    <2> QED
      BY <2>5, <2>6, <2>7 DEF ClicksAreReported
  <1> QED
    BY <1>1, <1>2 DEF ClickInv

(* An observer that has seen no PCM of the stage has reported nothing. *)
LEMMA ClickInit ==
  ASSUME AudioInit
  PROVE  ClickInv
  <1>1. /\ stream = <<>> /\ events = <<>> /\ segment = 0
        /\ prior.final = <<>> /\ prior.offset = 0 /\ prior.last = Never
    BY DEF AudioInit
  <1>2. DOMAIN events = {} /\ Len(events) = 0 /\ 2..Len(stream) = {} /\ 1..Len(events) = {}
    BY <1>1
  <1>3. Reported = {}
    BY <1>2 DEF Reported
  <1>4. Judged(stream, prior.format.channels, prior.format.period, events, Reported, prior.last)
    BY <1>1, <1>2, <1>3 DEF Judged
  <1>5. stream \in Seq(Pcm(prior.format.channels)) /\ events \in Seq(Clicks)
    BY <1>1
  <1>6. LastFrame(stream) = <<>> /\ Len(stream) = 0
    BY <1>1 DEF LastFrame
  <1> QED
    BY <1>1, <1>2, <1>4, <1>5, <1>6 DEF ClickInv

(* ClicksAreReported always holds: wherever observe_stage_audio cuts the PCM of a stage
   into chunks, empty ones and changes of format included, its events are jumps of the
   uncut stream with their times, magnitudes and channels, they are at least the
   deduplication window apart, and every jump is near one of them. *)
THEOREM ClicksAreRight == AudioSpec => []ClicksAreReported
  <1>1. AudioInit => ClickInv
    BY ClickInit
  <1>2. ClickInv /\ [AudioNext]_audioVars => ClickInv'
    <2> SUFFICES ASSUME ClickInv, [AudioNext]_audioVars PROVE ClickInv'
      OBVIOUS
    <2>1. CASE UNCHANGED audioVars
      <3>1. /\ prior' = prior /\ events' = events /\ stream' = stream /\ segment' = segment
        BY <2>1 DEF audioVars
      <3>2. Reported' = Reported
        BY <3>1, Zenon DEF Reported
      <3>3. /\ stream' \in Seq(Pcm(prior'.format.channels))
            /\ prior'.final = LastFrame(stream') /\ prior'.offset = Len(stream')
            /\ segment' \in Nat /\ events' \in Seq(Clicks)
            /\ \A n \in 1..Len(events') : events'[n].segment <= segment'
            /\ Judged(stream', prior'.format.channels, prior'.format.period, events', Reported',
                      prior'.last)
            /\ prior'.format \in Formats \/ stream' = <<>>
        BY <3>1, <3>2, Zenon DEF ClickInv
      <3> QED
        BY <3>3, Zenon DEF ClickInv, Pcm, LastFrame, Judged, OfJump, JumpsAt, JumpSize, Seen, Near
    <2>2. CASE AudioNext
      <3>1. PICK format \in Formats, n \in 0..MaxChunk :
              \E pcm \in [1..n -> Frame(format)] : ObserveStageAudio(format, pcm)
        BY <2>2 DEF AudioNext
      <3>2. PICK pcm \in [1..n -> Frame(format)] : ObserveStageAudio(format, pcm)
        BY <3>1
      <3> QED
        BY <3>2, ChunkKeeps
    <2> QED
      BY <2>1, <2>2
  <1>3. ClickInv => ClicksAreReported
    BY ClickInvSays
  <1> QED
    BY <1>1, <1>2, <1>3, PTL DEF AudioSpec

=============================================================================
