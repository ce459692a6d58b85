---------------------------- MODULE InboundMailProofs ----------------------------
(***************************************************************************)
(* Proofs about MailRouting and InboundMail, for any mailboxes, addresses, *)
(* rules, mails, workers, quotas and disturbances.                         *)
(***************************************************************************)
EXTENDS InboundMail, FiniteSetTheorems, SequenceTheorems, TLAPS

-----------------------------------------------------------------------------
(* Folds over finite sets.  Induction is over sets of numbers and of       *)
(* subsets, for a theorem that is about any predicate cannot be used here. *)

LEMMA SetOfNaturals ==
  ASSUME NEW T \in SUBSET Nat, 0 \in T, \A n \in T : n + 1 \in T
  PROVE  T = Nat
<1> SUFFICES ASSUME Nat \ T # {} PROVE FALSE
  OBVIOUS
<1> DEFINE U == Nat \ T
           R == OpToRel(<, Nat)
<1>1. PICK n \in U : \A m \in U : ~ (<<m, n>> \in R)
  <2>1. U \subseteq Nat /\ U # {} /\ IsWellFoundedOn(R, Nat)
    BY NatLessThanWellFounded
  <2> HIDE DEF U, R
  <2>2. \E x \in U : \A y \in U : ~ (<<y, x>> \in R)
    BY <2>1, WFMin
  <2> QED
    BY <2>2
<1>2. \A m \in Nat : m < n => m \in T
  <2>1. \A m, k \in Nat : m < k => <<m, k>> \in R
    BY DEF OpToRel
  <2> HIDE DEF R
  <2> QED
    BY <1>1, <2>1
<1>3. n \in Nat /\ n \notin T
  BY <1>1
<1>4. n # 0
  BY <1>3
<1>5. n - 1 \in Nat /\ n - 1 < n /\ (n - 1) + 1 = n
  BY <1>3, <1>4
<1>6. n - 1 \in T
  BY <1>2, <1>5
<1> QED
  BY <1>3, <1>5, <1>6

(* What holds for the empty set, and for a set if it holds for the set     *)
(* without any one of its elements, holds for every subset of a finite set.*)
LEMMA SetOfSubsets ==
  ASSUME NEW S, IsFiniteSet(S), NEW T \in SUBSET (SUBSET S), {} \in T,
         \A s \in SUBSET S : (s # {} /\ \A x \in s : s \ {x} \in T) => s \in T
  PROVE  T = SUBSET S
<1> SUFFICES ASSUME (SUBSET S) \ T # {} PROVE FALSE
  OBVIOUS
<1> DEFINE U == (SUBSET S) \ T
           R == StrictSubsetOrdering(S)
<1>1. PICK s \in U : \A u \in U : ~ (<<u, s>> \in R)
  <2>1. FiniteSubsetsOf(S) = SUBSET S
    BY FS_FiniteSubsetsOfFinite
  <2>2. IsWellFoundedOn(R, FiniteSubsetsOf(S))
    BY FS_StrictSubsetOrderingWellFounded
  <2>3. U \subseteq SUBSET S /\ U # {} /\ IsWellFoundedOn(R, SUBSET S)
    BY <2>1, <2>2
  <2> HIDE DEF U, R
  <2>4. \E x \in U : \A y \in U : ~ (<<y, x>> \in R)
    BY <2>3, WFMin
  <2> QED
    BY <2>4
<1>2. \A t, u \in SUBSET S : t \subseteq u /\ t # u => <<t, u>> \in R
  BY DEF StrictSubsetOrdering
<1>3. s \in SUBSET S /\ s \notin T /\ s # {}
  BY <1>1
<1>4. ASSUME NEW x \in s
      PROVE  s \ {x} \in T
  <2>1. s \ {x} \in SUBSET S /\ s \ {x} \subseteq s /\ s \ {x} # s
    BY <1>3
  <2> HIDE DEF R
  <2> QED
    BY <1>1, <1>2, <1>3, <2>1
<1> QED
  BY <1>3, <1>4

(* f folds every part of S.                                                *)
Folded(f, S, V, base, pick, step) ==
  /\ f \in [SUBSET S -> V]
  /\ \A s \in SUBSET S : f[s] = IF s = {} THEN base ELSE step[<<pick[s], f[s \ {pick[s]}]>>]

(* A fold that picks the elements one by one is well defined.              *)
LEMMA FoldExists ==
  ASSUME NEW S, IsFiniteSet(S), NEW V, NEW base \in V,
         NEW pick \in [(SUBSET S) \ {{}} -> S], \A s \in (SUBSET S) \ {{}} : pick[s] \in s,
         NEW step \in [S \X V -> V]
  PROVE  \E f : Folded(f, S, V, base, pick, step)
<1> DEFINE Small(n) == {s \in SUBSET S : Cardinality(s) <= n}
           Folds(f, n) == \A s \in Small(n) :
                            f[s] = IF s = {} THEN base ELSE step[<<pick[s], f[s \ {pick[s]}]>>]
           T == {n \in Nat : \E f \in [Small(n) -> V] : Folds(f, n)}
<1>1. \A s \in SUBSET S : IsFiniteSet(s) /\ Cardinality(s) \in Nat
                          /\ (Cardinality(s) = 0 <=> s = {})
  BY FS_Subset, FS_CardinalityType, FS_EmptySet
<1>2. 0 \in T
  <2> DEFINE f == [s \in Small(0) |-> base]
  <2>1. \A s \in Small(0) : s = {}
    BY <1>1
  <2>2. f \in [Small(0) -> V] /\ Folds(f, 0)
    BY <2>1
  <2> QED
    BY <2>2
<1>3. ASSUME NEW n \in T
      PROVE  n + 1 \in T
  <2>1. PICK g \in [Small(n) -> V] : Folds(g, n)
    BY <1>3
  <2> DEFINE f == [s \in Small(n + 1) |->
                     IF s = {} THEN base ELSE step[<<pick[s], g[s \ {pick[s]}]>>]]
  <2>2. ASSUME NEW s \in Small(n + 1), s # {}
        PROVE  s \ {pick[s]} \in Small(n) /\ pick[s] \in S
    <3>1. pick[s] \in s /\ pick[s] \in S
      BY <2>2
    <3>2. Cardinality(s \ {pick[s]}) = Cardinality(s) - 1
      BY <1>1, <3>1, FS_RemoveElement
    <3> QED
      BY <1>1, <2>2, <3>1, <3>2
  <2>3. f \in [Small(n + 1) -> V]
    <3>1. ASSUME NEW s \in Small(n + 1)
          PROVE  (IF s = {} THEN base ELSE step[<<pick[s], g[s \ {pick[s]}]>>]) \in V
      <4>1. CASE s = {}
        BY <4>1
      <4>2. CASE s # {}
        <5>1. g[s \ {pick[s]}] \in V /\ pick[s] \in S
          BY <2>2, <4>2
        <5>2. <<pick[s], g[s \ {pick[s]}]>> \in S \X V
          BY <5>1
        <5>3. step[<<pick[s], g[s \ {pick[s]}]>>] \in V
          BY <5>2
        <5> QED
          BY <4>2, <5>3
      <4> QED
        BY <4>1, <4>2
    <3> QED
      BY <3>1
  <2>4. \A s \in Small(n) : f[s] = g[s]
    <3>1. Small(n) \subseteq Small(n + 1)
      BY <1>1, <1>3
    <3> QED
      BY <2>1, <3>1
  <2>5. Folds(f, n + 1)
    BY <2>2, <2>4
  <2>6. n + 1 \in Nat
    OBVIOUS
  <2> HIDE DEF f, Folds, Small
  <2> QED
    BY <2>3, <2>5, <2>6
<1>4. T = Nat
  <2> HIDE DEF T
  <2>1. T \in SUBSET Nat
    BY DEF T
  <2> QED
    BY <1>2, <1>3, <2>1, SetOfNaturals
<1>5. Small(Cardinality(S)) = SUBSET S /\ Cardinality(S) \in Nat
  BY <1>1, FS_Subset
<1>6. Cardinality(S) \in T
  <2> HIDE DEF T
  <2> QED
    BY <1>4, <1>5
<1>7. PICK f \in [Small(Cardinality(S)) -> V] : Folds(f, Cardinality(S))
  BY <1>6
<1> QED
  BY <1>5, <1>7 DEF Folded

(* f sums up the weights w of every part of S.                             *)
Sums(w, f, S) ==
  /\ f \in [SUBSET S -> Nat]
  /\ \A s \in SUBSET S :
       f[s] = IF s = {} THEN 0
              ELSE w[CHOOSE x \in s : TRUE] + f[s \ {CHOOSE x \in s : TRUE}]

SumOf(w, S) == CHOOSE n : \E f : Sums(w, f, S) /\ n = f[S]

LEMMA SumsExist ==
  ASSUME NEW S, IsFiniteSet(S), NEW w, \A x \in S : w[x] \in Nat
  PROVE  \E f : Sums(w, f, S)
<1> DEFINE pick == [s \in (SUBSET S) \ {{}} |-> CHOOSE x \in s : TRUE]
           step == [p \in S \X Nat |-> w[p[1]] + p[2]]
<1>1. \A s \in (SUBSET S) \ {{}} : (CHOOSE x \in s : TRUE) \in s
  OBVIOUS
<1>2. pick \in [(SUBSET S) \ {{}} -> S] /\ \A s \in (SUBSET S) \ {{}} : pick[s] \in s
  BY <1>1
<1>3. step \in [S \X Nat -> Nat]
  OBVIOUS
<1>4. \A x \in S, n \in Nat : step[<<x, n>>] = w[x] + n
  OBVIOUS
<1> HIDE DEF step
<1>5. \E f : Folded(f, S, Nat, 0, pick, step)
  <2> HIDE DEF pick
  <2> QED
    BY <1>2, <1>3, FoldExists
<1>6. PICK f \in [SUBSET S -> Nat] :
        \A s \in SUBSET S : f[s] = IF s = {} THEN 0 ELSE step[<<pick[s], f[s \ {pick[s]}]>>]
  <2> HIDE DEF pick
  <2> QED
    BY <1>5 DEF Folded
<1>7. ASSUME NEW s \in SUBSET S, s # {}
      PROVE  f[s] = w[CHOOSE x \in s : TRUE] + f[s \ {CHOOSE x \in s : TRUE}]
  <2>1. pick[s] = (CHOOSE x \in s : TRUE) /\ pick[s] \in S /\ s \ {pick[s]} \in SUBSET S
    BY <1>2, <1>7
  <2> HIDE DEF pick
  <2>2. f[s] = step[<<pick[s], f[s \ {pick[s]}]>>]
    BY <1>6, <1>7
  <2>3. step[<<pick[s], f[s \ {pick[s]}]>>] = w[pick[s]] + f[s \ {pick[s]}]
    BY <1>4, <1>6, <2>1
  <2> QED
    BY <2>1, <2>2, <2>3
<1>8. f[{}] = 0
  BY <1>6
<1> QED
  BY <1>6, <1>7, <1>8 DEF Sums

(* Any element may be counted last.                                        *)
LEMMA SumsAnyOrder ==
  ASSUME NEW S, IsFiniteSet(S), NEW w, \A x \in S : w[x] \in Nat, NEW f, Sums(w, f, S)
  PROVE  \A s \in SUBSET S : \A x \in s : f[s] = w[x] + f[s \ {x}]
<1> DEFINE T == {s \in SUBSET S : \A x \in s : f[s] = w[x] + f[s \ {x}]}
<1>1. ASSUME NEW s \in SUBSET S, s # {}, \A x \in s : s \ {x} \in T
      PROVE  s \in T
  <2> SUFFICES ASSUME NEW x \in s PROVE f[s] = w[x] + f[s \ {x}]
    OBVIOUS
  <2> DEFINE p == CHOOSE y \in s : TRUE
  <2>1. p \in s
    OBVIOUS
  <2>2. f[s] = w[p] + f[s \ {p}]
    BY <1>1 DEF Sums
  <2> HIDE DEF p
  <2>3. CASE x # p
    <3>1. f[s \ {p}] = w[x] + f[(s \ {p}) \ {x}]
      BY <1>1, <2>1, <2>3
    <3>2. f[s \ {x}] = w[p] + f[(s \ {x}) \ {p}]
      BY <1>1, <2>1, <2>3
    <3> DEFINE rest == f[(s \ {x}) \ {p}]
    <3>3. (s \ {p}) \ {x} = (s \ {x}) \ {p} /\ (s \ {x}) \ {p} \in SUBSET S
      OBVIOUS
    <3>4. f[(s \ {p}) \ {x}] = rest
      BY <3>3
    <3>5. w[x] \in Nat /\ w[p] \in Nat /\ rest \in Nat
      BY <2>1, <3>3 DEF Sums
    <3>6. f[s \ {p}] = w[x] + rest /\ f[s \ {x}] = w[p] + rest
      BY <3>1, <3>2, <3>4
    <3> HIDE DEF rest
    <3> QED
      BY <2>2, <3>5, <3>6
  <2> QED
    BY <2>2, <2>3
<1>2. {} \in T /\ T \in SUBSET (SUBSET S)
  OBVIOUS
<1>3. T = SUBSET S
  <2> HIDE DEF T
  <2> QED
    BY <1>1, <1>2, SetOfSubsets
<1> QED
  BY <1>3

(* What sums up a set sums up its parts like any other sum.                *)
LEMMA SumsAgree ==
  ASSUME NEW S, IsFiniteSet(S), NEW R, S \subseteq R, NEW w,
         NEW f, Sums(w, f, S), NEW g, Sums(w, g, R)
  PROVE  \A s \in SUBSET S : f[s] = g[s]
<1> DEFINE T == {s \in SUBSET S : f[s] = g[s]}
<1>1. ASSUME NEW s \in SUBSET S, s # {}, \A x \in s : s \ {x} \in T
      PROVE  s \in T
  <2> DEFINE p == CHOOSE y \in s : TRUE
  <2>1. p \in s
    BY <1>1
  <2>2. f[s] = w[p] + f[s \ {p}] /\ g[s] = w[p] + g[s \ {p}]
    BY <1>1 DEF Sums
  <2> HIDE DEF p
  <2> QED
    BY <1>1, <2>1, <2>2
<1>2. {} \in T /\ T \in SUBSET (SUBSET S)
  BY DEF Sums
<1>3. T = SUBSET S
  <2> HIDE DEF T
  <2> QED
    BY <1>1, <1>2, SetOfSubsets
<1> QED
  BY <1>3

LEMMA SumOfSums ==
  ASSUME NEW S, IsFiniteSet(S), NEW w, NEW f, Sums(w, f, S)
  PROVE  SumOf(w, S) = f[S] /\ f[S] \in Nat
<1>1. \A g : Sums(w, g, S) => g[S] = f[S]
  BY SumsAgree
<1>2. \E n : \E g : Sums(w, g, S) /\ n = g[S]
  OBVIOUS
<1>3. \E g : Sums(w, g, S) /\ SumOf(w, S) = g[S]
  BY <1>2 DEF SumOf
<1> QED
  BY <1>1, <1>3 DEF Sums

(* One more element adds its weight ...                                    *)
LEMMA SumAdds ==
  ASSUME NEW S, IsFiniteSet(S), NEW x, x \notin S, NEW w, \A y \in S \cup {x} : w[y] \in Nat
  PROVE  SumOf(w, S \cup {x}) = w[x] + SumOf(w, S) /\ SumOf(w, S) \in Nat
<1> DEFINE R == S \cup {x}
<1>1. IsFiniteSet(R) /\ S \subseteq R /\ x \in R /\ R \ {x} = S /\ S \in SUBSET R
  BY FS_AddElement
<1> HIDE DEF R
<1>2. PICK g : Sums(w, g, R)
  BY <1>1, SumsExist DEF R
<1>3. PICK f : Sums(w, f, S)
  BY SumsExist
<1>4. SumOf(w, R) = g[R] /\ SumOf(w, S) = f[S] /\ f[S] \in Nat
  BY <1>1, <1>2, <1>3, SumOfSums
<1>5. g[R] = w[x] + g[S]
  BY <1>1, <1>2, SumsAnyOrder DEF R
<1>6. f[S] = g[S]
  BY <1>1, <1>2, <1>3, SumsAgree
<1> QED
  BY <1>4, <1>5, <1>6 DEF R

(* ... and elements of no weight add nothing.                              *)
LEMMA SumIgnoresNothing ==
  ASSUME NEW S, IsFiniteSet(S), NEW U, IsFiniteSet(U), NEW w,
         \A y \in S : w[y] \in Nat, \A y \in U : w[y] = 0
  PROVE  SumOf(w, S \cup U) = SumOf(w, S)
<1> DEFINE T == {u \in SUBSET U : SumOf(w, S \cup u) = SumOf(w, S)}
<1>1. ASSUME NEW u \in SUBSET U, u # {}, \A x \in u : u \ {x} \in T
      PROVE  u \in T
  <2>1. PICK x \in u : TRUE
    BY <1>1
  <2> DEFINE R == S \cup (u \ {x})
  <2>2. SumOf(w, R) = SumOf(w, S)
    BY <1>1, <2>1
  <2>3. IsFiniteSet(R)
    BY FS_Subset, FS_Union
  <2>4. CASE x \in S
    BY <2>2, <2>4
  <2>5. CASE x \notin S
    <3>1. x \notin R /\ S \cup u = R \cup {x} /\ w[x] = 0
      BY <2>1, <2>5
    <3>2. \A y \in R \cup {x} : w[y] \in Nat
      BY <2>1
    <3> HIDE DEF R
    <3>3. SumOf(w, R \cup {x}) = w[x] + SumOf(w, R) /\ SumOf(w, R) \in Nat
      BY <2>3, <3>1, <3>2, SumAdds
    <3> QED
      BY <2>2, <3>1, <3>3
  <2> QED
    BY <2>4, <2>5
<1>2. {} \in T /\ T \in SUBSET (SUBSET U)
  OBVIOUS
<1>3. T = SUBSET U
  <2> HIDE DEF T
  <2> QED
    BY <1>1, <1>2, SetOfSubsets
<1> QED
  BY <1>3

-----------------------------------------------------------------------------
(* resolve_mailbox                                                         *)

(* The first recipient that passes the test, or nobody.                    *)
LEMMA FirstHit ==
  ASSUME NEW I \in SUBSET Nat, I # {}
  PROVE  Min(I) \in I /\ \A i \in I : Min(I) <= i
<1> DEFINE R == OpToRel(<, Nat)
<1>1. PICK n \in I : \A m \in I : ~ (<<m, n>> \in R)
  <2>1. IsWellFoundedOn(R, Nat)
    BY NatLessThanWellFounded
  <2> HIDE DEF R
  <2> QED
    BY <2>1, WFMin
<1>2. \A m, k \in Nat : m < k => <<m, k>> \in R
  BY DEF OpToRel
<1> HIDE DEF R
<1>3. ASSUME NEW m \in I
      PROVE  n <= m
  <2>1. m \in Nat /\ n \in Nat /\ ~ (<<m, n>> \in R)
    BY <1>1
  <2>2. ~ (m < n)
    BY <1>2, <2>1
  <2> QED
    BY <2>1, <2>2
<1> QED
  BY <1>3 DEF Min

LEMMA MailboxAtType ==
  ASSUME NEW accepting \in SUBSET Mailbox, NEW a
  PROVE  /\ MailboxAt(accepting, a) \in Mailbox \cup {NoMailbox}
         /\ MailboxAt(accepting, a) # NoMailbox <=>
              (\E mb \in accepting : AddressOf[mb] = a) \/ a \in DOMAIN AliasOf
         /\ IF \E mb \in accepting : AddressOf[mb] = a
            THEN MailboxAt(accepting, a) \in accepting /\ AddressOf[MailboxAt(accepting, a)] = a
            ELSE a \in DOMAIN AliasOf => MailboxAt(accepting, a) = AliasOf[a]
BY RoutingAssumption DEF MailboxAt

(* resolve_mailbox goes by the first recipient somebody answers to.        *)
LEMMA ResolveFirst ==
  ASSUME NEW accepting \in SUBSET Mailbox, NEW S, NEW recipients \in Seq(S)
  PROVE  LET I == {i \in 1 .. Len(recipients) : MailboxAt(accepting, recipients[i]) # NoMailbox} IN
           IF I = {} THEN Resolve(accepting, recipients) = IF CatchAll \in accepting THEN CatchAll ELSE NoMailbox
           ELSE \E i \in I : /\ \A j \in I : i <= j
                             /\ Resolve(accepting, recipients) = MailboxAt(accepting, recipients[i])
<1> DEFINE I == {i \in 1 .. Len(recipients) : MailboxAt(accepting, recipients[i]) # NoMailbox}
           first == IF I # {} THEN Min(I) ELSE 0
<1>1. Resolve(accepting, recipients) =
        IF first > 0 THEN MailboxAt(accepting, recipients[first])
        ELSE IF CatchAll \in accepting THEN CatchAll ELSE NoMailbox
  BY DEF Resolve, SelectInSeq
<1>2. I \in SUBSET Nat /\ \A i \in I : i > 0
  OBVIOUS
<1>3. CASE I = {}
  BY <1>1, <1>3
<1>4. CASE I # {}
  <2>1. first \in I /\ \A j \in I : first <= j
    <3> HIDE DEF I
    <3> QED
      BY <1>2, <1>4, FirstHit
  <2> HIDE DEF first, I
  <2>2. Resolve(accepting, recipients) = MailboxAt(accepting, recipients[first])
    BY <1>1, <1>2, <2>1
  <2> QED
    BY <1>4, <2>1, <2>2 DEF I
<1> QED
  BY <1>3, <1>4

(* Whatever mailboxes are open and whoever the recipients are,             *)
(* resolve_mailbox delivers to the first recipient that answers and turns  *)
(* a mail away only if nobody does.                                        *)
THEOREM ResolutionCorrect == ResolvesAsPromised(Seq(Address))
<1> SUFFICES ASSUME NEW accepting \in SUBSET Mailbox, NEW recipients \in Seq(Address)
             PROVE  LET mb == Resolve(accepting, recipients)
                        answers(a) == (\E b \in accepting : AddressOf[b] = a) \/ a \in DOMAIN AliasOf
                        first == {i \in DOMAIN recipients :
                                    answers(recipients[i]) /\ \A j \in 1 .. i - 1 : ~ answers(recipients[j])}
                    IN
                      /\ \A i \in first : IF \E b \in accepting : AddressOf[b] = recipients[i]
                                          THEN AddressOf[mb] = recipients[i] /\ mb \in accepting
                                          ELSE mb = AliasOf[recipients[i]]
                      /\ first = {} => mb = IF CatchAll \in accepting THEN CatchAll ELSE NoMailbox
  BY DEF ResolvesAsPromised
<1> DEFINE mb == Resolve(accepting, recipients)
           answers(a) == (\E b \in accepting : AddressOf[b] = a) \/ a \in DOMAIN AliasOf
           first == {i \in DOMAIN recipients :
                       answers(recipients[i]) /\ \A j \in 1 .. i - 1 : ~ answers(recipients[j])}
           I == {i \in 1 .. Len(recipients) : MailboxAt(accepting, recipients[i]) # NoMailbox}
<1>1. DOMAIN recipients = 1 .. Len(recipients) /\ Len(recipients) \in Nat
  OBVIOUS
<1>2. \A i \in DOMAIN recipients : i \in I <=> answers(recipients[i])
  BY <1>1, MailboxAtType
<1>3. CASE I = {}
  <2>1. mb = IF CatchAll \in accepting THEN CatchAll ELSE NoMailbox
    BY <1>3, ResolveFirst
  <2>2. first = {}
    BY <1>2, <1>3
  <2> HIDE DEF mb, first
  <2> QED
    BY <2>1, <2>2 DEF mb, first
<1>4. CASE I # {}
  <2>1. PICK k \in I : (\A j \in I : k <= j) /\ mb = MailboxAt(accepting, recipients[k])
    BY <1>4, ResolveFirst
  <2>2. k \in DOMAIN recipients /\ k \in Nat /\ answers(recipients[k])
    BY <1>1, <1>2
  <2>3. \A j \in 1 .. k - 1 : j \in DOMAIN recipients /\ j \notin I
    BY <1>1, <2>1, <2>2
  <2>4. \A j \in 1 .. k - 1 : ~ answers(recipients[j])
    BY <1>2, <2>3
  <2> HIDE DEF answers, I, mb
  <2>5. k \in first
    BY <2>2, <2>4
  <2>6. \A i \in first : i = k
    <3> SUFFICES ASSUME NEW i \in first, i # k PROVE FALSE
      OBVIOUS
    <3>1. i \in Nat /\ i \in 1 .. Len(recipients) /\ i \in I
      BY <1>1, <1>2
    <3>2. i > k
      BY <2>1, <2>2, <3>1
    <3>3. k \in 1 .. i - 1
      BY <1>1, <2>2, <3>1, <3>2
    <3> QED
      BY <2>2, <3>3
  <2>7. IF \E b \in accepting : AddressOf[b] = recipients[k]
        THEN AddressOf[mb] = recipients[k] /\ mb \in accepting
        ELSE mb = AliasOf[recipients[k]]
    BY <2>1, <2>2, MailboxAtType DEF answers
  <2> HIDE DEF first
  <2> QED
    BY <2>5, <2>6, <2>7 DEF first, answers, mb
<1> QED
  BY <1>3, <1>4

-----------------------------------------------------------------------------
(* evaluate_rules                                                          *)

(* Among finitely many rules one comes last.                               *)
LEMMA SomeRuleIsLast ==
  ASSUME NEW S, IsFiniteSet(S), S \subseteq Rule
  PROVE  \A s \in (SUBSET S) \ {{}} : LastRule(s) \in s /\ \A r \in s : r.priority <= LastRule(s).priority
<1> DEFINE HasLast(s) == \E r \in s : \A q \in s : q.priority <= r.priority
           T == {s \in SUBSET S : s # {} => HasLast(s)}
<1>1. \A r \in S : r.priority \in Nat
  BY DEF Rule
<1>2. ASSUME NEW s \in SUBSET S, s # {}, \A x \in s : s \ {x} \in T
      PROVE  s \in T
  <2>1. PICK x \in s : TRUE
    BY <1>2
  <2>2. CASE s \ {x} = {}
    <3>1. s = {x} /\ x.priority <= x.priority
      BY <1>1, <2>1, <2>2
    <3> QED
      BY <3>1
  <2>3. CASE s \ {x} # {}
    <3>1. PICK r \in s \ {x} : \A q \in s \ {x} : q.priority <= r.priority
      BY <1>2, <2>1, <2>3
    <3>2. x.priority \in Nat /\ r.priority \in Nat /\ \A q \in s \ {x} : q.priority \in Nat
      BY <1>1, <2>1, <3>1
    <3>3. CASE x.priority <= r.priority
      BY <3>1, <3>3
    <3>4. CASE r.priority <= x.priority
      <4>1. \A q \in s : q.priority <= x.priority
        BY <3>1, <3>2, <3>4
      <4> QED
        BY <2>1, <4>1
    <3> QED
      BY <3>2, <3>3, <3>4
  <2> QED
    BY <2>2, <2>3
<1>3. {} \in T /\ T \in SUBSET (SUBSET S)
  OBVIOUS
<1>4. T = SUBSET S
  <2> HIDE DEF T
  <2> QED
    BY <1>2, <1>3, SetOfSubsets
<1> QED
  BY <1>4 DEF LastRule

LEMMA SetToSeqType ==
  ASSUME NEW S, IsFiniteSet(S)
  PROVE  SetToSeq(S) \in Seq(S) /\ ToSet(SetToSeq(S)) = S /\ Len(SetToSeq(S)) = Cardinality(S)
<1> DEFINE n == Cardinality(S)
           f == SetToSeq(S)
<1>1. n \in Nat /\ \E g \in [1 .. n -> S] : IsInjective(g)
  BY FS_CardinalityType DEF ExistsBijection, Bijection, Injection
<1>2. f \in [1 .. n -> S] /\ IsInjective(f)
  BY <1>1 DEF SetToSeq
<1>3. f \in Seq(S) /\ Len(f) = n
  <2> HIDE DEF f, n
  <2> QED
    BY <1>1, <1>2, SeqDef
<1>4. f \in Injection(1 .. n, S) /\ IsFiniteSet(1 .. n) /\ Cardinality(1 .. n) = n
  <2>1. n \in Int /\ 1 \in Int /\ (IF 1 > n THEN 0 ELSE n - 1 + 1) = n
    BY <1>1
  <2> HIDE DEF f, n
  <2> QED
    BY <1>2, <2>1, FS_Interval DEF Injection
<1>5. f \in Surjection(1 .. n, S)
  <2> HIDE DEF f
  <2> QED
    BY <1>4, FS_Injection
<1>6. ToSet(f) = S
  <2> HIDE DEF f, n
  <2> QED
    BY <1>2, <1>5 DEF ToSet, Surjection
<1> QED
  BY <1>3, <1>6

(* What there is while the rules of S are evaluated.                       *)
EvaluationOf(S) ==
  [labels : SUBSET Label, folder : Folder, forwards : Seq(UNION {r.forward_to : r \in S}),
   stopped : BOOLEAN]

(* A rule keeps the evaluation well formed.                                *)
LEMMA ApplyRuleType ==
  ASSUME NEW S, S \subseteq Rule, NEW facts, NEW state \in EvaluationOf(S), NEW rule \in S
  PROVE  ApplyRule(facts, state, rule) \in EvaluationOf(S)
<1> DEFINE F == UNION {r.forward_to : r \in S}
           next == [labels |-> state.labels \cup rule.add_label,
                    folder |-> IF rule.move_to_folder = {} THEN state.folder
                               ELSE CHOOSE f \in rule.move_to_folder : TRUE,
                    forwards |-> state.forwards \o SetToSeq(rule.forward_to),
                    stopped |-> rule.stop]
<1>1. /\ rule.add_label \subseteq Label /\ rule.move_to_folder \in AtMostOne(Folder)
      /\ rule.forward_to \in AtMostOne(Address) /\ rule.stop \in BOOLEAN
  BY DEF Rule
<1>2. /\ state.labels \subseteq Label /\ state.folder \in Folder /\ state.forwards \in Seq(F)
  BY DEF EvaluationOf
<1>3. rule.move_to_folder # {} => (CHOOSE f \in rule.move_to_folder : TRUE) \in Folder
  BY <1>1 DEF AtMostOne
<1>4. IsFiniteSet(rule.forward_to) /\ rule.forward_to \subseteq F
  <2>1. rule.forward_to = {} \/ \E a : rule.forward_to = {a}
    BY <1>1 DEF AtMostOne
  <2>2. IsFiniteSet(rule.forward_to)
    BY <2>1, FS_EmptySet, FS_Singleton
  <2> QED
    BY <2>2
<1>5. SetToSeq(rule.forward_to) \in Seq(F)
  <2> HIDE DEF F
  <2>1. SetToSeq(rule.forward_to) \in Seq(rule.forward_to)
    BY <1>4, SetToSeqType
  <2> QED
    BY <1>4, <2>1, SeqMonotonic
<1>6. state.forwards \o SetToSeq(rule.forward_to) \in Seq(F)
  <2> HIDE DEF F
  <2> QED
    BY <1>2, <1>5, ConcatProperties
<1>7. next \in EvaluationOf(S)
  <2>1. (IF rule.move_to_folder = {} THEN state.folder
         ELSE CHOOSE f \in rule.move_to_folder : TRUE) \in Folder
    BY <1>2, <1>3
  <2> QED
    BY <1>1, <1>2, <1>6, <2>1 DEF EvaluationOf
<1>8. ApplyRule(facts, state, rule) \in {state, next}
  BY DEF ApplyRule
<1> QED
  BY <1>7, <1>8

(* g evaluates every part of S.                                            *)
Evaluates(g, S, facts, folder) ==
  /\ g \in [SUBSET S -> EvaluationOf(S)]
  /\ \A s \in SUBSET S :
       g[s] = IF s = {} THEN NothingDone(folder)
              ELSE ApplyRule(facts, g[s \ {LastRule(s)}], LastRule(s))

LEMMA NothingDoneType ==
  ASSUME NEW S, NEW folder \in Folder
  PROVE  NothingDone(folder) \in EvaluationOf(S)
BY DEF NothingDone, EvaluationOf

LEMMA EvaluationExists ==
  ASSUME NEW S, IsFiniteSet(S), S \subseteq Rule, NEW facts, NEW folder \in Folder
  PROVE  \E g : Evaluates(g, S, facts, folder)
<1> DEFINE pick == [s \in (SUBSET S) \ {{}} |-> LastRule(s)]
           V == EvaluationOf(S)
           base == NothingDone(folder)
           step == [p \in S \X V |-> ApplyRule(facts, p[2], p[1])]
<1>1. \A s \in (SUBSET S) \ {{}} : LastRule(s) \in s
  BY SomeRuleIsLast
<1>2. pick \in [(SUBSET S) \ {{}} -> S] /\ \A s \in (SUBSET S) \ {{}} : pick[s] \in s
  BY <1>1
<1>3. base \in V
  BY NothingDoneType
<1>4. \A r \in S, v \in V : ApplyRule(facts, v, r) \in V
  BY ApplyRuleType
<1>5. step \in [S \X V -> V] /\ \A r \in S, v \in V : step[<<r, v>>] = ApplyRule(facts, v, r)
  <2> HIDE DEF V
  <2> QED
    BY <1>4
<1>6. \E g : Folded(g, S, V, base, pick, step)
  <2> HIDE DEF pick, V, base, step
  <2> QED
    BY <1>2, <1>3, <1>5, FoldExists
<1>7. PICK g : Folded(g, S, V, base, pick, step)
  BY <1>6
<1>8. ASSUME NEW s \in SUBSET S, s # {}
      PROVE  g[s] = ApplyRule(facts, g[s \ {LastRule(s)}], LastRule(s))
  <2>1. pick[s] = LastRule(s) /\ pick[s] \in S /\ s \ {pick[s]} \in SUBSET S
    BY <1>1, <1>8
  <2> HIDE DEF pick, V, base, step
  <2>2. g[s] = step[<<pick[s], g[s \ {pick[s]}]>>] /\ g[s \ {pick[s]}] \in V
    BY <1>7, <1>8, <2>1 DEF Folded
  <2> QED
    BY <1>5, <2>1, <2>2
<1>9. g \in [SUBSET S -> V] /\ g[{}] = base
  BY <1>7 DEF Folded
<1> QED
  BY <1>8, <1>9 DEF Evaluates

(* EvaluateRules is the evaluation of the active rules.                    *)
LEMMA EvaluateRulesIs ==
  ASSUME NEW rules, IsFiniteSet(rules), rules \subseteq Rule, NEW facts, NEW folder \in Folder
  PROVE  LET S == {r \in rules : r.is_active} IN
           /\ IsFiniteSet(S) /\ S \subseteq Rule
           /\ \E g : Evaluates(g, S, facts, folder) /\ EvaluateRules(rules, facts, folder) = g[S]
<1> DEFINE S == {r \in rules : r.is_active}
           Body(i) == [s \in SUBSET S |->
                         IF s = {} THEN NothingDone(folder)
                         ELSE ApplyRule(facts, i[s \ {LastRule(s)}], LastRule(s))]
           iter == CHOOSE i : i = Body(i)
           T == {s \in SUBSET S : iter[s] \in EvaluationOf(S)}
<1>1. IsFiniteSet(S) /\ S \subseteq Rule
  BY FS_Subset
<1>2. EvaluateRules(rules, facts, folder) = iter[S]
  BY DEF EvaluateRules, MapThenFoldSet
<1>3. PICK f : Evaluates(f, S, facts, folder)
  <2> HIDE DEF S
  <2> QED
    BY <1>1, EvaluationExists
<1> HIDE DEF S
<1>4. f = Body(f)
  BY <1>3 DEF Evaluates
<1>5. iter = Body(iter)
  <2> HIDE DEF Body
  <2> QED
    BY <1>4
<1> HIDE DEF iter
<1>6. \A s \in SUBSET S : iter[s] = IF s = {} THEN NothingDone(folder)
                                    ELSE ApplyRule(facts, iter[s \ {LastRule(s)}], LastRule(s))
  BY <1>5
<1>7. ASSUME NEW s \in SUBSET S, s # {}, \A x \in s : s \ {x} \in T
      PROVE  s \in T
  <2>1. LastRule(s) \in s
    BY <1>1, <1>7, SomeRuleIsLast
  <2>2. iter[s \ {LastRule(s)}] \in EvaluationOf(S) /\ LastRule(s) \in S
    BY <1>7, <2>1
  <2>3. iter[s] = ApplyRule(facts, iter[s \ {LastRule(s)}], LastRule(s))
    BY <1>6, <1>7
  <2>4. ApplyRule(facts, iter[s \ {LastRule(s)}], LastRule(s)) \in EvaluationOf(S)
    BY <1>1, <2>2, ApplyRuleType
  <2> QED
    BY <2>3, <2>4
<1>8. {} \in T /\ T \in SUBSET (SUBSET S)
  BY <1>6, NothingDoneType
<1>9. T = SUBSET S
  <2> HIDE DEF T
  <2> QED
    BY <1>1, <1>7, <1>8, SetOfSubsets
<1>10. iter \in [SUBSET S -> EvaluationOf(S)]
  <2>1. iter = [s \in SUBSET S |-> iter[s]]
    BY <1>5
  <2>2. \A s \in SUBSET S : iter[s] \in EvaluationOf(S)
    BY <1>9
  <2> QED
    BY <2>1, <2>2
<1>11. Evaluates(iter, S, facts, folder)
  BY <1>6, <1>10 DEF Evaluates
<1> QED
  BY <1>1, <1>2, <1>11 DEF S

Before(s, r) == {q \in s : q.priority < r.priority}

LabelsOf(F) == UNION {q.add_label : q \in F}

Moved(F) == {q \in F : q.move_to_folder # {}}

(* F are the rules of s that fire, by the labels of those before them, up  *)
(* to the first that stops.                                                *)
Fire(F, s, facts) ==
  /\ F \subseteq s
  /\ \A r \in s : r \in F <=> /\ \A q \in F \cap Before(s, r) : ~ q.stop
                             /\ Matches(r, facts, LabelsOf(F \cap Before(s, r)))

(* The evaluation has done what the rules of F do.                         *)
Does(state, F, folder) ==
  /\ state.labels = LabelsOf(F)
  /\ ToSet(state.forwards) = UNION {q.forward_to : q \in F}
  /\ Len(state.forwards) = Cardinality({q \in F : q.forward_to # {}})
  /\ IF Moved(F) = {} THEN state.folder = folder
     ELSE \E r \in Moved(F) : /\ \A q \in Moved(F) : q.priority <= r.priority
                              /\ state.folder \in r.move_to_folder
  /\ state.stopped <=> \E q \in F : q.stop

(* One more rule, after all others.                                        *)
LEMMA FireNext ==
  ASSUME NEW u, NEW p, p \notin u, \A q \in u : q.priority < p.priority,
         ~ (p.priority < p.priority), \A q \in u : ~ (p.priority < q.priority),
         NEW facts, NEW F, Fire(F, u, facts)
  PROVE  Fire(IF (\A q \in F : ~ q.stop) /\ Matches(p, facts, LabelsOf(F)) THEN F \cup {p} ELSE F,
              u \cup {p}, facts)
<1> DEFINE s == u \cup {p}
<1>1. /\ F \subseteq u
      /\ \A r \in u : r \in F <=> /\ \A q \in F \cap Before(u, r) : ~ q.stop
                                 /\ Matches(r, facts, LabelsOf(F \cap Before(u, r)))
  BY DEF Fire
<1>2. ASSUME NEW G, G = F \/ G = F \cup {p}
      PROVE  /\ \A r \in u : G \cap Before(s, r) = F \cap Before(u, r)
             /\ G \cap Before(s, p) = F
  BY <1>1, <1>2 DEF Before
<1>3. CASE (\A q \in F : ~ q.stop) /\ Matches(p, facts, LabelsOf(F))
  <2> DEFINE G == F \cup {p}
  <2>1. (\A r \in u : G \cap Before(s, r) = F \cap Before(u, r)) /\ G \cap Before(s, p) = F
    BY <1>2
  <2>2. G \subseteq s /\ p \in G /\ \A r \in u : r \in G <=> r \in F
    BY <1>1
  <2>3. Fire(G, s, facts)
    <3> HIDE DEF G
    <3> QED
      BY <1>1, <1>3, <2>1, <2>2 DEF Fire
  <2> QED
    BY <1>3, <2>3
<1>4. CASE ~ ((\A q \in F : ~ q.stop) /\ Matches(p, facts, LabelsOf(F)))
  <2>1. (\A r \in u : F \cap Before(s, r) = F \cap Before(u, r)) /\ F \cap Before(s, p) = F
    BY <1>2
  <2>2. F \subseteq s /\ p \notin F
    BY <1>1
  <2>3. Fire(F, s, facts)
    BY <1>1, <1>4, <2>1, <2>2 DEF Fire
  <2> QED
    BY <1>4, <2>3
<1> QED
  BY <1>3, <1>4

(* What applying it does.                                                  *)
LEMMA DoesNext ==
  ASSUME NEW S, S \subseteq Rule, NEW F, F \subseteq S, IsFiniteSet(F), NEW p \in S, p \notin F,
         \A q \in F : q.priority < p.priority,
         NEW folder, NEW state \in EvaluationOf(S), Does(state, F, folder), ~ state.stopped,
         NEW facts, Matches(p, facts, state.labels)
  PROVE  Does(ApplyRule(facts, state, p), F \cup {p}, folder)
<1> DEFINE next == ApplyRule(facts, state, p)
           G == F \cup {p}
           Sending(H) == {q \in H : q.forward_to # {}}
<1>1. /\ next.labels = state.labels \cup p.add_label
      /\ next.folder = IF p.move_to_folder = {} THEN state.folder
                       ELSE CHOOSE f \in p.move_to_folder : TRUE
      /\ next.forwards = state.forwards \o SetToSeq(p.forward_to)
      /\ next.stopped = p.stop
  BY DEF ApplyRule
<1> HIDE DEF next
<1>2. next.labels = LabelsOf(G)
  BY <1>1 DEF Does, LabelsOf
<1>3. p.forward_to = {} \/ \E a : p.forward_to = {a}
  BY DEF Rule, AtMostOne
<1>4. /\ IsFiniteSet(p.forward_to)
      /\ p.forward_to = {} => Cardinality(p.forward_to) = 0
      /\ p.forward_to # {} => Cardinality(p.forward_to) = 1
  <2>1. IsFiniteSet({}) /\ Cardinality({}) = 0
    BY FS_EmptySet
  <2>2. \A a : IsFiniteSet({a}) /\ Cardinality({a}) = 1
    BY FS_Singleton
  <2>3. CASE p.forward_to = {}
    BY <2>1, <2>3
  <2>4. CASE p.forward_to # {}
    <3>1. PICK a : p.forward_to = {a}
      BY <1>3, <2>4
    <3> QED
      BY <2>2, <2>4, <3>1
  <2> QED
    BY <2>3, <2>4
<1>5. /\ ToSet(next.forwards) = ToSet(state.forwards) \cup p.forward_to
      /\ Len(next.forwards) = Len(state.forwards) + Cardinality(p.forward_to)
      /\ Len(state.forwards) \in Nat
  <2> DEFINE A == UNION {r.forward_to : r \in S}
             x == state.forwards
             y == SetToSeq(p.forward_to)
  <2>1. x \in Seq(A)
    BY DEF EvaluationOf
  <2>2. y \in Seq(p.forward_to) /\ ToSet(y) = p.forward_to /\ Len(y) = Cardinality(p.forward_to)
    BY <1>4, SetToSeqType
  <2>3. y \in Seq(A)
    <3>1. p.forward_to \subseteq A
      OBVIOUS
    <3> HIDE DEF A, y
    <3> QED
      BY <2>2, <3>1, SeqMonotonic
  <2>4. next.forwards = x \o y
    BY <1>1
  <2> HIDE DEF A, x, y
  <2>5. /\ x \o y \in Seq(A) /\ Len(x \o y) = Len(x) + Len(y)
        /\ \A i \in 1 .. Len(x) + Len(y) : (x \o y)[i] = IF i <= Len(x) THEN x[i] ELSE y[i - Len(x)]
    BY <2>1, <2>3, ConcatProperties
  <2>6. /\ Len(x) \in Nat /\ Len(y) \in Nat
        /\ DOMAIN x = 1 .. Len(x) /\ DOMAIN y = 1 .. Len(y)
        /\ DOMAIN (x \o y) = 1 .. Len(x) + Len(y)
    BY <2>1, <2>3, <2>5, LenProperties
  <2>7. ToSet(x \o y) \subseteq ToSet(x) \cup ToSet(y)
    <3> SUFFICES ASSUME NEW i \in 1 .. Len(x) + Len(y)
                 PROVE  (x \o y)[i] \in ToSet(x) \cup ToSet(y)
      BY <2>6 DEF ToSet
    <3>1. CASE i <= Len(x)
      <4>1. i \in DOMAIN x /\ (x \o y)[i] = x[i]
        BY <2>5, <2>6, <3>1
      <4> QED
        BY <4>1 DEF ToSet
    <3>2. CASE ~ (i <= Len(x))
      <4>1. i - Len(x) \in DOMAIN y /\ (x \o y)[i] = y[i - Len(x)]
        BY <2>5, <2>6, <3>2
      <4> QED
        BY <4>1 DEF ToSet
    <3> QED
      BY <3>1, <3>2
  <2>8. ToSet(x) \subseteq ToSet(x \o y)
    <3> SUFFICES ASSUME NEW i \in 1 .. Len(x)
                 PROVE  x[i] \in ToSet(x \o y)
      BY <2>6 DEF ToSet
    <3>1. i \in DOMAIN (x \o y) /\ (x \o y)[i] = x[i]
      BY <2>5, <2>6
    <3> QED
      BY <3>1 DEF ToSet
  <2>9. ToSet(y) \subseteq ToSet(x \o y)
    <3> SUFFICES ASSUME NEW i \in 1 .. Len(y)
                 PROVE  y[i] \in ToSet(x \o y)
      BY <2>6 DEF ToSet
    <3>1. /\ i + Len(x) \in 1 .. Len(x) + Len(y) /\ ~ (i + Len(x) <= Len(x))
          /\ (i + Len(x)) - Len(x) = i
      BY <2>6
    <3>2. (x \o y)[i + Len(x)] = y[i]
      BY <2>5, <3>1
    <3> QED
      BY <2>6, <3>1, <3>2 DEF ToSet
  <2> QED
    BY <2>2, <2>4, <2>5, <2>6, <2>7, <2>8, <2>9 DEF x, y
<1>6. ToSet(next.forwards) = UNION {q.forward_to : q \in G}
  BY <1>5 DEF Does
<1>7. Len(next.forwards) = Cardinality(Sending(G))
  <2>1. Len(state.forwards) = Cardinality(Sending(F)) /\ IsFiniteSet(Sending(F))
    BY FS_Subset DEF Does
  <2>2. CASE p.forward_to = {}
    <3>1. Sending(G) = Sending(F)
      BY <2>2
    <3> HIDE DEF Sending, G
    <3> QED
      BY <1>4, <1>5, <2>1, <2>2, <3>1
  <2>3. CASE p.forward_to # {}
    <3>1. Sending(G) = Sending(F) \cup {p} /\ p \notin Sending(F)
      BY <2>3
    <3> HIDE DEF Sending, G
    <3>2. Cardinality(Sending(G)) = Cardinality(Sending(F)) + 1
      BY <2>1, <3>1, FS_AddElement
    <3> QED
      BY <1>4, <1>5, <2>1, <2>3, <3>2
  <2> QED
    BY <2>2, <2>3
<1>8. IF Moved(G) = {} THEN next.folder = folder
      ELSE \E r \in Moved(G) : /\ \A q \in Moved(G) : q.priority <= r.priority
                               /\ next.folder \in r.move_to_folder
  <2>1. CASE p.move_to_folder = {}
    <3>1. Moved(G) = Moved(F) /\ next.folder = state.folder
      BY <1>1, <2>1 DEF Moved
    <3> QED
      BY <3>1 DEF Does
  <2>2. CASE p.move_to_folder # {}
    <3>1. p \in Moved(G) /\ next.folder \in p.move_to_folder
      BY <1>1, <2>2 DEF Moved
    <3>2. \A q \in Moved(G) : q.priority <= p.priority
      <4>1. p.priority \in Nat /\ \A q \in F : q.priority \in Nat
        BY DEF Rule
      <4> QED
        BY <4>1 DEF Moved
    <3> QED
      BY <3>1, <3>2
  <2> QED
    BY <2>1, <2>2
<1>9. next.stopped <=> \E q \in G : q.stop
  BY <1>1 DEF Does
<1> QED
  BY <1>2, <1>6, <1>7, <1>8, <1>9 DEF Does, next

(* What evaluate_rules leaves behind for a part of the rules is what the   *)
(* rules of that part do that fire.                                        *)
LEMMA EvaluationDoes ==
  ASSUME NEW S, IsFiniteSet(S), S \subseteq Rule,
         \A r, q \in S : r.priority = q.priority => r = q,
         NEW facts, NEW folder \in Folder, NEW g, Evaluates(g, S, facts, folder)
  PROVE  \A s \in SUBSET S : \E F : Fire(F, s, facts) /\ Does(g[s], F, folder)
<1> DEFINE Promise(s) == \E F : Fire(F, s, facts) /\ Does(g[s], F, folder)
           T == {s \in SUBSET S : Promise(s)}
<1>1. \A r \in S : r.priority \in Nat
  BY DEF Rule
<1>2. g[{}] = NothingDone(folder)
  BY DEF Evaluates
<1>3. {} \in T
  <2>1. Fire({}, {}, facts)
    BY DEF Fire
  <2>2. Does(NothingDone(folder), {}, folder)
    <3>1. Cardinality({}) = 0 /\ Len(<<>>) = 0 /\ ToSet(<<>>) = {}
      BY FS_EmptySet DEF ToSet
    <3>2. {q \in {} : q.forward_to # {}} = {}
      OBVIOUS
    <3> QED
      BY <3>1, <3>2 DEF Does, NothingDone, LabelsOf, Moved
  <2> QED
    BY <1>2, <2>1, <2>2
<1>4. ASSUME NEW s \in SUBSET S, s # {}, \A x \in s : s \ {x} \in T
      PROVE  s \in T
  <2> DEFINE p == LastRule(s)
             u == s \ {p}
             state == g[u]
  <2>1. p \in s /\ \A r \in s : r.priority <= p.priority
    BY <1>4, SomeRuleIsLast
  <2>2. PICK F : Fire(F, u, facts) /\ Does(state, F, folder)
    BY <1>4, <2>1
  <2>3. g[s] = ApplyRule(facts, state, p) /\ state \in EvaluationOf(S)
    BY <1>4 DEF Evaluates
  <2> HIDE DEF p, state
  <2>4. /\ p \in S /\ p \notin u /\ u \cup {p} = s /\ u \subseteq S /\ F \subseteq u
        /\ IsFiniteSet(F)
    <3>1. p \in S /\ p \notin u /\ u \cup {p} = s /\ u \subseteq S /\ F \subseteq u
      BY <2>1, <2>2 DEF Fire
    <3>2. F \in SUBSET S
      BY <3>1
    <3> QED
      BY <3>1, <3>2, FS_Subset
  <2>5. /\ \A q \in u : q.priority < p.priority /\ ~ (p.priority < q.priority)
        /\ ~ (p.priority < p.priority)
    <3>1. ASSUME NEW q \in u
          PROVE  q.priority < p.priority /\ ~ (p.priority < q.priority)
      <4>1. q.priority \in Nat /\ p.priority \in Nat /\ q.priority # p.priority
        BY <1>1, <2>4
      <4>2. q.priority <= p.priority
        BY <2>1
      <4> QED
        BY <4>1, <4>2
    <3>2. p.priority \in Nat
      BY <1>1, <2>4
    <3> QED
      BY <3>1, <3>2
  <2> DEFINE fires == (\A q \in F : ~ q.stop) /\ Matches(p, facts, LabelsOf(F))
  <2> HIDE DEF u
  <2>6. Fire(IF fires THEN F \cup {p} ELSE F, s, facts)
    BY <2>2, <2>4, <2>5, FireNext
  <2>7. state.labels = LabelsOf(F) /\ (state.stopped <=> \E q \in F : q.stop)
    BY <2>2 DEF Does
  <2>8. CASE fires
    <3>1. ~ state.stopped /\ Matches(p, facts, state.labels)
      BY <2>7, <2>8
    <3>2. Does(ApplyRule(facts, state, p), F \cup {p}, folder)
      BY <2>2, <2>3, <2>4, <2>5, <3>1, DoesNext
    <3>3. Fire(F \cup {p}, s, facts) /\ Does(g[s], F \cup {p}, folder)
      BY <2>3, <2>6, <2>8, <3>2
    <3> QED
      BY <3>3
  <2>9. CASE ~ fires
    <3>1. state.stopped \/ ~ Matches(p, facts, state.labels)
      BY <2>7, <2>9
    <3>2. ApplyRule(facts, state, p) = state
      BY <3>1 DEF ApplyRule
    <3>3. Fire(F, s, facts) /\ Does(g[s], F, folder)
      BY <2>2, <2>3, <2>6, <2>9, <3>2
    <3> QED
      BY <3>3
  <2> QED
    BY <2>8, <2>9
<1>5. T \in SUBSET (SUBSET S)
  OBVIOUS
<1>6. T = SUBSET S
  <2> HIDE DEF T
  <2> QED
    BY <1>3, <1>4, <1>5, SetOfSubsets
<1> QED
  BY <1>6

(* However many rules a mailbox has, evaluate_rules applies exactly those  *)
(* that match by the labels of the applied rules before them, in the order *)
(* of their priorities, and nothing after one that stops.                  *)
THEOREM RulesCorrect ==
  \A ruleSets \in SUBSET RuleSet : \A factSets : RulesAsPromised(ruleSets, factSets)
<1> SUFFICES ASSUME NEW ruleSets \in SUBSET RuleSet, NEW factSets,
                    NEW rules \in ruleSets, NEW facts \in factSets
             PROVE
    LET active == {r \in rules : r.is_active}
        before(r) == {s \in active : s.priority < r.priority}
        labelsOf(F) == UNION {s.add_label : s \in F}
        fires(F, r) == /\ \A s \in F \cap before(r) : ~ s.stop
                       /\ Matches(r, facts, labelsOf(F \cap before(r)))
        moved(F) == {r \in F : r.move_to_folder # {}}
        last(F) == {r \in moved(F) : moved(F) \cap before(r) = moved(F) \ {r}}
        result == EvaluateRules(rules, facts, "inbox")
    IN
      \E F \in SUBSET active :
        /\ \A r \in active : r \in F <=> fires(F, r)
        /\ result.labels = labelsOf(F)
        /\ ToSet(result.forwards) = UNION {s.forward_to : s \in F}
        /\ Len(result.forwards) = Cardinality({s \in F : s.forward_to # {}})
        /\ IF moved(F) = {} THEN result.folder = "inbox"
           ELSE \E r \in last(F) : result.folder \in r.move_to_folder
  BY DEF RulesAsPromised
<1> DEFINE active == {r \in rules : r.is_active}
           result == EvaluateRules(rules, facts, "inbox")
<1>1. "inbox" \in Folder /\ rules \subseteq Rule /\ IsFiniteSet(rules)
  BY DEF Folder, RuleSet
<1>2. /\ IsFiniteSet(active) /\ active \subseteq Rule
      /\ \E g : Evaluates(g, active, facts, "inbox") /\ result = g[active]
  BY <1>1, EvaluateRulesIs
<1>3. PICK g : Evaluates(g, active, facts, "inbox") /\ result = g[active]
  BY <1>2
<1>4. \A r, q \in active : r.priority = q.priority => r = q
  BY DEF RuleSet
<1> HIDE DEF result
<1>5. PICK F : Fire(F, active, facts) /\ Does(result, F, "inbox")
  <2> HIDE DEF active
  <2>1. active \in SUBSET active
    OBVIOUS
  <2>2. \E F : Fire(F, active, facts) /\ Does(g[active], F, "inbox")
    BY <1>1, <1>2, <1>3, <1>4, <2>1, EvaluationDoes
  <2> QED
    BY <1>3, <2>2
<1>6. F \in SUBSET active
  BY <1>5 DEF Fire
<1>7. ASSUME NEW r \in active
      PROVE  r \in F <=> /\ \A s \in F \cap {s \in active : s.priority < r.priority} : ~ s.stop
                         /\ Matches(r, facts, UNION {s.add_label :
                              s \in F \cap {s \in active : s.priority < r.priority}})
  BY <1>5 DEF Fire, Before, LabelsOf
<1>8. /\ result.labels = UNION {s.add_label : s \in F}
      /\ ToSet(result.forwards) = UNION {s.forward_to : s \in F}
      /\ Len(result.forwards) = Cardinality({s \in F : s.forward_to # {}})
  BY <1>5 DEF Does, LabelsOf
<1>9. ASSUME NEW r \in Moved(F), \A q \in Moved(F) : q.priority <= r.priority
      PROVE  Moved(F) \cap {s \in active : s.priority < r.priority} = Moved(F) \ {r}
  <2>1. ASSUME NEW q \in Moved(F)
        PROVE  q.priority < r.priority <=> q # r
    <3>1. q \in active /\ r \in active
      BY <1>6 DEF Moved
    <3>2. q.priority \in Nat /\ r.priority \in Nat
      BY <1>2, <3>1 DEF Rule
    <3> QED
      BY <1>4, <1>9, <3>1, <3>2
  <2> QED
    BY <1>6, <2>1 DEF Moved
<1>10. IF Moved(F) = {} THEN result.folder = "inbox"
       ELSE \E r \in {q \in Moved(F) :
                        Moved(F) \cap {s \in active : s.priority < q.priority} = Moved(F) \ {q}} :
              result.folder \in r.move_to_folder
  BY <1>5, <1>9 DEF Does
<1> HIDE DEF active
<1> QED
  BY <1>6, <1>7, <1>8, <1>10 DEF active, result, Moved

-----------------------------------------------------------------------------
(* used_bytes and the sums it stands for.                                  *)

InSizes == [h \in Mail \X Mailbox |-> Size(h[1])]

OutSizes == [h \in Mail \X Mailbox |-> OutboundSize(h[1])]

LEMMA SizesType ==
  /\ \A x \in Mail : Size(x) \in Nat \ {0} /\ OutboundSize(x) \in Nat /\ IncomingSize(x) \in Nat
  /\ \A h \in Mail \X Mailbox : /\ InSizes[h] = Size(h[1]) /\ InSizes[h] \in Nat
                                /\ OutSizes[h] = OutboundSize(h[1]) /\ OutSizes[h] \in Nat
<1>1. ASSUME NEW x \in Mail
      PROVE  Size(x) \in Nat \ {0} /\ OutboundSize(x) \in Nat /\ IncomingSize(x) \in Nat
  <2>1. x.root \in Root
    BY DEF Mail
  <2>2. Stored[x.root] \in Nat /\ Declared[x.root] \in Nat
    BY <2>1, InboundAssumption
  <2> QED
    BY <2>2 DEF Size, OutboundSize, IncomingSize
<1>2. \A h \in Mail \X Mailbox : h[1] \in Mail
  OBVIOUS
<1> QED
  BY <1>1, <1>2 DEF InSizes, OutSizes

(* Whatever satisfies the equations of a sum is the sum.                   *)
LEMMA EquationSums ==
  ASSUME NEW S, IsFiniteSet(S), NEW w, \A x \in S : w[x] \in Nat, NEW f,
         f = [s \in SUBSET S |-> IF s = {} THEN 0
                                 ELSE w[CHOOSE x \in s : TRUE] + f[s \ {CHOOSE x \in s : TRUE}]]
  PROVE  f[S] = SumOf(w, S)
<1> DEFINE T == {s \in SUBSET S : f[s] \in Nat}
<1>1. \A s \in SUBSET S : f[s] = IF s = {} THEN 0
                                 ELSE w[CHOOSE x \in s : TRUE] + f[s \ {CHOOSE x \in s : TRUE}]
  OBVIOUS
<1>2. ASSUME NEW s \in SUBSET S, s # {}, \A x \in s : s \ {x} \in T
      PROVE  s \in T
  <2> DEFINE p == CHOOSE x \in s : TRUE
  <2>1. p \in s
    BY <1>2
  <2>2. f[s] = w[p] + f[s \ {p}]
    BY <1>1, <1>2
  <2> HIDE DEF p
  <2>3. w[p] \in Nat /\ f[s \ {p}] \in Nat
    BY <1>2, <2>1
  <2> QED
    BY <2>2, <2>3
<1>3. {} \in T /\ T \in SUBSET (SUBSET S)
  BY <1>1
<1>4. T = SUBSET S
  <2> HIDE DEF T
  <2> QED
    BY <1>2, <1>3, SetOfSubsets
<1>5. f \in [SUBSET S -> Nat]
  <2>1. f = [s \in SUBSET S |-> f[s]]
    OBVIOUS
  <2>2. \A s \in SUBSET S : f[s] \in Nat
    BY <1>4
  <2> QED
    BY <2>1, <2>2
<1>6. Sums(w, f, S)
  BY <1>1, <1>5 DEF Sums
<1> QED
  BY <1>6, SumOfSums

LEMMA ReceivedSum ==
  ASSUME NEW X, IsFiniteSet(X), X \subseteq Mail \X Mailbox
  PROVE  MapThenSumSet(LAMBDA h : Size(h[1]), X) = SumOf(InSizes, X)
<1> DEFINE Body(i) == [s \in SUBSET X |-> IF s = {} THEN 0
                         ELSE Size((CHOOSE x \in s : TRUE)[1]) + i[s \ {CHOOSE x \in s : TRUE}]]
           iter == CHOOSE i : i = Body(i)
<1>1. MapThenSumSet(LAMBDA h : Size(h[1]), X) = iter[X]
  BY DEF MapThenSumSet, MapThenFoldSet
<1>2. \A x \in X : InSizes[x] \in Nat /\ InSizes[x] = Size(x[1])
  BY SizesType
<1>3. PICK f : Sums(InSizes, f, X)
  BY <1>2, SumsExist
<1>4. f = Body(f)
  <2>1. f = [s \in SUBSET X |-> f[s]]
    BY <1>3 DEF Sums
  <2>2. ASSUME NEW s \in SUBSET X, s # {}
        PROVE  f[s] = Size((CHOOSE x \in s : TRUE)[1]) + f[s \ {CHOOSE x \in s : TRUE}]
    <3> DEFINE p == CHOOSE x \in s : TRUE
    <3>1. p \in X
      BY <2>2
    <3>2. f[s] = InSizes[p] + f[s \ {p}]
      BY <1>3, <2>2 DEF Sums
    <3> HIDE DEF p
    <3>3. f[s] = Size(p[1]) + f[s \ {p}]
      BY <1>2, <3>1, <3>2
    <3> QED
      BY <3>3 DEF p
  <2>3. f[{}] = 0
    BY <1>3 DEF Sums
  <2> QED
    BY <2>1, <2>2, <2>3
<1>5. iter = Body(iter)
  <2> HIDE DEF Body
  <2> QED
    BY <1>4
<1> HIDE DEF iter
<1>6. iter = [s \in SUBSET X |-> IF s = {} THEN 0
                ELSE InSizes[CHOOSE x \in s : TRUE] + iter[s \ {CHOOSE x \in s : TRUE}]]
  <2>1. \A s \in SUBSET X : s # {} => InSizes[CHOOSE x \in s : TRUE] = Size((CHOOSE x \in s : TRUE)[1])
    BY <1>2
  <2>2. iter = [s \in SUBSET X |-> iter[s]]
    BY <1>5
  <2>3. ASSUME NEW s \in SUBSET X, s # {}
        PROVE  iter[s] = InSizes[CHOOSE x \in s : TRUE] + iter[s \ {CHOOSE x \in s : TRUE}]
    <3>1. iter[s] = Size((CHOOSE x \in s : TRUE)[1]) + iter[s \ {CHOOSE x \in s : TRUE}]
      BY <1>5, <2>3
    <3> QED
      BY <2>1, <2>3, <3>1
  <2>4. iter[{}] = 0
    BY <1>5
  <2> QED
    BY <2>2, <2>3, <2>4
<1>7. iter[X] = SumOf(InSizes, X)
  BY <1>2, <1>6, EquationSums
<1> QED
  BY <1>1, <1>7

LEMMA SentSum ==
  ASSUME NEW X, IsFiniteSet(X), X \subseteq Mail \X Mailbox
  PROVE  MapThenSumSet(LAMBDA h : OutboundSize(h[1]), X) = SumOf(OutSizes, X)
<1> DEFINE Body(i) == [s \in SUBSET X |-> IF s = {} THEN 0
                         ELSE OutboundSize((CHOOSE x \in s : TRUE)[1]) + i[s \ {CHOOSE x \in s : TRUE}]]
           iter == CHOOSE i : i = Body(i)
<1>1. MapThenSumSet(LAMBDA h : OutboundSize(h[1]), X) = iter[X]
  BY DEF MapThenSumSet, MapThenFoldSet
<1>2. \A x \in X : OutSizes[x] \in Nat /\ OutSizes[x] = OutboundSize(x[1])
  BY SizesType
<1>3. PICK f : Sums(OutSizes, f, X)
  BY <1>2, SumsExist
<1>4. f = Body(f)
  <2>1. f = [s \in SUBSET X |-> f[s]]
    BY <1>3 DEF Sums
  <2>2. ASSUME NEW s \in SUBSET X, s # {}
        PROVE  f[s] = OutboundSize((CHOOSE x \in s : TRUE)[1]) + f[s \ {CHOOSE x \in s : TRUE}]
    <3> DEFINE p == CHOOSE x \in s : TRUE
    <3>1. p \in X
      BY <2>2
    <3>2. f[s] = OutSizes[p] + f[s \ {p}]
      BY <1>3, <2>2 DEF Sums
    <3> HIDE DEF p
    <3>3. f[s] = OutboundSize(p[1]) + f[s \ {p}]
      BY <1>2, <3>1, <3>2
    <3> QED
      BY <3>3 DEF p
  <2>3. f[{}] = 0
    BY <1>3 DEF Sums
  <2> QED
    BY <2>1, <2>2, <2>3
<1>5. iter = Body(iter)
  <2> HIDE DEF Body
  <2> QED
    BY <1>4
<1> HIDE DEF iter
<1>6. iter = [s \in SUBSET X |-> IF s = {} THEN 0
                ELSE OutSizes[CHOOSE x \in s : TRUE] + iter[s \ {CHOOSE x \in s : TRUE}]]
  <2>1. \A s \in SUBSET X : s # {} => OutSizes[CHOOSE x \in s : TRUE] = OutboundSize((CHOOSE x \in s : TRUE)[1])
    BY <1>2
  <2>2. iter = [s \in SUBSET X |-> iter[s]]
    BY <1>5
  <2>3. ASSUME NEW s \in SUBSET X, s # {}
        PROVE  iter[s] = OutSizes[CHOOSE x \in s : TRUE] + iter[s \ {CHOOSE x \in s : TRUE}]
    <3>1. iter[s] = OutboundSize((CHOOSE x \in s : TRUE)[1]) + iter[s \ {CHOOSE x \in s : TRUE}]
      BY <1>5, <2>3
    <3> QED
      BY <2>1, <2>3, <3>1
  <2>4. iter[{}] = 0
    BY <1>5
  <2> QED
    BY <2>2, <2>3, <2>4
<1>7. iter[X] = SumOf(OutSizes, X)
  BY <1>2, <1>6, EquationSums
<1> QED
  BY <1>1, <1>7

Of(H, mb) == {h \in H : h[2] = mb}

(* What used_bytes is compared with, for any mail a mailbox may have.      *)
TotalOf(H, O, mb) == SumOf(InSizes, Of(H, mb)) + SumOf(OutSizes, Of(O, mb))

LEMMA TotalSums ==
  ASSUME NEW H, IsFiniteSet(H), H \subseteq Mail \X Mailbox,
         NEW O, IsFiniteSet(O), O \subseteq Mail \X Mailbox, NEW mb
  PROVE  MapThenSumSet(LAMBDA h : Size(h[1]), {h \in H : h[2] = mb})
         + MapThenSumSet(LAMBDA h : OutboundSize(h[1]), {h \in O : h[2] = mb}) = TotalOf(H, O, mb)
<1>1. IsFiniteSet(Of(H, mb)) /\ IsFiniteSet(Of(O, mb))
  BY FS_Subset DEF Of
<1>2. Of(H, mb) \subseteq Mail \X Mailbox /\ Of(O, mb) \subseteq Mail \X Mailbox
  BY DEF Of
<1>3. MapThenSumSet(LAMBDA h : Size(h[1]), Of(H, mb)) = SumOf(InSizes, Of(H, mb))
  BY <1>1, <1>2, ReceivedSum
<1>4. MapThenSumSet(LAMBDA h : OutboundSize(h[1]), Of(O, mb)) = SumOf(OutSizes, Of(O, mb))
  BY <1>1, <1>2, SentSum
<1> QED
  BY <1>3, <1>4 DEF Of, TotalOf

Mails(H) == IsFiniteSet(H) /\ H \subseteq Mail \X Mailbox

LEMMA OfType ==
  ASSUME NEW H, Mails(H), NEW mb
  PROVE  /\ IsFiniteSet(Of(H, mb)) /\ Of(H, mb) \subseteq Mail \X Mailbox
         /\ \A h \in Of(H, mb) : InSizes[h] \in Nat /\ OutSizes[h] \in Nat
         /\ SumOf(InSizes, Of(H, mb)) \in Nat /\ SumOf(OutSizes, Of(H, mb)) \in Nat
<1>1. IsFiniteSet(Of(H, mb)) /\ Of(H, mb) \subseteq Mail \X Mailbox
  BY FS_Subset DEF Of, Mails
<1>2. \A h \in Of(H, mb) : InSizes[h] \in Nat /\ OutSizes[h] \in Nat
  BY <1>1, SizesType
<1>3. PICK f : Sums(InSizes, f, Of(H, mb))
  BY <1>1, <1>2, SumsExist
<1>4. PICK g : Sums(OutSizes, g, Of(H, mb))
  BY <1>1, <1>2, SumsExist
<1>5. SumOf(InSizes, Of(H, mb)) \in Nat
  BY <1>1, <1>3, SumOfSums
<1>6. SumOf(OutSizes, Of(H, mb)) \in Nat
  BY <1>1, <1>4, SumOfSums
<1> QED
  BY <1>1, <1>2, <1>5, <1>6

(* A received mail counts in its mailbox ...                               *)
LEMMA ReceivedCounts ==
  ASSUME NEW H, Mails(H), NEW O, Mails(O), NEW h \in Mail \X Mailbox, h \notin H
  PROVE  /\ Mails(H \cup {h})
         /\ TotalOf(H, O, h[2]) \in Nat
         /\ TotalOf(H \cup {h}, O, h[2]) = TotalOf(H, O, h[2]) + Size(h[1])
         /\ \A mb : mb # h[2] => TotalOf(H \cup {h}, O, mb) = TotalOf(H, O, mb)
<1> DEFINE mb == h[2]
           S == Of(H, mb)
<1>1. Mails(H \cup {h})
  BY FS_AddElement DEF Mails
<1>2. IsFiniteSet(S) /\ h \notin S /\ Of(H \cup {h}, mb) = S \cup {h}
  BY OfType DEF Of
<1>3. \A y \in S \cup {h} : InSizes[y] \in Nat
  BY OfType, SizesType
<1>4. SumOf(InSizes, S \cup {h}) = InSizes[h] + SumOf(InSizes, S) /\ SumOf(InSizes, S) \in Nat
  <2> HIDE DEF S
  <2> QED
    BY <1>2, <1>3, SumAdds
<1>5. InSizes[h] = Size(h[1]) /\ InSizes[h] \in Nat /\ SumOf(OutSizes, Of(O, mb)) \in Nat
  BY OfType, SizesType
<1>6. \A p : p # h[2] => Of(H \cup {h}, p) = Of(H, p)
  BY DEF Of
<1>7. TotalOf(H \cup {h}, O, mb) = SumOf(InSizes, S \cup {h}) + SumOf(OutSizes, Of(O, mb))
  BY <1>2 DEF TotalOf
<1>8. TotalOf(H, O, mb) = SumOf(InSizes, S) + SumOf(OutSizes, Of(O, mb))
  BY DEF TotalOf
<1>9. TotalOf(H \cup {h}, O, mb) = TotalOf(H, O, mb) + Size(h[1]) /\ TotalOf(H, O, mb) \in Nat
  <2> HIDE DEF mb, S
  <2> QED
    BY <1>4, <1>5, <1>7, <1>8
<1> QED
  BY <1>1, <1>6, <1>9 DEF TotalOf

(* ... and so does a sent one, by its attachments.                         *)
LEMMA SentCounts ==
  ASSUME NEW H, Mails(H), NEW O, Mails(O), NEW h \in Mail \X Mailbox, h \notin O
  PROVE  /\ Mails(O \cup {h})
         /\ TotalOf(H, O, h[2]) \in Nat
         /\ TotalOf(H, O \cup {h}, h[2]) = TotalOf(H, O, h[2]) + OutboundSize(h[1])
         /\ \A mb : mb # h[2] => TotalOf(H, O \cup {h}, mb) = TotalOf(H, O, mb)
<1> DEFINE mb == h[2]
           S == Of(O, mb)
<1>1. Mails(O \cup {h})
  BY FS_AddElement DEF Mails
<1>2. IsFiniteSet(S) /\ h \notin S /\ Of(O \cup {h}, mb) = S \cup {h}
  BY OfType DEF Of
<1>3. \A y \in S \cup {h} : OutSizes[y] \in Nat
  BY OfType, SizesType
<1>4. SumOf(OutSizes, S \cup {h}) = OutSizes[h] + SumOf(OutSizes, S) /\ SumOf(OutSizes, S) \in Nat
  <2> HIDE DEF S
  <2> QED
    BY <1>2, <1>3, SumAdds
<1>5. OutSizes[h] = OutboundSize(h[1]) /\ OutSizes[h] \in Nat /\ SumOf(InSizes, Of(H, mb)) \in Nat
  BY OfType, SizesType
<1>6. \A p : p # h[2] => Of(O \cup {h}, p) = Of(O, p)
  BY DEF Of
<1>7. TotalOf(H, O \cup {h}, mb) = SumOf(InSizes, Of(H, mb)) + SumOf(OutSizes, S \cup {h})
  BY <1>2 DEF TotalOf
<1>8. TotalOf(H, O, mb) = SumOf(InSizes, Of(H, mb)) + SumOf(OutSizes, S)
  BY DEF TotalOf
<1>9. TotalOf(H, O \cup {h}, mb) = TotalOf(H, O, mb) + OutboundSize(h[1]) /\ TotalOf(H, O, mb) \in Nat
  <2> HIDE DEF mb, S
  <2> QED
    BY <1>4, <1>5, <1>7, <1>8
<1> QED
  BY <1>1, <1>6, <1>9 DEF TotalOf

(* Copies without attachments count nowhere.                               *)
LEMMA BareCopiesCountNot ==
  ASSUME NEW H, Mails(H), NEW O, Mails(O), NEW U, Mails(U), \A h \in U : OutboundSize(h[1]) = 0, NEW mb
  PROVE  TotalOf(H, O \cup U, mb) = TotalOf(H, O, mb)
<1>1. Of(O \cup U, mb) = Of(O, mb) \cup Of(U, mb)
  BY DEF Of
<1>2. \A h \in Of(U, mb) : OutSizes[h] = 0
  BY SizesType DEF Of, Mails
<1>3. SumOf(OutSizes, Of(O, mb) \cup Of(U, mb)) = SumOf(OutSizes, Of(O, mb))
  BY <1>2, OfType, SumIgnoresNothing
<1> QED
  BY <1>1, <1>3 DEF TotalOf

-----------------------------------------------------------------------------
(* Forwarded copies.                                                       *)

LEMMA ToSetFinite ==
  ASSUME NEW S, NEW s \in Seq(S)
  PROVE  IsFiniteSet(ToSet(s)) /\ ToSet(s) \subseteq S
<1>1. Len(s) \in Nat /\ DOMAIN s = 1 .. Len(s) /\ s \in [1 .. Len(s) -> S]
  BY LenProperties
<1>2. IsFiniteSet(1 .. Len(s))
  BY <1>1, FS_Interval
<1>3. s \in Surjection(1 .. Len(s), ToSet(s))
  BY <1>1 DEF Surjection, ToSet
<1>4. IsFiniteSet(ToSet(s))
  BY <1>2, <1>3, FS_Surjection
<1> QED
  BY <1>1, <1>4 DEF ToSet

(* Where a mailbox may forward to.                                         *)
ForwardsTo(mb) ==
  ForwardTo[mb] \cup UNION {r.forward_to : r \in {s \in Rules[mb] : s.is_active}}

LEMMA CopiesType ==
  ASSUME NEW x \in Mail, NEW mb \in Mailbox
  PROVE  /\ IsFiniteSet(Copies(x, mb))
         /\ \A c \in Copies(x, mb) :
              /\ c \in Mail /\ c.root = x.root
              /\ x.depth < MaxForwardDepth /\ c.depth = x.depth + 1 /\ c # x
              /\ ToSet(c.to) \subseteq ForwardsTo(mb)
<1> DEFINE rules == Rules[mb]
           active == {r \in rules : r.is_active}
           facts == Facts[x.root]
           forwards == EvaluateRules(rules, facts, "inbox").forwards
           A == UNION {r.forward_to : r \in active}
           to == ToSet(forwards) \cup ForwardTo[mb]
<1>1. rules \subseteq Rule /\ IsFiniteSet(rules) /\ "inbox" \in Folder
  <2>1. rules \in RuleSet
    BY InboundAssumption
  <2> QED
    BY <2>1 DEF RuleSet, Folder
<1>2. PICK g : Evaluates(g, active, facts, "inbox") /\ EvaluateRules(rules, facts, "inbox") = g[active]
  BY <1>1, EvaluateRulesIs
<1>3. forwards \in Seq(A)
  BY <1>2 DEF Evaluates, EvaluationOf
<1>4. A \subseteq Address
  BY <1>1 DEF Rule, AtMostOne
<1>5. ForwardTo[mb] \in AtMostOne(Address)
  BY InboundAssumption
<1>6. IsFiniteSet(ForwardTo[mb]) /\ ForwardTo[mb] \subseteq Address
  <2>1. CASE ForwardTo[mb] = {}
    BY <2>1, FS_EmptySet
  <2>2. CASE ForwardTo[mb] # {}
    <3>1. PICK a \in Address : ForwardTo[mb] = {a}
      BY <1>5, <2>2 DEF AtMostOne
    <3> QED
      BY <3>1, FS_Singleton
  <2> QED
    BY <2>1, <2>2
<1>7. IsFiniteSet(to) /\ to \subseteq Address /\ to \subseteq ForwardsTo(mb)
  <2>1. IsFiniteSet(ToSet(forwards)) /\ ToSet(forwards) \subseteq A
    <3> HIDE DEF forwards, A
    <3> QED
      BY <1>3, ToSetFinite
  <2>2. IsFiniteSet(to)
    BY <1>6, <2>1, FS_Union
  <2>3. ForwardsTo(mb) = ForwardTo[mb] \cup A
    BY DEF ForwardsTo
  <2> HIDE DEF forwards, A
  <2> QED
    BY <1>4, <1>6, <2>1, <2>2, <2>3
<1> HIDE DEF to
<1>8. Copies(x, mb) = UNION {Forward(x, mb, a) : a \in to}
  BY DEF Copies, to
<1>9. IsFiniteSet(Copies(x, mb))
  <2> DEFINE all == {Forward(x, mb, a) : a \in to}
             f == [a \in to |-> Forward(x, mb, a)]
  <2>1. f \in Surjection(to, all)
    BY DEF Surjection
  <2>2. IsFiniteSet(all)
    <3> HIDE DEF all, f
    <3> QED
      BY <1>7, <2>1, FS_Surjection
  <2>3. \A T \in all : IsFiniteSet(T)
    <3> SUFFICES ASSUME NEW a \in to PROVE IsFiniteSet(Forward(x, mb, a))
      OBVIOUS
    <3>1. Forward(x, mb, a) = {} \/ \E c : Forward(x, mb, a) = {c}
      BY DEF Forward
    <3>2. CASE Forward(x, mb, a) = {}
      BY <3>2, FS_EmptySet
    <3>3. CASE \E c : Forward(x, mb, a) = {c}
      BY <3>3, FS_Singleton
    <3> QED
      BY <3>1, <3>2, <3>3
  <2> HIDE DEF all
  <2>4. IsFiniteSet(UNION all)
    BY <2>2, <2>3, FS_UNION
  <2> QED
    BY <1>8, <2>4 DEF all
<1>10. ASSUME NEW c \in Copies(x, mb)
       PROVE  /\ c \in Mail /\ c.root = x.root
              /\ x.depth < MaxForwardDepth /\ c.depth = x.depth + 1 /\ c # x
              /\ ToSet(c.to) \subseteq ForwardsTo(mb)
  <2>1. PICK a \in to : c \in Forward(x, mb, a)
    BY <1>8
  <2>2. /\ ~ (x.depth >= MaxForwardDepth)
        /\ c = [root |-> x.root, depth |-> x.depth + 1, from |-> AddressOf[mb], to |-> <<a>>]
    BY <2>1 DEF Forward
  <2>3. x.depth \in Nat /\ x.depth < MaxForwardDepth
    BY <2>2 DEF Mail, MaxForwardDepth
  <2>4. x.root \in Root /\ AddressOf[mb] \in Address /\ <<a>> \in Seq(Address)
    BY <1>7, RoutingAssumption DEF Mail
  <2>5. x.depth + 1 \in 0 .. MaxForwardDepth + 1
    BY <2>3 DEF MaxForwardDepth
  <2>6. c \in Mail
    BY <2>2, <2>4, <2>5 DEF Mail
  <2>7. ToSet(c.to) \subseteq ForwardsTo(mb)
    <3>1. c.to = <<a>> /\ ToSet(<<a>>) = {a}
      BY <2>2 DEF ToSet
    <3> QED
      BY <1>7, <3>1
  <2> QED
    BY <2>2, <2>3, <2>6, <2>7
<1> QED
  BY <1>9, <1>10

-----------------------------------------------------------------------------
(* Threads.                                                                *)

(* A list that keeps its threads and all that is in them, and has no new   *)
(* thread with a subject that was there.                                   *)
Grows(list, now) ==
  /\ Len(list) <= Len(now)
  /\ \A i \in 1 .. Len(list) : /\ now[i].subject = list[i].subject
                               /\ list[i].joined \subseteq now[i].joined
                               /\ list[i].known \subseteq now[i].known
  /\ \A j \in Len(list) + 1 .. Len(now) :
       now[j].subject # NoSubject => \A i \in 1 .. j - 1 : now[i].subject # now[j].subject

LEMMA RowsType ==
  ASSUME NEW list \in Seq(Conversation)
  PROVE  /\ Len(list) \in Nat /\ DOMAIN list = 1 .. Len(list)
         /\ list \in [1 .. Len(list) -> Conversation]
         /\ \A i \in 1 .. Len(list) : list[i] \in Conversation
BY LenProperties, ElementOfSeq

(* What a lookup finds is a copy of a thread, or nothing if none matches.  *)
LEMMA LookupType ==
  ASSUME NEW list \in Seq(Conversation), NEW refs, NEW subject,
         NEW thread \in Lookup(list, refs, subject)
  PROVE  /\ thread \in Thread
         /\ \/ thread = NoThread /\ Matching(list, refs, subject) = {}
            \/ \E i \in Matching(list, refs, subject) : i \in 1 .. Len(list) /\ thread = Copy(list, i)
<1>1. NoThread \in Thread
  BY DEF NoThread, Thread
<1>2. Matching(list, refs, subject) \subseteq 1 .. Len(list)
  BY RowsType DEF Matching, ByRoot, ByMessage, BySubject
<1>3. \A i \in 1 .. Len(list) : Copy(list, i) \in Thread
  BY RowsType DEF Copy, Thread, Conversation
<1> QED
  BY <1>1, <1>2, <1>3 DEF Lookup

(* A list with a row more, or with more in one of its threads.             *)
Opens(list, now, row) ==
  /\ now \in Seq(Conversation)
  /\ Len(now) = Len(list) + 1
  /\ \A i \in 1 .. Len(list) : now[i] = list[i]
  /\ now[Len(list) + 1] = row

Joins(list, now, thread, new) ==
  /\ now \in Seq(Conversation)
  /\ Len(now) = Len(list)
  /\ \A i \in 1 .. Len(list) :
       /\ now[i].subject = list[i].subject
       /\ i # thread.place => now[i] = list[i]
       /\ i = thread.place => /\ now[i].joined = list[i].joined \cup new
                              /\ now[i].known = thread.known \cup new

(* Filing opens a thread at the end of the list ...                        *)
LEMMA FileOpens ==
  ASSUME NEW list \in Seq(Conversation), NEW thread, thread.place = 0,
         NEW x \in Mail, NEW new \in SUBSET Mail, NEW r \in Root
  PROVE  Opens(list, File(list, thread, x, new, Subject[r]), Opened(x, new, Subject[r]))
<1> DEFINE row == Opened(x, new, Subject[r])
           now == File(list, thread, x, new, Subject[r])
<1>1. now = Append(list, row)
  BY DEF File
<1>2. row \in Conversation
  BY DEF Opened, Conversation
<1> HIDE DEF row, now
<1>3. /\ Append(list, row) \in Seq(Conversation)
      /\ Len(Append(list, row)) = Len(list) + 1
      /\ \A i \in 1 .. Len(list) : Append(list, row)[i] = list[i]
      /\ Append(list, row)[Len(list) + 1] = row
  BY <1>2, RowsType, AppendProperties
<1>4. Opens(list, now, row)
  BY <1>1, <1>3 DEF Opens
<1> QED
  BY <1>4 DEF row, now

(* ... or adds to the one that was read.                                   *)
LEMMA FileJoins ==
  ASSUME NEW list \in Seq(Conversation), NEW thread \in Thread, thread.place # 0,
         NEW x \in Mail, NEW new \in SUBSET Mail, NEW subject
  PROVE  Joins(list, File(list, thread, x, new, subject), thread, new)
<1> DEFINE now == File(list, thread, x, new, subject)
           p == thread.place
           Put(entry) == Joined(entry, thread, x, new)
           S == Conversation
<1>1. now = [list EXCEPT ![p] = Put(list[p])]
  BY DEF File
<1>2. /\ (IF thread.root = NoMail THEN x ELSE thread.root) \in Mail \cup {NoMail}
      /\ thread.known \in SUBSET Mail
  BY DEF Thread
<1>3. ASSUME NEW i \in 1 .. Len(list)
      PROVE  /\ Put(list[i]) \in S /\ Put(list[i]).subject = list[i].subject
             /\ Put(list[i]).joined = list[i].joined \cup new
             /\ Put(list[i]).known = thread.known \cup new
  <2>1. list[i] \in Conversation
    BY RowsType
  <2> QED
    BY <1>2, <2>1 DEF Conversation, Joined
<1> HIDE DEF Put, now
<1>4. /\ DOMAIN now = 1 .. Len(list)
      /\ \A i \in 1 .. Len(list) : now[i] = IF i = p THEN Put(list[i]) ELSE list[i]
  BY <1>1, RowsType
<1>5. now \in [1 .. Len(list) -> S]
  <2>1. now = [i \in 1 .. Len(list) |-> now[i]]
    BY <1>1, RowsType
  <2>2. \A i \in 1 .. Len(list) : now[i] \in S
    BY <1>3, <1>4, RowsType
  <2> HIDE DEF S
  <2> QED
    BY <2>1, <2>2
<1>6. now \in Seq(S) /\ Len(now) = Len(list)
  <2> HIDE DEF S
  <2> QED
    BY <1>5, RowsType, SeqDef, LenProperties
<1>7. Joins(list, now, thread, new)
  BY <1>3, <1>4, <1>6, RowsType DEF Joins
<1> QED
  BY <1>7 DEF now

(* Filing under what a lookup finds lets the list grow, and the message is *)
(* in the thread that was found.                                           *)
LEMMA FileGrows ==
  ASSUME NEW list \in Seq(Conversation), NEW refs, NEW r \in Root,
         NEW thread \in Lookup(list, refs, Subject[r]), NEW x \in Mail, NEW new \in SUBSET Mail
  PROVE  LET now == File(list, thread, x, new, Subject[r]) IN
           /\ now \in Seq(Conversation)
           /\ Grows(list, now)
           /\ \E i \in 1 .. Len(now) :
                /\ new \subseteq now[i].joined \cap now[i].known
                /\ Matching(list, refs, Subject[r]) # {} => i \in Matching(list, refs, Subject[r])
<1> DEFINE now == File(list, thread, x, new, Subject[r])
<1>1. /\ thread \in Thread
      /\ \/ thread = NoThread /\ Matching(list, refs, Subject[r]) = {}
         \/ \E i \in Matching(list, refs, Subject[r]) : i \in 1 .. Len(list) /\ thread = Copy(list, i)
  BY LookupType
<1>0. thread \in Thread
  BY <1>1
<1>2. Len(list) \in Nat
  BY RowsType
<1>2a. now = File(list, thread, x, new, Subject[r])
  OBVIOUS
<1> HIDE DEF now
<1>3. CASE thread = NoThread /\ Matching(list, refs, Subject[r]) = {}
  <2>1. thread.place = 0
    BY <1>3 DEF NoThread
  <2>2. /\ now \in Seq(Conversation) /\ Len(now) = Len(list) + 1
        /\ \A i \in 1 .. Len(list) : now[i] = list[i]
        /\ now[Len(list) + 1] = Opened(x, new, Subject[r])
    <3>1. Opens(list, now, Opened(x, new, Subject[r]))
      BY <1>2a, <2>1, FileOpens
    <3> QED
      BY <3>1 DEF Opens
  <2>3. Subject[r] # NoSubject => \A i \in 1 .. Len(list) : list[i].subject # Subject[r]
    BY <1>3, RowsType DEF Matching, BySubject
  <2>4. /\ now[Len(list) + 1].subject = Subject[r]
        /\ now[Len(list) + 1].joined = new /\ now[Len(list) + 1].known = new
    BY <2>2 DEF Opened
  <2>5. Grows(list, now)
    <3>1. \A j \in Len(list) + 1 .. Len(now) : j = Len(list) + 1
      BY <1>2, <2>2
    <3>2. \A i \in 1 .. (Len(list) + 1) - 1 : i \in 1 .. Len(list)
      BY <1>2
    <3>3. Len(list) <= Len(now)
      BY <1>2, <2>2
    <3> QED
      BY <2>2, <2>3, <2>4, <3>1, <3>2, <3>3 DEF Grows
  <2>6. Len(list) + 1 \in 1 .. Len(now)
    BY <1>2, <2>2
  <2> QED
    BY <1>3, <2>2, <2>4, <2>5, <2>6 DEF now
<1>4. ASSUME NEW p \in Matching(list, refs, Subject[r]), p \in 1 .. Len(list), thread = Copy(list, p)
      PROVE  /\ now \in Seq(Conversation)
             /\ Grows(list, now)
             /\ p \in 1 .. Len(now) /\ new \subseteq now[p].joined \cap now[p].known
  <2>1. thread.place = p /\ thread.place # 0 /\ thread.known = list[p].known
    BY <1>2, <1>4 DEF Copy
  <2>2. /\ now \in Seq(Conversation) /\ Len(now) = Len(list)
        /\ \A i \in 1 .. Len(list) :
             /\ now[i].subject = list[i].subject
             /\ i # p => now[i] = list[i]
             /\ i = p => /\ now[i].joined = list[i].joined \cup new
                         /\ now[i].known = list[p].known \cup new
    <3>1. Joins(list, now, thread, new)
      BY <1>0, <1>2a, <2>1, FileJoins
    <3> QED
      BY <2>1, <3>1 DEF Joins
  <2>3. \A j \in Len(list) + 1 .. Len(now) : FALSE
    BY <1>2, <2>2
  <2>4. \A i \in 1 .. Len(list) : /\ list[i].joined \subseteq now[i].joined
                                  /\ list[i].known \subseteq now[i].known
    BY <2>2
  <2>5. Len(list) <= Len(now)
    BY <1>2, <2>2
  <2>6. Grows(list, now)
    BY <2>2, <2>3, <2>4, <2>5 DEF Grows
  <2> QED
    BY <1>4, <2>2, <2>6
<1> QED
  BY <1>1, <1>3, <1>4 DEF now

LEMMA GrowsOn ==
  ASSUME NEW a \in Seq(Conversation), NEW b \in Seq(Conversation), NEW c \in Seq(Conversation),
         Grows(a, b), Grows(b, c)
  PROVE  Grows(a, c)
<1>1. Len(a) \in Nat /\ Len(b) \in Nat /\ Len(c) \in Nat /\ Len(a) <= Len(b) /\ Len(b) <= Len(c)
  BY RowsType DEF Grows
<1>2. \A i \in 1 .. Len(a) : i \in 1 .. Len(b)
  BY <1>1
<1>3. \A i \in 1 .. Len(a) : /\ c[i].subject = a[i].subject
                             /\ a[i].joined \subseteq c[i].joined
                             /\ a[i].known \subseteq c[i].known
  <2> SUFFICES ASSUME NEW i \in 1 .. Len(a)
               PROVE  /\ c[i].subject = a[i].subject
                      /\ a[i].joined \subseteq c[i].joined
                      /\ a[i].known \subseteq c[i].known
    OBVIOUS
  <2>1. /\ b[i].subject = a[i].subject /\ a[i].joined \subseteq b[i].joined
        /\ a[i].known \subseteq b[i].known
    BY DEF Grows
  <2>2. /\ c[i].subject = b[i].subject /\ b[i].joined \subseteq c[i].joined
        /\ b[i].known \subseteq c[i].known
    BY <1>2 DEF Grows
  <2> QED
    BY <2>1, <2>2
<1>4. ASSUME NEW j \in Len(a) + 1 .. Len(c), c[j].subject # NoSubject, NEW i \in 1 .. j - 1
      PROVE  c[i].subject # c[j].subject
  <2>1. CASE j <= Len(b)
    <3>1. j \in Len(a) + 1 .. Len(b) /\ j \in 1 .. Len(b) /\ i \in 1 .. Len(b)
      BY <1>1, <2>1
    <3>2. c[j].subject = b[j].subject /\ c[i].subject = b[i].subject
      BY <3>1 DEF Grows
    <3> QED
      BY <1>4, <3>1, <3>2 DEF Grows
  <2>2. CASE ~ (j <= Len(b))
    <3>1. j \in Len(b) + 1 .. Len(c)
      BY <1>1, <2>2
    <3> QED
      BY <1>4, <3>1 DEF Grows
  <2> QED
    BY <2>1, <2>2
<1> QED
  BY <1>1, <1>3, <1>4 DEF Grows

(* So does filing the copies that are forwarded.                           *)
LEMMA CopiesFiled ==
  ASSUME NEW list \in Seq(Conversation), NEW copies \in SUBSET Mail, IsFiniteSet(copies),
         NEW r \in Root, NEW now \in FileCopies(list, copies, Subject[r])
  PROVE  now \in Seq(Conversation) /\ Grows(list, now)
<1>1. Len(list) \in Nat
  BY RowsType
<1>2. CASE copies = {}
  <2>1. now = list
    BY <1>2 DEF FileCopies
  <2> QED
    BY <1>1, <2>1 DEF Grows
<1>3. CASE copies # {} /\ Subject[r] = NoSubject
  <2> DEFINE s == SetToSeq(copies)
             more == OpenedEach(s, Subject[r])
  <2>1. s \in Seq(copies) /\ Len(s) \in Nat /\ DOMAIN s = 1 .. Len(s) /\ \A i \in 1 .. Len(s) : s[i] \in copies
    <3>1. s \in Seq(copies)
      BY SetToSeqType
    <3> HIDE DEF s
    <3> QED
      BY <3>1, LenProperties, ElementOfSeq
  <2>2. now = list \o more
    BY <1>3 DEF FileCopies
  <2> HIDE DEF s
  <2>3. \A i \in 1 .. Len(s) : more[i] \in Conversation /\ more[i].subject = NoSubject
    <3>1. \A y \in Mail : /\ Opened(y, {y}, Subject[r]) \in Conversation
                          /\ Opened(y, {y}, Subject[r]).subject = Subject[r]
      BY DEF Opened, Conversation
    <3> QED
      BY <1>3, <2>1, <3>1 DEF OpenedEach
  <2>4. more \in [1 .. Len(s) -> Conversation]
    <3>1. more = [i \in 1 .. Len(s) |-> more[i]]
      BY <2>1 DEF OpenedEach
    <3> HIDE DEF more
    <3> QED
      BY <2>3, <3>1
  <2> HIDE DEF more
  <2>5. more \in Seq(Conversation) /\ Len(more) = Len(s)
    BY <2>1, <2>4, SeqDef, LenProperties
  <2>6. /\ now \in Seq(Conversation) /\ Len(now) = Len(list) + Len(s)
        /\ \A i \in 1 .. Len(list) + Len(s) : now[i] = IF i <= Len(list) THEN list[i] ELSE more[i - Len(list)]
    <3> DEFINE S == Conversation
               all == list \o more
    <3>1. list \in Seq(S) /\ more \in Seq(S) /\ now = all
      BY <2>2, <2>5
    <3> HIDE DEF S
    <3>2. /\ all \in Seq(S) /\ Len(all) = Len(list) + Len(more)
          /\ \A i \in 1 .. Len(list) + Len(more) : all[i] = IF i <= Len(list) THEN list[i] ELSE more[i - Len(list)]
      BY <3>1, ConcatProperties
    <3> HIDE DEF all
    <3> QED
      BY <2>5, <3>1, <3>2 DEF S
  <2>7. \A i \in 1 .. Len(list) : now[i] = list[i]
    BY <1>1, <2>1, <2>6
  <2>8. \A j \in Len(list) + 1 .. Len(now) : now[j].subject = NoSubject
    <3> SUFFICES ASSUME NEW j \in Len(list) + 1 .. Len(now) PROVE now[j].subject = NoSubject
      OBVIOUS
    <3>1. j - Len(list) \in 1 .. Len(s) /\ j \in 1 .. Len(list) + Len(s) /\ ~ (j <= Len(list))
      BY <1>1, <2>1, <2>6
    <3> QED
      BY <2>3, <2>6, <3>1
  <2>9. Len(list) <= Len(now)
    BY <1>1, <2>1, <2>6
  <2> QED
    BY <2>6, <2>7, <2>8, <2>9 DEF Grows
<1>4. CASE copies # {} /\ Subject[r] # NoSubject
  <2>1. PICK thread \in Lookup(list, {}, Subject[r]), x \in copies : now = File(list, thread, x, copies, Subject[r])
    BY <1>4 DEF FileCopies
  <2> QED
    BY <2>1, FileGrows
<1> QED
  BY <1>2, <1>3, <1>4

(* Drafts and deletions keep the rows of a list well formed.               *)
LEMMA DraftAndUnfileType ==
  ASSUME NEW list \in Seq(Conversation), NEW x \in Mail, NEW r \in Root
  PROVE  /\ FileDraft(list, x, Subject[r]) \in Seq(Conversation)
         /\ \A i \in 1 .. Len(list) : FileDraftAt(list, i, x) \in Seq(Conversation)
         /\ Unfile(list, x) \in Seq(Conversation)
<1>1. Len(list) \in Nat /\ DOMAIN list = 1 .. Len(list) /\ \A i \in 1 .. Len(list) : list[i] \in Conversation
  BY RowsType
<1>2. FileDraft(list, x, Subject[r]) \in Seq(Conversation)
  <2>1. Opened(NoMail, {x}, Subject[r]) \in Conversation
    BY DEF Opened, Conversation
  <2> QED
    BY <2>1, AppendProperties DEF FileDraft
<1>3. ASSUME NEW row \in Conversation
      PROVE  [row EXCEPT !.joined = @ \cup {x}] \in Conversation /\ [row EXCEPT !.joined = @ \ {x}] \in Conversation
  BY DEF Conversation
<1>4. ASSUME NEW i \in 1 .. Len(list)
      PROVE  FileDraftAt(list, i, x) \in Seq(Conversation)
  <2> DEFINE row == [list[i] EXCEPT !.joined = @ \cup {x}]
  <2>1. row \in Conversation /\ FileDraftAt(list, i, x) = [list EXCEPT ![i] = row]
    BY <1>1, <1>3 DEF FileDraftAt
  <2> HIDE DEF row
  <2>2. list \in [1 .. Len(list) -> Conversation]
    BY RowsType
  <2>3. FileDraftAt(list, i, x) \in [1 .. Len(list) -> Conversation]
    BY <2>1, <2>2
  <2> QED
    BY <1>1, <2>3, SeqDef
<1>5. Unfile(list, x) \in Seq(Conversation)
  <2>1. Unfile(list, x) \in [1 .. Len(list) -> Conversation]
    BY <1>1, <1>3 DEF Unfile
  <2> QED
    BY <1>1, <2>1, SeqDef
<1> QED
  BY <1>2, <1>4, <1>5

-----------------------------------------------------------------------------
(* The inductive invariant.                                                *)

(* A worker that is at work has a mail that may still be processed, and,   *)
(* once it has found one, a mailbox.                                       *)
WorkersInOrder ==
  \A w \in Worker :
    /\ pc[w] # "idle" => hand[w] \in Mail /\ hand[w].depth <= MaxForwardDepth
    /\ pc[w] \in {"found", "inside"} => target[w] \in Mailbox

(* The lock on the mailbox row, and the unique index on the mail.          *)
OneInside ==
  \A v, w \in Worker :
    v # w /\ pc[v] = "inside" /\ pc[w] = "inside" => target[v] # target[w] /\ hand[v] # hand[w]

(* The thread that a transaction has read is the one it would find again.  *)
FreshlyRead(w) ==
  reading[w] \in Lookup(threads[target[w]], RefsOf(hand[w]), Subject[hand[w].root])

(* What the transaction has checked still holds when it commits.           *)
Admitted ==
  \A w \in Worker :
    pc[w] = "inside" =>
      /\ ~ Refused(hand[w], target[w])
      /\ Fits(hand[w], target[w])
      /\ FreshlyRead(w)

FiniteMail == IsFiniteSet(held) /\ IsFiniteSet(sent)

(* UsedMatchesStored, by the sums above.                                   *)
UsedCounted == \A mb \in Mailbox \ drifted : used[mb] = TotalOf(held, sent, mb)

InboundInv ==
  /\ TypeOK
  /\ WorkersInOrder
  /\ ForwardingStops
  /\ OneInside
  /\ Admitted
  /\ FiniteMail
  /\ UsedCounted
  /\ TargetsAddressed
  /\ ForwardedAsRuled

-----------------------------------------------------------------------------
LEMMA RootMailType ==
  ASSUME NEW r \in Root
  PROVE  RootMail(r) \in Mail /\ RootMail(r).depth = 0 /\ RootMail(r).root = r
<1>1. Recipients[r] \in Seq(Address) /\ 0 \in 0 .. MaxForwardDepth + 1
  BY InboundAssumption DEF MaxForwardDepth
<1>2. (IF Writer[r] = NoMailbox THEN World ELSE AddressOf[Writer[r]]) \in Address \cup {World}
  BY InboundAssumption, RoutingAssumption
<1> QED
  BY <1>1, <1>2 DEF RootMail, Mail

LEMMA NoMailCountsNothing ==
  ASSUME NEW mb
  PROVE  TotalOf({}, {}, mb) = 0
<1>1. IsFiniteSet({}) /\ Of({}, mb) = {}
  BY FS_EmptySet DEF Of
<1>2. ASSUME NEW w
      PROVE  SumOf(w, {}) = 0
  <2>1. PICK f : Sums(w, f, {})
    BY <1>1, SumsExist
  <2>2. f[{}] = 0
    BY <2>1 DEF Sums
  <2> QED
    BY <1>1, <2>1, <2>2, SumOfSums
<1> QED
  BY <1>1, <1>2 DEF TotalOf

LEMMA InboundInit == Init => InboundInv
<1> SUFFICES ASSUME Init PROVE InboundInv
  OBVIOUS
<1> USE DEF Init
<1>1. TypeOK
  <2>1. \A r \in Root : RootMail(r) \in Mail
    BY RootMailType
  <2>2. [mb \in Mailbox |-> <<>>] \in [Mailbox -> Seq(Conversation)]
    BY EmptySeq
  <2>3. NoThread \in Thread
    BY DEF NoThread, Thread
  <2>4. 0 \in 0 .. MaxDisturbances
    BY InboundAssumption
  <2> QED
    BY <2>1, <2>2, <2>3, <2>4 DEF TypeOK, Unasked
<1>2. WorkersInOrder /\ OneInside /\ Admitted /\ TargetsAddressed
  BY DEF WorkersInOrder, OneInside, Admitted, TargetsAddressed
<1>3. ForwardingStops
  BY RootMailType DEF ForwardingStops, MaxForwardDepth, Unasked
<1>4. FiniteMail
  BY FS_EmptySet DEF FiniteMail
<1>5. UsedCounted
  BY NoMailCountsNothing DEF UsedCounted
<1>6. ForwardedAsRuled
  BY DEF ForwardedAsRuled
<1> QED
  BY <1>1, <1>2, <1>3, <1>4, <1>5, <1>6 DEF InboundInv

(* Steps that touch no mail, no worker and no history ...                  *)
LEMMA Beside ==
  ASSUME InboundInv, TypeOK', ForwardingStops', UNCHANGED <<mailVars, workVars, drifted>>
  PROVE  InboundInv'
<1>1. /\ held' = held /\ sent' = sent /\ used' = used /\ threads' = threads
      /\ pc' = pc /\ hand' = hand /\ target' = target /\ reading' = reading
      /\ drifted' = drifted
  BY DEF mailVars, workVars
<1>2. WorkersInOrder' /\ OneInside' /\ TargetsAddressed'
  BY <1>1 DEF InboundInv, WorkersInOrder, OneInside, TargetsAddressed
<1>3. Admitted'
  <2>1. Admitted
    BY DEF InboundInv
  <2> QED
    BY <1>1, <2>1 DEF Admitted, Refused, Fits, FreshlyRead
<1>4. FiniteMail' /\ ForwardedAsRuled' /\ UsedCounted'
  BY <1>1 DEF InboundInv, FiniteMail, ForwardedAsRuled, UsedCounted
<1> QED
  BY <1>2, <1>3, <1>4 DEF InboundInv

(* ... and steps in which a worker lets go of its mail.                    *)
LEMMA LettingGo ==
  ASSUME InboundInv, TypeOK', ForwardingStops', NEW w \in Worker, LetGo(w),
         UNCHANGED <<mailVars, drifted>>
  PROVE  InboundInv'
<1>1. /\ pc'[w] = "idle" /\ target'[w] = NoMailbox
      /\ \A v \in Worker \ {w} : /\ pc'[v] = pc[v] /\ hand'[v] = hand[v]
                                 /\ target'[v] = target[v] /\ reading'[v] = reading[v]
  BY DEF InboundInv, LetGo, TypeOK
<1>2. /\ held' = held /\ sent' = sent /\ used' = used /\ threads' = threads
      /\ drifted' = drifted
  BY DEF mailVars
<1>3. WorkersInOrder'
  BY <1>1 DEF InboundInv, WorkersInOrder
<1>4. OneInside'
  <2>1. OneInside
    BY DEF InboundInv
  <2> QED
    BY <1>1, <2>1 DEF OneInside
<1>5. TargetsAddressed'
  <2>1. TargetsAddressed
    BY DEF InboundInv
  <2> SUFFICES ASSUME NEW v \in Worker, v # w
               PROVE  target'[v] \in {NoMailbox, CatchAll}
                        \/ \E p \in ToSet(hand'[v].to) :
                             AddressOf[target'[v]] = p \/ (p \in DOMAIN AliasOf /\ AliasOf[p] = target'[v])
    BY <1>1 DEF TargetsAddressed
  <2> QED
    BY <1>1, <2>1 DEF TargetsAddressed
<1>6. Admitted'
  <2>1. Admitted
    BY DEF InboundInv
  <2> SUFFICES ASSUME NEW v \in Worker, v # w, pc[v] = "inside"
               PROVE  (/\ ~ Refused(hand[v], target[v])
                       /\ Fits(hand[v], target[v])
                       /\ FreshlyRead(v))'
    BY <1>1 DEF Admitted
  <2>2. /\ ~ Refused(hand[v], target[v]) /\ Fits(hand[v], target[v])
        /\ FreshlyRead(v)
    BY <2>1 DEF Admitted
  <2>3. hand'[v] = hand[v] /\ target'[v] = target[v] /\ reading'[v] = reading[v]
    BY <1>1
  <2>4. (~ Refused(hand[v], target[v]))'
    BY <1>2, <2>2, <2>3 DEF Refused
  <2>5. Fits(hand[v], target[v])'
    BY <1>2, <2>2, <2>3 DEF Fits
  <2>6. FreshlyRead(v)'
    BY <1>2, <2>2, <2>3 DEF FreshlyRead
  <2> QED
    BY <2>4, <2>5, <2>6
<1>7. FiniteMail' /\ ForwardedAsRuled' /\ UsedCounted'
  BY <1>2 DEF InboundInv, FiniteMail, ForwardedAsRuled, UsedCounted
<1> QED
  BY <1>3, <1>4, <1>5, <1>6, <1>7 DEF InboundInv

LEMMA LetGoType ==
  ASSUME InboundInv, NEW w \in Worker, pc[w] # "idle", LetGo(w),
         queue' \cup failed' \cup ignored' \subseteq queue \cup failed \cup ignored \cup {hand[w]},
         UNCHANGED <<open, mailVars, composeVars, sweepVars, drifted>>,
         disturbances' \in 0 .. MaxDisturbances
  PROVE  TypeOK' /\ ForwardingStops'
<1> USE DEF InboundInv
<1>1. hand[w] \in Mail /\ hand[w].depth <= MaxForwardDepth
  BY DEF WorkersInOrder
<1>2. NoThread \in Thread
  BY DEF NoThread, Thread
<1>3. /\ pc' \in [Worker -> {"idle", "found", "inside", "save"}]
      /\ hand' \in [Worker -> Mail \cup {NoMail}]
      /\ target' \in [Worker -> Mailbox \cup {NoMailbox}]
      /\ reading' \in [Worker -> Thread]
  BY <1>2 DEF TypeOK, LetGo
<1>4. /\ open' \subseteq Mailbox
      /\ held' \subseteq Mail \X Mailbox
      /\ sent' \subseteq Mail \X Mailbox
      /\ used' \in [Mailbox -> Nat]
      /\ threads' \in [Mailbox -> Seq(Conversation)]
      /\ composing' \in [Composed -> {"new", "reading", "draft", "written"}]
      /\ draft' \in [Composed -> Thread]
      /\ totals' \in [Mailbox -> Nat]
      /\ toFix' \subseteq Mailbox
      /\ drifted' \subseteq Mailbox
  BY DEF TypeOK, mailVars, composeVars, sweepVars
<1>5. queue' \cup failed' \cup ignored' \subseteq Mail
  BY <1>1 DEF TypeOK
<1>6. TypeOK'
  BY <1>3, <1>4, <1>5 DEF TypeOK
<1>7. ForwardingStops'
  BY <1>1 DEF ForwardingStops
<1> QED
  BY <1>6, <1>7

(* OverQuota, InsertRefused, Save, Die and WorkerFails.                    *)
LEMMA LetGoKeeps ==
  ASSUME InboundInv, NEW w \in Worker,
         OverQuota(w) \/ InsertRefused(w) \/ Save(w) \/ Die(w) \/ WorkerFails(w)
  PROVE  InboundInv'
<1>1. pc[w] # "idle" /\ LetGo(w)
  BY DEF OverQuota, InsertRefused, Save, Die, WorkerFails
<1>2. UNCHANGED <<open, mailVars, composeVars, sweepVars, drifted>>
  BY DEF OverQuota, InsertRefused, Save, Die, WorkerFails, historyVars
<1>3. queue' \cup failed' \cup ignored' \subseteq queue \cup failed \cup ignored \cup {hand[w]}
  <2>1. CASE OverQuota(w)
    BY <2>1 DEF OverQuota
  <2>2. CASE InsertRefused(w)
    BY <2>2 DEF InsertRefused
  <2>3. CASE Save(w)
    BY <2>3 DEF Save
  <2>4. CASE Die(w)
    BY <2>4 DEF Die
  <2>5. CASE WorkerFails(w)
    BY <2>5 DEF WorkerFails
  <2> QED
    BY <2>1, <2>2, <2>3, <2>4, <2>5
<1>4. disturbances' \in 0 .. MaxDisturbances
  <2>1. disturbances \in 0 .. MaxDisturbances
    BY DEF InboundInv, TypeOK
  <2>2. disturbances' = disturbances \/ Disturb
    BY DEF OverQuota, InsertRefused, Save, Die, WorkerFails, historyVars
  <2> QED
    BY <2>1, <2>2, InboundAssumption DEF Disturb
<1>5. TypeOK' /\ ForwardingStops'
  BY <1>1, <1>2, <1>3, <1>4, LetGoType
<1> QED
  BY <1>1, <1>2, <1>5, LettingGo

LEMMA TotalNat ==
  ASSUME NEW H, Mails(H), NEW O, Mails(O), NEW mb
  PROVE  TotalOf(H, O, mb) \in Nat
<1> DEFINE x == SumOf(InSizes, Of(H, mb))
           y == SumOf(OutSizes, Of(O, mb))
<1>1. x \in Nat /\ y \in Nat
  BY OfType
<1>2. TotalOf(H, O, mb) = x + y
  BY DEF TotalOf
<1> HIDE DEF x, y
<1> QED
  BY <1>1, <1>2

LEMMA TotalIs ==
  ASSUME InboundInv
  PROVE  /\ Mails(held) /\ Mails(sent)
         /\ \A mb : Total(mb) = TotalOf(held, sent, mb) /\ Total(mb) \in Nat
<1>1. Mails(held) /\ Mails(sent)
  BY DEF InboundInv, TypeOK, FiniteMail, Mails
<1>2. ASSUME NEW mb
      PROVE  Total(mb) = TotalOf(held, sent, mb)
  BY <1>1, TotalSums DEF Total, Mails
<1> QED
  BY <1>1, <1>2, TotalNat

(* A mail that leaves, and the answers to it, are mails at no depth.       *)
LEMMA LeaveType ==
  ASSUME InboundInv, NEW r \in Composed, Leave(r)
  PROVE  /\ composing' \in [Composed -> {"new", "reading", "draft", "written"}]
         /\ queue' \subseteq Mail /\ \A x \in queue' : x.depth <= MaxForwardDepth
<1>1. TypeOK /\ ForwardingStops
  BY DEF InboundInv
<1>2. composing' \in [Composed -> {"new", "reading", "draft", "written"}]
  BY <1>1 DEF TypeOK, Leave
<1>3. ASSUME NEW x \in queue'
      PROVE  x \in Mail /\ x.depth <= MaxForwardDepth
  <2>1. CASE x \in queue
    BY <1>1, <2>1 DEF TypeOK, ForwardingStops
  <2>2. CASE x \notin queue
    <3>1. PICK q \in {r} \cup Answering(r) : x = RootMail(q)
      BY <2>2 DEF Leave
    <3>2. q \in Root
      BY <3>1 DEF Answering, Composed
    <3> QED
      BY <3>1, <3>2, RootMailType DEF MaxForwardDepth
  <2> QED
    BY <2>1, <2>2
<1> QED
  BY <1>2, <1>3

(* Outlive, Retry, ComposeFind, ComposeFails, PromoteDraft, Toggle and     *)
(* ReconcileRead.                                                          *)
LEMMA BesideKeeps ==
  ASSUME InboundInv,
         \/ \E w \in Worker : Outlive(w)
         \/ \E x \in failed : Retry(x)
         \/ \E r \in Composed : ComposeFind(r) \/ ComposeFails(r) \/ PromoteDraft(r)
         \/ \E mb \in Closable : Toggle(mb)
         \/ ReconcileRead
  PROVE  InboundInv'
<1>1. UNCHANGED <<mailVars, workVars, drifted>>
  BY DEF Outlive, Retry, ComposeFind, ComposeFails, PromoteDraft, Toggle, ReconcileRead, historyVars
<1>2. UNCHANGED <<held, sent, used, threads, pc, hand, target, reading, drifted>>
  BY <1>1 DEF mailVars, workVars
<1>3. TypeOK /\ ForwardingStops
  BY DEF InboundInv
<1>4. Disturb => disturbances' \in 0 .. MaxDisturbances
  BY <1>3, InboundAssumption DEF TypeOK, Disturb
<1>5. TypeOK' /\ ForwardingStops'
  <2>1. ASSUME NEW w \in Worker, Outlive(w)
        PROVE  TypeOK' /\ ForwardingStops'
    <3>1. hand[w] \in Mail /\ hand[w].depth <= MaxForwardDepth
      BY <2>1 DEF InboundInv, WorkersInOrder, Outlive
    <3>2. queue' = queue \cup {hand[w]} /\ failed' = failed /\ ignored' = ignored
      BY <2>1 DEF Outlive
    <3>3. ForwardingStops'
      BY <1>3, <3>1, <3>2 DEF ForwardingStops
    <3>4. Disturb /\ UNCHANGED <<open, composing, draft, totals, toFix>>
      BY <2>1 DEF Outlive, composeVars, sweepVars
    <3>5. TypeOK'
      BY <1>2, <1>3, <1>4, <3>1, <3>2, <3>4 DEF TypeOK
    <3> QED
      BY <3>3, <3>5
  <2>2. ASSUME NEW x \in failed, Retry(x)
        PROVE  TypeOK' /\ ForwardingStops'
    <3>1. UNCHANGED <<open, composing, draft, totals, toFix, disturbances>>
      BY <2>2 DEF Retry, composeVars, sweepVars, historyVars
    <3>2. failed' = failed \ {x} /\ queue' = queue \cup {x} /\ ignored' = ignored
      BY <2>2 DEF Retry
    <3>3. ForwardingStops'
      BY <1>3, <3>2 DEF ForwardingStops
    <3>4. TypeOK'
      BY <1>2, <1>3, <3>1, <3>2 DEF TypeOK
    <3> QED
      BY <3>3, <3>4
  <2>3. ASSUME NEW r \in Composed, ComposeFind(r) \/ ComposeFails(r)
        PROVE  TypeOK' /\ ForwardingStops'
    <3>1. UNCHANGED <<open, queue, failed, ignored, totals, toFix, disturbances>>
      BY <2>3 DEF ComposeFind, ComposeFails, rowVars, sweepVars, historyVars
    <3>2. composing' \in [Composed -> {"new", "reading", "draft", "written"}]
      BY <1>3, <2>3 DEF TypeOK, ComposeFind, ComposeFails
    <3>3. draft' \in [Composed -> Thread]
      <4>1. CASE ComposeFind(r)
        <5> DEFINE list == threads[Writer[r]]
                   found == Lookup(list, RefsOf(RootMail(r)), Subject[r])
        <5>1. list \in Seq(Conversation)
          BY <1>3, InboundAssumption DEF TypeOK, Composed
        <5>2. PICK thread \in found \cup {Copy(list, i) : i \in DOMAIN list} :
                draft' = [draft EXCEPT ![r] = thread]
          BY <4>1 DEF ComposeFind
        <5> HIDE DEF list
        <5>3. CASE thread \in found
          BY <1>3, <5>1, <5>2, <5>3, LookupType DEF TypeOK
        <5>4. CASE thread \in {Copy(list, i) : i \in DOMAIN list}
          <6>1. PICK i \in 1 .. Len(list) : thread = Copy(list, i) /\ list[i] \in Conversation
            BY <5>1, <5>4, RowsType
          <6>2. i \in Nat
            BY <5>1, RowsType
          <6>3. thread \in Thread
            BY <6>1, <6>2 DEF Copy, Thread, Conversation
          <6> QED
            BY <1>3, <5>2, <6>3 DEF TypeOK
        <5> QED
          BY <5>2, <5>3, <5>4
      <4>2. CASE ComposeFails(r)
        BY <1>3, <4>2 DEF TypeOK, ComposeFails, NoThread, Thread
      <4> QED
        BY <2>3, <4>1, <4>2
    <3>4. ForwardingStops'
      BY <1>3, <3>1 DEF ForwardingStops
    <3>5. TypeOK'
      BY <1>2, <1>3, <3>1, <3>2, <3>3 DEF TypeOK
    <3> QED
      BY <3>4, <3>5
  <2>4. ASSUME NEW mb \in Closable, Toggle(mb)
        PROVE  TypeOK' /\ ForwardingStops'
    <3>1. UNCHANGED <<queue, failed, ignored, composing, draft, totals, toFix>> /\ Disturb
      BY <2>4 DEF Toggle, rowVars, composeVars, sweepVars
    <3>2. open' \subseteq Mailbox
      BY <1>3, <2>4, InboundAssumption DEF Toggle, TypeOK
    <3>3. ForwardingStops'
      BY <1>3, <3>1 DEF ForwardingStops
    <3>4. TypeOK'
      BY <1>2, <1>3, <1>4, <3>1, <3>2 DEF TypeOK
    <3> QED
      BY <3>3, <3>4
  <2>5. ASSUME ReconcileRead
        PROVE  TypeOK' /\ ForwardingStops'
    <3>1. UNCHANGED <<open, queue, failed, ignored, composing, draft>> /\ Disturb
      BY <2>5 DEF ReconcileRead, rowVars, composeVars
    <3>2. totals' \in [Mailbox -> Nat] /\ toFix' \subseteq Mailbox
      BY <2>5, TotalIs DEF ReconcileRead
    <3>3. ForwardingStops'
      BY <1>3, <3>1 DEF ForwardingStops
    <3>4. TypeOK'
      BY <1>2, <1>3, <1>4, <3>1, <3>2 DEF TypeOK
    <3> QED
      BY <3>3, <3>4
  <2>6. ASSUME NEW r \in Composed, PromoteDraft(r)
        PROVE  TypeOK' /\ ForwardingStops'
    <3>1. UNCHANGED <<open, failed, ignored, draft, totals, toFix, disturbances>> /\ Leave(r)
      BY <2>6 DEF PromoteDraft, sweepVars, historyVars
    <3>2. /\ composing' \in [Composed -> {"new", "reading", "draft", "written"}]
          /\ queue' \subseteq Mail /\ \A x \in queue' : x.depth <= MaxForwardDepth
      BY <3>1, LeaveType
    <3>3. ForwardingStops'
      BY <1>3, <3>1, <3>2 DEF ForwardingStops
    <3>4. TypeOK'
      BY <1>2, <1>3, <3>1, <3>2 DEF TypeOK
    <3> QED
      BY <3>3, <3>4
  <2> QED
    BY <2>1, <2>2, <2>3, <2>4, <2>5, <2>6
<1> QED
  BY <1>1, <1>5, Beside

(* A mail that has been admitted stays so while others' mail comes and goes.*)
LEMMA StillAdmitted ==
  ASSUME InboundInv, NEW v \in Worker, pc[v] = "inside",
         hand'[v] = hand[v], target'[v] = target[v], reading'[v] = reading[v],
         \A h \in held' : h \in held \/ h[1] # hand[v],
         \A h \in sent' : h \in sent \/ h[2] # target[v],
         used'[target[v]] = used[target[v]],
         threads'[target[v]] = threads[target[v]]
  PROVE  (/\ ~ Refused(hand[v], target[v])
          /\ Fits(hand[v], target[v])
          /\ FreshlyRead(v))'
<1>1. /\ ~ Refused(hand[v], target[v]) /\ Fits(hand[v], target[v])
      /\ FreshlyRead(v)
  BY DEF InboundInv, Admitted
<1>2. (~ Refused(hand[v], target[v]))'
  <2>1. <<hand[v], target[v]>> \notin held' \cup sent'
    <3>1. <<hand[v], target[v]>>[1] = hand[v] /\ <<hand[v], target[v]>>[2] = target[v]
      OBVIOUS
    <3> QED
      BY <1>1, <3>1 DEF Refused
  <2>2. HasProviderId(hand[v]) => \A h \in held' : h[1] # hand[v]
    BY <1>1 DEF Refused
  <2> QED
    BY <2>1, <2>2 DEF Refused
<1>3. Fits(hand[v], target[v])'
  BY <1>1 DEF Fits
<1>4. FreshlyRead(v)'
  BY <1>1 DEF FreshlyRead
<1> QED
  BY <1>2, <1>3, <1>4

LEMMA ResolveType ==
  ASSUME NEW accepting \in SUBSET Mailbox, NEW recipients \in Seq(Address)
  PROVE  /\ Resolve(accepting, recipients) \in Mailbox \cup {NoMailbox}
         /\ \/ Resolve(accepting, recipients) \in {NoMailbox, CatchAll}
            \/ \E p \in ToSet(recipients) :
                 \/ AddressOf[Resolve(accepting, recipients)] = p
                 \/ p \in DOMAIN AliasOf /\ AliasOf[p] = Resolve(accepting, recipients)
<1> DEFINE mb == Resolve(accepting, recipients)
           I == {i \in 1 .. Len(recipients) : MailboxAt(accepting, recipients[i]) # NoMailbox}
<1>1. CASE I = {}
  <2>1. mb = IF CatchAll \in accepting THEN CatchAll ELSE NoMailbox
    BY <1>1, ResolveFirst
  <2> QED
    BY <2>1
<1>2. CASE I # {}
  <2>1. PICK i \in I : mb = MailboxAt(accepting, recipients[i])
    BY <1>2, ResolveFirst
  <2> DEFINE a == recipients[i]
  <2>2. /\ mb \in Mailbox \cup {NoMailbox} /\ mb # NoMailbox
        /\ IF \E b \in accepting : AddressOf[b] = a THEN AddressOf[mb] = a
           ELSE a \in DOMAIN AliasOf /\ mb = AliasOf[a]
    BY <2>1, MailboxAtType
  <2>3. a \in ToSet(recipients)
    BY LenProperties DEF ToSet
  <2> HIDE DEF mb, a
  <2>4. AddressOf[mb] = a \/ (a \in DOMAIN AliasOf /\ AliasOf[a] = mb)
    BY <2>2
  <2> QED
    BY <2>2, <2>3, <2>4 DEF mb
<1> QED
  BY <1>1, <1>2

LEMMA FindKeeps ==
  ASSUME InboundInv, NEW w \in Worker, NEW x \in queue, Find(w, x)
  PROVE  InboundInv'
<1> DEFINE mb == Resolve(open, x.to)
<1>1. TypeOK /\ ForwardingStops
  BY DEF InboundInv
<1>2. x \in Mail /\ x.depth <= MaxForwardDepth /\ x.to \in Seq(Address) /\ open \in SUBSET Mailbox
  BY <1>1 DEF TypeOK, ForwardingStops, Mail
<1>3. /\ mb \in Mailbox \cup {NoMailbox}
      /\ mb \in {NoMailbox, CatchAll}
           \/ \E p \in ToSet(x.to) : AddressOf[mb] = p \/ (p \in DOMAIN AliasOf /\ AliasOf[p] = mb)
  BY <1>2, ResolveType
<1> HIDE DEF mb
<1>4. /\ pc' = [pc EXCEPT ![w] = IF mb = NoMailbox THEN "save"
                                 ELSE IF Existing(x, mb) THEN "save" ELSE "found"]
      /\ hand' = [hand EXCEPT ![w] = x]
      /\ target' = [target EXCEPT ![w] = mb]
      /\ queue' = queue \ {x}
  BY DEF Find, mb
<1>5. UNCHANGED <<open, failed, ignored, held, sent, used, threads, reading, composing, draft,
                  totals, toFix, drifted, disturbances>>
  BY DEF Find, mailVars, composeVars, sweepVars, historyVars
<1>6. /\ pc'[w] \in {"save", "found"} /\ (pc'[w] = "found" => mb # NoMailbox)
      /\ hand'[w] = x /\ target'[w] = mb
      /\ \A v \in Worker \ {w} : pc'[v] = pc[v] /\ hand'[v] = hand[v] /\ target'[v] = target[v]
  BY <1>1, <1>4 DEF TypeOK
<1>7. TypeOK'
  <2>1. /\ pc' \in [Worker -> {"idle", "found", "inside", "save"}]
        /\ hand' \in [Worker -> Mail \cup {NoMail}]
        /\ target' \in [Worker -> Mailbox \cup {NoMailbox}]
    BY <1>1, <1>2, <1>3, <1>4 DEF TypeOK
  <2> QED
    BY <1>1, <1>4, <1>5, <2>1 DEF TypeOK
<1>8. ForwardingStops'
  BY <1>1, <1>4, <1>5 DEF ForwardingStops
<1>9. WorkersInOrder'
  BY <1>2, <1>3, <1>6 DEF InboundInv, WorkersInOrder
<1>10. OneInside'
  <2>1. OneInside
    BY DEF InboundInv
  <2> QED
    BY <1>6, <2>1 DEF OneInside
<1>11. Admitted'
  <2> SUFFICES ASSUME NEW v \in Worker, pc'[v] = "inside"
               PROVE  (/\ ~ Refused(hand[v], target[v])
                       /\ Fits(hand[v], target[v])
                       /\ FreshlyRead(v))'
    BY DEF Admitted
  <2>1. v # w /\ pc[v] = "inside" /\ hand'[v] = hand[v] /\ target'[v] = target[v]
    BY <1>6
  <2> QED
    BY <1>5, <2>1, StillAdmitted
<1>12. TargetsAddressed'
  <2>1. TargetsAddressed
    BY DEF InboundInv
  <2> SUFFICES ASSUME NEW v \in Worker
               PROVE  target'[v] \in {NoMailbox, CatchAll}
                        \/ \E p \in ToSet(hand'[v].to) :
                             AddressOf[target'[v]] = p \/ (p \in DOMAIN AliasOf /\ AliasOf[p] = target'[v])
    BY DEF TargetsAddressed
  <2>2. CASE v = w
    BY <1>3, <1>6, <2>2
  <2>3. CASE v # w
    BY <1>6, <2>1, <2>3 DEF TargetsAddressed
  <2> QED
    BY <2>2, <2>3
<1>13. FiniteMail' /\ ForwardedAsRuled' /\ UsedCounted'
  BY <1>5 DEF InboundInv, FiniteMail, ForwardedAsRuled, UsedCounted
<1> QED
  BY <1>7, <1>8, <1>9, <1>10, <1>11, <1>12, <1>13 DEF InboundInv

(* The worker that takes the row finds nobody with the row and nobody with *)
(* the mail.                                                               *)
LEMMA EnterKeeps ==
  ASSUME InboundInv, NEW w \in Worker, Enter(w)
  PROVE  InboundInv'
<1>1. TypeOK /\ ForwardingStops /\ OneInside
  BY DEF InboundInv
<1>2. hand[w] \in Mail /\ target[w] \in Mailbox /\ threads[target[w]] \in Seq(Conversation)
  BY <1>1 DEF InboundInv, WorkersInOrder, Enter, TypeOK
<1>3. PICK thread \in Lookup(threads[target[w]], RefsOf(hand[w]), Subject[hand[w].root]) :
        reading' = [reading EXCEPT ![w] = thread]
  BY DEF Enter
<1>4. thread \in Thread
  BY <1>2, LookupType
<1>5. /\ pc[w] = "found" /\ pc' = [pc EXCEPT ![w] = "inside"]
      /\ ~ Refused(hand[w], target[w]) /\ Fits(hand[w], target[w])
      /\ \A v \in Worker : pc[v] = "inside" => target[v] # target[w] /\ hand[v] # hand[w]
  BY DEF Enter, Holder, Inserting
<1>6. UNCHANGED <<open, queue, failed, ignored, held, sent, used, threads, hand, target,
                  composing, draft, totals, toFix, drifted, disturbances>>
  BY DEF Enter, rowVars, mailVars, composeVars, sweepVars, historyVars
<1>7. /\ pc'[w] = "inside" /\ reading'[w] = thread
      /\ \A v \in Worker \ {w} : pc'[v] = pc[v] /\ reading'[v] = reading[v]
  BY <1>1, <1>3, <1>5 DEF TypeOK
<1>8. TypeOK'
  <2>1. pc' \in [Worker -> {"idle", "found", "inside", "save"}] /\ reading' \in [Worker -> Thread]
    BY <1>1, <1>3, <1>4, <1>5 DEF TypeOK
  <2> QED
    BY <1>1, <1>6, <2>1 DEF TypeOK
<1>9. ForwardingStops'
  BY <1>1, <1>6 DEF ForwardingStops
<1>10. WorkersInOrder'
  BY <1>5, <1>6, <1>7 DEF InboundInv, WorkersInOrder
<1>11. OneInside'
  BY <1>1, <1>5, <1>6, <1>7 DEF OneInside
<1>12. Admitted'
  <2> SUFFICES ASSUME NEW v \in Worker, pc'[v] = "inside"
               PROVE  (/\ ~ Refused(hand[v], target[v])
                       /\ Fits(hand[v], target[v])
                       /\ FreshlyRead(v))'
    BY DEF Admitted
  <2>1. CASE v = w
    <3>1. (~ Refused(hand[v], target[v]))'
      BY <1>5, <1>6, <2>1 DEF Refused
    <3>2. Fits(hand[v], target[v])'
      BY <1>5, <1>6, <2>1 DEF Fits
    <3>3. FreshlyRead(v)'
      BY <1>3, <1>6, <1>7, <2>1 DEF FreshlyRead
    <3> QED
      BY <3>1, <3>2, <3>3
  <2>2. CASE v # w
    <3>1. pc[v] = "inside" /\ reading'[v] = reading[v]
      BY <1>7, <2>2
    <3> QED
      BY <1>6, <3>1, StillAdmitted
  <2> QED
    BY <2>1, <2>2
<1>13. TargetsAddressed'
  BY <1>6 DEF InboundInv, TargetsAddressed
<1>14. FiniteMail' /\ ForwardedAsRuled' /\ UsedCounted'
  BY <1>6 DEF InboundInv, FiniteMail, ForwardedAsRuled, UsedCounted
<1> QED
  BY <1>8, <1>9, <1>10, <1>11, <1>12, <1>13, <1>14 DEF InboundInv

(* The inbound transaction lets the list of threads grow, and puts the     *)
(* mail where a lookup at this moment would find its thread.               *)
LEMMA CommitFiles ==
  ASSUME InboundInv, NEW w \in Worker, Commit(w)
  PROVE  LET x == hand[w]
             mb == target[w]
             list == threads[mb]
             now == threads'[mb]
             match == Matching(list, RefsOf(x), Subject[x.root])
         IN
           /\ mb \in Mailbox /\ list \in Seq(Conversation)
           /\ threads' \in [Mailbox -> Seq(Conversation)]
           /\ \A p \in Mailbox \ {mb} : threads'[p] = threads[p]
           /\ Grows(list, now)
           /\ \E i \in 1 .. Len(now) : /\ x \in now[i].joined \cap now[i].known
                                       /\ match # {} => i \in match
<1> DEFINE x == hand[w]
           mb == target[w]
           list == threads[mb]
           match == Matching(list, RefsOf(x), Subject[x.root])
           copies == {c \in Copies(x, mb) : <<c, mb>> \notin sent}
           mine == File(list, reading[w], x, {x}, Subject[x.root])
<1>1. TypeOK /\ pc[w] = "inside"
  BY DEF InboundInv, Commit
<1>2. x \in Mail /\ x.depth <= MaxForwardDepth /\ mb \in Mailbox
  BY <1>1 DEF InboundInv, WorkersInOrder
<1>3. x.root \in Root /\ list \in Seq(Conversation)
  BY <1>1, <1>2 DEF Mail, TypeOK
<1>4. reading[w] \in Lookup(list, RefsOf(x), Subject[x.root])
  BY <1>1 DEF InboundInv, Admitted, FreshlyRead
<1>5. copies \in SUBSET Mail /\ IsFiniteSet(copies)
  <2>1. IsFiniteSet(Copies(x, mb)) /\ \A c \in Copies(x, mb) : c \in Mail
    BY <1>2, CopiesType
  <2> QED
    BY <2>1, FS_Subset
<1>6. PICK now \in FileCopies(mine, copies, Subject[x.root]) : threads' = [threads EXCEPT ![mb] = now]
  BY DEF Commit
<1> HIDE DEF x, mb, copies, mine
<1>7. /\ mine \in Seq(Conversation) /\ Grows(list, mine)
      /\ \E i \in 1 .. Len(mine) : {x} \subseteq mine[i].joined \cap mine[i].known
                                     /\ (match # {} => i \in match)
  BY <1>2, <1>3, <1>4, FileGrows DEF mine
<1> HIDE DEF match
<1>8. now \in Seq(Conversation) /\ Grows(mine, now)
  BY <1>3, <1>5, <1>6, <1>7, CopiesFiled
<1> HIDE DEF list
<1>9. Grows(list, now)
  BY <1>3, <1>7, <1>8, GrowsOn
<1>10. \E i \in 1 .. Len(now) : x \in now[i].joined \cap now[i].known /\ (match # {} => i \in match)
  <2>1. PICK i \in 1 .. Len(mine) : x \in mine[i].joined \cap mine[i].known /\ (match # {} => i \in match)
    BY <1>7
  <2>2. i \in 1 .. Len(now)
    BY <1>7, <1>8, <2>1, RowsType DEF Grows
  <2>3. mine[i].joined \subseteq now[i].joined /\ mine[i].known \subseteq now[i].known
    BY <1>8, <2>1 DEF Grows
  <2> QED
    BY <2>1, <2>2, <2>3
<1>11. /\ threads' \in [Mailbox -> Seq(Conversation)] /\ threads'[mb] = now
       /\ \A p \in Mailbox \ {mb} : threads'[p] = threads[p]
  BY <1>1, <1>2, <1>6, <1>8 DEF TypeOK
<1> QED
  BY <1>2, <1>3, <1>9, <1>10, <1>11 DEF x, mb, list, match

LEMMA CommitKeeps ==
  ASSUME InboundInv, NEW w \in Worker, Commit(w)
  PROVE  InboundInv'
<1> DEFINE x == hand[w]
           mb == target[w]
           h == <<x, mb>>
           copies == {c \in Copies(x, mb) : <<c, mb>> \notin sent}
           U == {<<c, mb>> : c \in copies}
<1>1. TypeOK /\ ForwardingStops /\ OneInside /\ Mails(held) /\ Mails(sent)
  BY TotalIs DEF InboundInv
<1>2. pc[w] = "inside"
  BY DEF Commit
<1>3. x \in Mail /\ x.depth <= MaxForwardDepth /\ mb \in Mailbox
  BY <1>2 DEF InboundInv, WorkersInOrder
<1>4. /\ h \notin held
      /\ \A v \in Worker : v # w /\ pc[v] = "inside" => target[v] # mb /\ hand[v] # x
  <2>1. ~ Refused(x, mb)
    BY <1>2 DEF InboundInv, Admitted
  <2> QED
    BY <1>1, <1>2, <2>1 DEF Refused, OneInside
<1>5. /\ IsFiniteSet(copies)
      /\ \A c \in copies : /\ c \in Mail /\ c.root = x.root /\ c.depth <= MaxForwardDepth
                           /\ c.depth > 0 /\ ToSet(c.to) \subseteq ForwardsTo(mb)
  <2>1. /\ IsFiniteSet(Copies(x, mb))
        /\ \A c \in Copies(x, mb) :
             /\ c \in Mail /\ c.root = x.root /\ x.depth < MaxForwardDepth /\ c.depth = x.depth + 1
             /\ ToSet(c.to) \subseteq ForwardsTo(mb)
    BY <1>3, CopiesType
  <2>2. x.depth \in Nat
    BY <1>3 DEF Mail
  <2>3. IsFiniteSet(copies)
    BY <2>1, FS_Subset
  <2> QED
    BY <2>1, <2>2, <2>3 DEF MaxForwardDepth
<1>5a. \A k \in U : k[2] = mb /\ k[1] \in copies /\ k = <<k[1], mb>>
  <2> HIDE DEF copies, mb
  <2> QED
    OBVIOUS
<1>6. Mails(U) /\ h \in Mail \X Mailbox
  <2> DEFINE f == [c \in copies |-> <<c, mb>>]
  <2>1. f \in Surjection(copies, U)
    BY DEF Surjection
  <2>2. IsFiniteSet(U)
    <3> HIDE DEF f, copies, U
    <3> QED
      BY <1>5, <2>1, FS_Surjection
  <2>3. \A k \in U : k \in Mail \X Mailbox
    <3> HIDE DEF copies, U, mb
    <3>1. \A k \in U : k[1] \in Mail
      BY <1>5, <1>5a
    <3>2. \A y \in Mail : <<y, mb>> \in Mail \X Mailbox
      BY <1>3
    <3> QED
      BY <1>5a, <3>1, <3>2
  <2>4. h \in Mail \X Mailbox
    BY <1>3
  <2> HIDE DEF U, h
  <2> QED
    BY <2>2, <2>3, <2>4 DEF Mails
<1>7. /\ held' = held \cup {h} /\ sent' = sent \cup U /\ queue' = queue \cup copies
      /\ used' = [used EXCEPT ![mb] = @ + Size(x)]
      /\ drifted' = IF \E c \in copies : OutboundSize(c) > 0 THEN drifted \cup {mb} ELSE drifted
      /\ pc' = [pc EXCEPT ![w] = "save"]
      /\ reading' = [reading EXCEPT ![w] = NoThread]
  BY DEF Commit
<1>8. UNCHANGED <<open, failed, ignored, hand, target, composing, draft, totals, toFix,
                  disturbances>>
  BY DEF Commit, composeVars, sweepVars
<1>9. /\ pc'[w] = "save"
      /\ \A v \in Worker \ {w} : pc'[v] = pc[v] /\ reading'[v] = reading[v]
  BY <1>1, <1>7 DEF TypeOK
<1> HIDE DEF x, mb
<1>10. /\ Mails(held') /\ Mails(sent')
       /\ \A p \in Mailbox \ {mb} : TotalOf(held', sent', p) = TotalOf(held, sent, p)
       /\ (\A c \in copies : OutboundSize(c) = 0) =>
            /\ TotalOf(held', sent', mb) = TotalOf(held, sent, mb) + Size(x)
  <2> HIDE DEF copies
  <2>1. h[1] = x /\ h[2] = mb
    OBVIOUS
  <2>2. /\ Mails(held \cup {h})
        /\ TotalOf(held \cup {h}, sent, mb) = TotalOf(held, sent, mb) + Size(x)
        /\ \A p : p # mb => TotalOf(held \cup {h}, sent, p) = TotalOf(held, sent, p)
    <3> HIDE DEF h
    <3> QED
      BY <1>1, <1>4, <1>6, <2>1, ReceivedCounts
  <2>3. Mails(sent')
    BY <1>1, <1>6, <1>7, FS_Union DEF Mails
  <2>4. \A p \in Mailbox \ {mb} : Of(sent', p) = Of(sent, p)
    BY <1>7 DEF Of
  <2>5. ASSUME \A c \in copies : OutboundSize(c) = 0
        PROVE  TotalOf(held', sent \cup U, mb) = TotalOf(held', sent, mb)
    <3>1. \A u \in U : OutboundSize(u[1]) = 0
      BY <2>5
    <3>2. Mails(held')
      BY <1>7, <2>2
    <3> HIDE DEF U
    <3> QED
      BY <1>1, <1>6, <3>1, <3>2, BareCopiesCountNot
  <2> HIDE DEF h, U
  <2> QED
    BY <1>7, <2>2, <2>3, <2>4, <2>5 DEF TotalOf
<1>11. UsedCounted'
  <2>1. UsedCounted
    BY DEF InboundInv
  <2>2. drifted \subseteq drifted'
    BY <1>7
  <2>3. \A p \in Mailbox \ {mb} : used'[p] = used[p]
    BY <1>1, <1>7 DEF TypeOK
  <2>4. used'[mb] = used[mb] + Size(x)
    BY <1>1, <1>3, <1>7 DEF TypeOK
  <2>5. mb \notin drifted' => \A c \in copies : OutboundSize(c) = 0
    <3>1. mb \notin drifted' => \A c \in copies : ~ (OutboundSize(c) > 0)
      BY <1>7
    <3>2. \A c \in copies : OutboundSize(c) \in Nat
      BY <1>5, SizesType
    <3> QED
      BY <3>1, <3>2
  <2> SUFFICES ASSUME NEW p \in Mailbox \ drifted'
               PROVE  used'[p] = TotalOf(held', sent', p)
    BY DEF UsedCounted
  <2>6. used[p] = TotalOf(held, sent, p)
    BY <2>1, <2>2 DEF UsedCounted
  <2>7. CASE p = mb
    <3>1. TotalOf(held', sent', mb) = TotalOf(held, sent, mb) + Size(x)
      BY <1>10, <2>5, <2>7
    <3> QED
      BY <2>4, <2>6, <2>7, <3>1
  <2>8. CASE p # mb
    BY <1>10, <2>3, <2>6, <2>8
  <2> QED
    BY <2>7, <2>8
<1>12. /\ threads' \in [Mailbox -> Seq(Conversation)]
       /\ \A p \in Mailbox \ {mb} : threads'[p] = threads[p]
  BY CommitFiles DEF mb
<1>13. TypeOK'
  <2>1. used' \in [Mailbox -> Nat]
    <3>1. used[mb] + Size(x) \in Nat
      BY <1>1, <1>3, SizesType DEF TypeOK
    <3> HIDE DEF h, U, copies
    <3> QED
      BY <1>1, <1>7, <3>1 DEF TypeOK
  <2>2. pc' \in [Worker -> {"idle", "found", "inside", "save"}]
    BY <1>1, <1>7 DEF TypeOK
  <2>3. reading' \in [Worker -> Thread]
    BY <1>1, <1>7 DEF TypeOK, NoThread, Thread
  <2>4. drifted' \subseteq Mailbox
    BY <1>1, <1>3, <1>7 DEF TypeOK
  <2>5. held' \subseteq Mail \X Mailbox /\ sent' \subseteq Mail \X Mailbox
    BY <1>10 DEF Mails
  <2>6. queue' \cup failed' \cup ignored' \subseteq Mail
    BY <1>1, <1>5, <1>7, <1>8 DEF TypeOK
  <2> QED
    BY <1>1, <1>8, <1>12, <2>1, <2>2, <2>3, <2>4, <2>5, <2>6 DEF TypeOK
<1>14. ForwardingStops'
  BY <1>1, <1>5, <1>7, <1>8 DEF ForwardingStops
<1>15. WorkersInOrder'
  BY <1>2, <1>8, <1>9 DEF InboundInv, WorkersInOrder
<1>16. OneInside'
  BY <1>1, <1>8, <1>9 DEF OneInside
<1>17. Admitted'
  <2> SUFFICES ASSUME NEW v \in Worker, pc'[v] = "inside"
               PROVE  (/\ ~ Refused(hand[v], target[v])
                       /\ Fits(hand[v], target[v])
                       /\ FreshlyRead(v))'
    BY DEF Admitted
  <2>1. /\ v # w /\ pc[v] = "inside" /\ reading'[v] = reading[v]
        /\ hand'[v] = hand[v] /\ target'[v] = target[v]
    BY <1>8, <1>9
  <2>2. target[v] # mb /\ hand[v] # x
    BY <1>4, <2>1
  <2>3. \A k \in held' : k \in held \/ k[1] # hand[v]
    BY <1>7, <2>2
  <2>4. \A k \in sent' : k \in sent \/ k[2] # target[v]
    <3> HIDE DEF U
    <3> QED
      BY <1>5a, <1>7, <2>2
  <2>5. used'[target[v]] = used[target[v]]
    BY <1>1, <1>7, <2>2 DEF TypeOK
  <2>6. threads'[target[v]] = threads[target[v]]
    <3>1. target[v] \in Mailbox
      BY <2>1 DEF InboundInv, WorkersInOrder
    <3> QED
      BY <1>12, <2>2, <3>1
  <2> QED
    BY <2>1, <2>3, <2>4, <2>5, <2>6, StillAdmitted
<1>18. FiniteMail'
  BY <1>10 DEF FiniteMail, Mails
<1>19. TargetsAddressed'
  BY <1>8 DEF InboundInv, TargetsAddressed
<1>20. ForwardedAsRuled'
  <2>1. ForwardedAsRuled
    BY DEF InboundInv
  <2> SUFFICES ASSUME NEW k \in sent', k[1].depth > 0
               PROVE  ToSet(k[1].to) \subseteq ForwardsTo(k[2])
    BY DEF ForwardedAsRuled, ForwardsTo
  <2>2. CASE k \in sent
    BY <2>1, <2>2 DEF ForwardedAsRuled, ForwardsTo
  <2>3. CASE k \in U
    BY <1>5, <1>5a, <2>3
  <2> QED
    BY <1>7, <2>2, <2>3
<1> QED
  BY <1>11, <1>13, <1>14, <1>15, <1>16, <1>17, <1>18, <1>19, <1>20 DEF InboundInv

(* An outbound message is stored, while no worker holds its mailbox's row. *)
LEMMA OutboundKeeps ==
  ASSUME InboundInv, NEW r \in Composed, StoreOutbound(r), Holder(Writer[r]) = {},
         NEW list \in Seq(Conversation), threads' = [threads EXCEPT ![Writer[r]] = list],
         queue' \subseteq Mail, \A q \in queue' : q.depth <= MaxForwardDepth,
         composing' \in [Composed -> {"new", "reading", "draft", "written"}],
         draft' \in [Composed -> Thread],
         UNCHANGED <<open, failed, ignored, held, used, workVars, sweepVars, disturbances>>
  PROVE  InboundInv'
<1> DEFINE x == RootMail(r)
           mb == Writer[r]
           h == <<x, mb>>
<1>1. TypeOK /\ ForwardingStops /\ Mails(held) /\ Mails(sent)
  BY TotalIs DEF InboundInv
<1>2. x \in Mail /\ x.depth = 0 /\ mb \in Mailbox
  <2>1. r \in Root /\ mb \in Mailbox
    BY InboundAssumption DEF Composed
  <2> QED
    BY <2>1, RootMailType
<1>3. /\ sent' = sent \cup {h}
      /\ drifted' = IF OutboundSize(x) > 0 THEN drifted \cup {mb} ELSE drifted
      /\ \A v \in Worker : pc[v] = "inside" => target[v] # mb
  BY DEF StoreOutbound, Holder
<1>4. UNCHANGED <<open, failed, ignored, held, used, pc, hand, target, reading, totals, toFix,
                  disturbances>>
  BY DEF workVars, sweepVars
<1>5. /\ threads' \in [Mailbox -> Seq(Conversation)]
      /\ \A p \in Mailbox \ {mb} : threads'[p] = threads[p]
  BY <1>1 DEF TypeOK
<1> HIDE DEF x, mb
<1>6. h \in Mail \X Mailbox /\ h[1] = x /\ h[2] = mb
  BY <1>2
<1>8. Mails(sent')
  <2>1. IsFiniteSet(sent \cup {h})
    BY <1>1, FS_AddElement DEF Mails
  <2>2. sent \cup {h} \subseteq Mail \X Mailbox
    BY <1>1, <1>6 DEF Mails
  <2> HIDE DEF h
  <2> QED
    BY <1>3, <2>1, <2>2 DEF Mails
<1>9. UsedCounted'
  <2> SUFFICES ASSUME NEW p \in Mailbox \ drifted'
               PROVE  used[p] = TotalOf(held, sent', p)
    BY <1>4 DEF UsedCounted
  <2>1. used[p] = TotalOf(held, sent, p)
    <3>1. p \notin drifted
      BY <1>3
    <3> QED
      BY <3>1 DEF InboundInv, UsedCounted
  <2>2. CASE p = mb
    <3>1. OutboundSize(x) = 0
      <4>1. ~ (OutboundSize(x) > 0) /\ OutboundSize(x) \in Nat
        BY <1>2, <1>3, <2>2, SizesType
      <4> QED
        BY <4>1
    <3>2. Mails({h}) /\ \A k \in {h} : OutboundSize(k[1]) = 0
      <4>1. IsFiniteSet({h})
        BY FS_Singleton
      <4> HIDE DEF h
      <4> QED
        BY <1>6, <3>1, <4>1 DEF Mails
    <3> HIDE DEF h
    <3> QED
      BY <1>1, <1>3, <2>1, <3>2, BareCopiesCountNot
  <2>3. CASE p # mb
    <3>1. Of(sent', p) = Of(sent, p)
      BY <1>3, <1>6, <2>3 DEF Of
    <3> QED
      BY <2>1, <3>1 DEF TotalOf
  <2> QED
    BY <2>2, <2>3
<1>10. TypeOK'
  <2>1. drifted' \subseteq Mailbox
    BY <1>1, <1>2, <1>3 DEF TypeOK
  <2>2. sent' \subseteq Mail \X Mailbox
    BY <1>8 DEF Mails
  <2> QED
    BY <1>1, <1>4, <1>5, <2>1, <2>2 DEF TypeOK
<1>11. ForwardingStops'
  BY <1>1, <1>4 DEF ForwardingStops
<1>12. WorkersInOrder' /\ OneInside' /\ TargetsAddressed'
  BY <1>4 DEF InboundInv, WorkersInOrder, OneInside, TargetsAddressed
<1>13. Admitted'
  <2> SUFFICES ASSUME NEW v \in Worker, pc'[v] = "inside"
               PROVE  (/\ ~ Refused(hand[v], target[v])
                       /\ Fits(hand[v], target[v])
                       /\ FreshlyRead(v))'
    BY DEF Admitted
  <2>1. pc[v] = "inside" /\ target[v] # mb /\ target[v] \in Mailbox
    BY <1>3, <1>4 DEF InboundInv, WorkersInOrder
  <2>2. \A k \in sent' : k \in sent \/ k[2] # target[v]
    BY <1>3, <1>6, <2>1
  <2> QED
    BY <1>4, <1>5, <2>1, <2>2, StillAdmitted
<1>14. FiniteMail'
  BY <1>1, <1>4, <1>8 DEF FiniteMail, Mails
<1>15. ForwardedAsRuled'
  <2>1. \A k \in sent' : k[1].depth > 0 => k \in sent
    BY <1>2, <1>3, <1>6
  <2> QED
    BY <2>1 DEF InboundInv, ForwardedAsRuled
<1> QED
  BY <1>9, <1>10, <1>11, <1>12, <1>13, <1>14, <1>15 DEF InboundInv

(* The commit of a composed message.                                       *)
LEMMA ComposeKeeps ==
  ASSUME InboundInv, NEW r \in Composed, ComposeCommit(r)
  PROVE  InboundInv'
<1> DEFINE x == RootMail(r)
           mb == Writer[r]
           list == File(threads[mb], draft[r], x, {x}, Subject[r])
<1>1. /\ StoreOutbound(r) /\ Leave(r) /\ Holder(mb) = {}
      /\ draft' = [draft EXCEPT ![r] = NoThread]
      /\ threads' = [threads EXCEPT ![mb] = list]
      /\ UNCHANGED <<open, failed, ignored, held, used, workVars, sweepVars, disturbances>>
  BY DEF ComposeCommit
<1>2. TypeOK /\ r \in Root /\ mb \in Mailbox
  BY InboundAssumption DEF InboundInv, Composed
<1>3. x \in Mail /\ draft[r] \in Thread /\ threads[mb] \in Seq(Conversation)
  BY <1>2, RootMailType DEF TypeOK
<1>4. list \in Seq(Conversation)
  <2>1. {x} \in SUBSET Mail
    BY <1>3
  <2> HIDE DEF x, mb
  <2>2. CASE draft[r].place = 0
    BY <1>2, <1>3, <2>1, <2>2, FileOpens DEF Opens
  <2>3. CASE draft[r].place # 0
    BY <1>2, <1>3, <2>1, <2>3, FileJoins DEF Joins
  <2> QED
    BY <2>2, <2>3
<1>5. draft' \in [Composed -> Thread]
  BY <1>1, <1>2 DEF TypeOK, NoThread, Thread
<1> HIDE DEF list
<1> QED
  BY <1>1, <1>4, <1>5, LeaveType, OutboundKeeps

(* A draft is stored, and does not leave.                                  *)
LEMMA DraftKeeps ==
  ASSUME InboundInv, NEW r \in Composed, CreateDraft(r)
  PROVE  InboundInv'
<1> DEFINE x == RootMail(r)
           mb == Writer[r]
<1>1. /\ StoreOutbound(r) /\ Holder(mb) = {}
      /\ composing' = [composing EXCEPT ![r] = "draft"]
      /\ UNCHANGED <<open, queue, failed, ignored, held, used, workVars, draft, sweepVars, disturbances>>
  BY DEF CreateDraft, rowVars
<1>2. TypeOK /\ ForwardingStops /\ r \in Root /\ mb \in Mailbox
  BY InboundAssumption DEF InboundInv, Composed
<1>3. x \in Mail /\ threads[mb] \in Seq(Conversation)
  BY <1>2, RootMailType DEF TypeOK
<1>4. \E list \in Seq(Conversation) : threads' = [threads EXCEPT ![mb] = list]
  <2>1. DOMAIN threads[mb] = 1 .. Len(threads[mb])
    BY <1>3, RowsType
  <2>2. \/ threads' = [threads EXCEPT ![mb] = FileDraft(threads[mb], x, Subject[r])]
        \/ \E i \in 1 .. Len(threads[mb]) : threads' = [threads EXCEPT ![mb] = FileDraftAt(threads[mb], i, x)]
    BY <2>1 DEF CreateDraft
  <2> HIDE DEF x, mb
  <2> QED
    BY <1>2, <1>3, <2>2, DraftAndUnfileType
<1>5. /\ composing' \in [Composed -> {"new", "reading", "draft", "written"}]
      /\ draft' \in [Composed -> Thread]
      /\ queue' \subseteq Mail /\ \A q \in queue' : q.depth <= MaxForwardDepth
  BY <1>1, <1>2 DEF TypeOK, ForwardingStops
<1> QED
  BY <1>1, <1>4, <1>5, OutboundKeeps

(* Removing a mail takes its bytes off the sum, which are all in it.       *)
LEMMA DeleteKeeps ==
  ASSUME InboundInv, NEW h \in held \cup sent, Delete(h)
  PROVE  InboundInv'
<1> DEFINE mb == h[2]
<1>1. TypeOK /\ ForwardingStops /\ Mails(held) /\ Mails(sent)
  BY TotalIs DEF InboundInv
<1>2. h \in Mail \X Mailbox /\ h[1] \in Mail /\ mb \in Mailbox
  BY <1>1 DEF Mails
<1>3. /\ Disturb
      /\ \A v \in Worker : pc[v] = "inside" => target[v] # mb
      /\ \/ /\ h \in held /\ held' = held \ {h} /\ sent' = sent
            /\ used' = [used EXCEPT ![mb] = IF @ >= Size(h[1]) THEN @ - Size(h[1]) ELSE 0]
         \/ /\ h \in sent /\ sent' = sent \ {h} /\ held' = held
            /\ used' = [used EXCEPT ![mb] = IF @ >= OutboundSize(h[1]) THEN @ - OutboundSize(h[1]) ELSE 0]
  BY DEF Delete, DecrementUsed, Holder
<1>3a. /\ threads' \in [Mailbox -> Seq(Conversation)]
       /\ \A p \in Mailbox \ {mb} : threads'[p] = threads[p]
  <2>1. threads' = [threads EXCEPT ![mb] = Unfile(threads[mb], h[1])]
    BY DEF Delete
  <2>2. h[1].root \in Root /\ threads[mb] \in Seq(Conversation)
    BY <1>1, <1>2 DEF Mail, TypeOK
  <2>3. Unfile(threads[mb], h[1]) \in Seq(Conversation)
    BY <1>2, <2>2, DraftAndUnfileType
  <2> QED
    BY <1>1, <2>1, <2>3 DEF TypeOK
<1>4. UNCHANGED <<open, queue, failed, ignored, pc, hand, target, reading, composing, draft,
                  totals, toFix, drifted>>
  BY DEF Delete, rowVars, workVars, composeVars, sweepVars
<1>5. PICK size \in Nat :
        /\ used' = [used EXCEPT ![mb] = IF @ >= size THEN @ - size ELSE 0]
        /\ TotalOf(held, sent, mb) = TotalOf(held', sent', mb) + size
        /\ TotalOf(held', sent', mb) \in Nat
        /\ \A p : p # mb => TotalOf(held, sent, p) = TotalOf(held', sent', p)
        /\ Mails(held') /\ Mails(sent')
        /\ held' \subseteq held /\ sent' \subseteq sent
  <2> HIDE DEF mb
  <2>1. CASE /\ h \in held /\ held' = held \ {h} /\ sent' = sent
             /\ used' = [used EXCEPT ![mb] = IF @ >= Size(h[1]) THEN @ - Size(h[1]) ELSE 0]
    <3>1. Mails(held') /\ held = held' \cup {h} /\ h \notin held'
      BY <1>1, <2>1, FS_Subset DEF Mails
    <3>2. /\ TotalOf(held', sent, h[2]) \in Nat
          /\ TotalOf(held' \cup {h}, sent, h[2]) = TotalOf(held', sent, h[2]) + Size(h[1])
          /\ \A p : p # h[2] => TotalOf(held' \cup {h}, sent, p) = TotalOf(held', sent, p)
      BY <1>1, <1>2, <3>1, ReceivedCounts
    <3>3. Size(h[1]) \in Nat
      BY <1>2, SizesType
    <3> QED
      BY <1>1, <2>1, <3>1, <3>2, <3>3 DEF mb
  <2>2. CASE /\ h \in sent /\ sent' = sent \ {h} /\ held' = held
             /\ used' = [used EXCEPT ![mb] = IF @ >= OutboundSize(h[1]) THEN @ - OutboundSize(h[1]) ELSE 0]
    <3>1. Mails(sent') /\ sent = sent' \cup {h} /\ h \notin sent'
      BY <1>1, <2>2, FS_Subset DEF Mails
    <3>2. /\ TotalOf(held, sent', h[2]) \in Nat
          /\ TotalOf(held, sent' \cup {h}, h[2]) = TotalOf(held, sent', h[2]) + OutboundSize(h[1])
          /\ \A p : p # h[2] => TotalOf(held, sent' \cup {h}, p) = TotalOf(held, sent', p)
      BY <1>1, <1>2, <3>1, SentCounts
    <3>3. OutboundSize(h[1]) \in Nat
      BY <1>2, SizesType
    <3> QED
      BY <1>1, <2>2, <3>1, <3>2, <3>3 DEF mb
  <2> QED
    BY <1>3, <2>1, <2>2
<1> HIDE DEF mb
<1>6. /\ used' \in [Mailbox -> Nat]
      /\ used'[mb] = IF used[mb] >= size THEN used[mb] - size ELSE 0
      /\ \A p \in Mailbox \ {mb} : used'[p] = used[p]
  <2>1. used[mb] \in Nat
    BY <1>1, <1>2 DEF TypeOK
  <2>2. (IF used[mb] >= size THEN used[mb] - size ELSE 0) \in Nat
    BY <2>1
  <2> QED
    BY <1>1, <1>2, <1>5, <2>2 DEF TypeOK
<1>7. UsedCounted'
  <2> SUFFICES ASSUME NEW p \in Mailbox \ drifted
               PROVE  used'[p] = TotalOf(held', sent', p)
    BY <1>4 DEF UsedCounted
  <2>1. used[p] = TotalOf(held, sent, p)
    BY DEF InboundInv, UsedCounted
  <2>2. CASE p = mb
    <3> DEFINE left == TotalOf(held', sent', mb)
    <3>1. used[mb] = left + size /\ left \in Nat
      BY <1>5, <2>1, <2>2
    <3> HIDE DEF left
    <3>2. used'[mb] = left
      BY <1>6, <3>1
    <3> QED
      BY <2>2, <3>2 DEF left
  <2>3. CASE p # mb
    BY <1>5, <1>6, <2>1, <2>3
  <2> QED
    BY <2>2, <2>3
<1>8. TypeOK'
  <2>1. disturbances' \in 0 .. MaxDisturbances
    BY <1>1, <1>3, InboundAssumption DEF TypeOK, Disturb
  <2>2. held' \subseteq Mail \X Mailbox /\ sent' \subseteq Mail \X Mailbox
    BY <1>5 DEF Mails
  <2> QED
    BY <1>1, <1>3a, <1>4, <1>6, <2>1, <2>2 DEF TypeOK
<1>9. ForwardingStops'
  BY <1>1, <1>4 DEF ForwardingStops
<1>10. WorkersInOrder' /\ OneInside' /\ TargetsAddressed'
  BY <1>4 DEF InboundInv, WorkersInOrder, OneInside, TargetsAddressed
<1>11. Admitted'
  <2> SUFFICES ASSUME NEW v \in Worker, pc'[v] = "inside"
               PROVE  (/\ ~ Refused(hand[v], target[v])
                       /\ Fits(hand[v], target[v])
                       /\ FreshlyRead(v))'
    BY DEF Admitted
  <2>1. pc[v] = "inside" /\ target[v] # mb
    BY <1>3, <1>4 DEF mb
  <2>2. used'[target[v]] = used[target[v]] /\ threads'[target[v]] = threads[target[v]]
    <3>1. target[v] \in Mailbox
      BY <2>1 DEF InboundInv, WorkersInOrder
    <3> QED
      BY <1>3a, <1>6, <2>1, <3>1
  <2> QED
    BY <1>4, <1>5, <2>1, <2>2, StillAdmitted
<1>12. FiniteMail'
  BY <1>5 DEF FiniteMail, Mails
<1>13. ForwardedAsRuled'
  BY <1>5 DEF InboundInv, ForwardedAsRuled
<1> QED
  BY <1>7, <1>8, <1>9, <1>10, <1>11, <1>12, <1>13 DEF InboundInv

(* The reconciliation's write.                                             *)
LEMMA ReconcileKeeps ==
  ASSUME InboundInv, NEW mb \in Mailbox, ReconcileWrite(mb)
  PROVE  InboundInv'
<1>1. TypeOK /\ ForwardingStops
  BY DEF InboundInv
<1>2. /\ used' = [used EXCEPT ![mb] = totals[mb]]
      /\ drifted' = IF totals[mb] = Total(mb) THEN drifted \ {mb} ELSE drifted \cup {mb}
      /\ toFix' = toFix \ {mb}
      /\ totals' = [totals EXCEPT ![mb] = 0]
      /\ \A v \in Worker : pc[v] = "inside" => target[v] # mb
  BY DEF ReconcileWrite, Holder
<1>3. UNCHANGED <<open, queue, failed, ignored, held, sent, threads, pc, hand, target, reading,
                  composing, draft, disturbances>>
  BY DEF ReconcileWrite, rowVars, workVars, composeVars
<1>4. used'[mb] = totals[mb] /\ \A p \in Mailbox \ {mb} : used'[p] = used[p]
  BY <1>1, <1>2 DEF TypeOK
<1>5. UsedCounted'
  <2> SUFFICES ASSUME NEW p \in Mailbox \ drifted'
               PROVE  used'[p] = TotalOf(held, sent, p)
    BY <1>3 DEF UsedCounted
  <2>1. CASE p = mb
    <3>1. totals[mb] = Total(mb)
      BY <1>2, <2>1
    <3>2. Total(mb) = TotalOf(held, sent, mb)
      BY TotalIs
    <3> QED
      BY <1>4, <2>1, <3>1, <3>2
  <2>2. CASE p # mb
    <3>1. p \notin drifted
      BY <1>2, <2>2
    <3> QED
      BY <1>4, <2>2, <3>1 DEF InboundInv, UsedCounted
  <2> QED
    BY <2>1, <2>2
<1>6. TypeOK'
  <2>1. used' \in [Mailbox -> Nat] /\ totals' \in [Mailbox -> Nat]
    BY <1>1, <1>2 DEF TypeOK
  <2>2. drifted' \subseteq Mailbox /\ toFix' \subseteq Mailbox
    BY <1>1, <1>2 DEF TypeOK
  <2> QED
    BY <1>1, <1>3, <2>1, <2>2 DEF TypeOK
<1>7. ForwardingStops'
  BY <1>1, <1>3 DEF ForwardingStops
<1>8. WorkersInOrder' /\ OneInside' /\ TargetsAddressed'
  BY <1>3 DEF InboundInv, WorkersInOrder, OneInside, TargetsAddressed
<1>9. Admitted'
  <2> SUFFICES ASSUME NEW v \in Worker, pc'[v] = "inside"
               PROVE  (/\ ~ Refused(hand[v], target[v])
                       /\ Fits(hand[v], target[v])
                       /\ FreshlyRead(v))'
    BY DEF Admitted
  <2>1. pc[v] = "inside" /\ target[v] # mb
    BY <1>2, <1>3
  <2>2. used'[target[v]] = used[target[v]]
    <3>1. target[v] \in Mailbox
      BY <2>1 DEF InboundInv, WorkersInOrder
    <3> QED
      BY <1>4, <2>1, <3>1
  <2> QED
    BY <1>3, <2>1, <2>2, StillAdmitted
<1>10. FiniteMail' /\ ForwardedAsRuled'
  BY <1>3 DEF InboundInv, FiniteMail, ForwardedAsRuled
<1> QED
  BY <1>5, <1>6, <1>7, <1>8, <1>9, <1>10 DEF InboundInv

LEMMA InboundStep == InboundInv /\ [Next]_vars => InboundInv'
<1> SUFFICES ASSUME InboundInv, [Next]_vars PROVE InboundInv'
  OBVIOUS
<1>1. ASSUME NEW w \in Worker, Work(w)
      PROVE  InboundInv'
  BY <1>1, FindKeeps, EnterKeeps, CommitKeeps, LetGoKeeps DEF Work
<1>2. ASSUME NEW w \in Worker, Die(w) \/ Outlive(w) \/ WorkerFails(w)
      PROVE  InboundInv'
  BY <1>2, LetGoKeeps, BesideKeeps
<1>3. ASSUME NEW x \in failed, Retry(x)
      PROVE  InboundInv'
  BY <1>3, BesideKeeps
<1>4. ASSUME NEW r \in Composed, ComposeFind(r) \/ ComposeCommit(r) \/ ComposeFails(r)
                               \/ CreateDraft(r) \/ PromoteDraft(r)
      PROVE  InboundInv'
  BY <1>4, BesideKeeps, ComposeKeeps, DraftKeeps
<1>5. ASSUME NEW h \in held \cup sent, Delete(h)
      PROVE  InboundInv'
  BY <1>5, DeleteKeeps
<1>6. ASSUME NEW mb \in Closable, Toggle(mb)
      PROVE  InboundInv'
  BY <1>6, BesideKeeps
<1>7. CASE Reconcile
  BY <1>7, BesideKeeps, ReconcileKeeps DEF Reconcile
<1>8. CASE UNCHANGED vars
  <2>1. UNCHANGED <<mailVars, workVars, drifted>>
    BY <1>8 DEF vars, historyVars
  <2>2. TypeOK' /\ ForwardingStops'
    BY <1>8 DEF vars, rowVars, mailVars, workVars, composeVars, sweepVars, historyVars,
                InboundInv, TypeOK, ForwardingStops
  <2> QED
    BY <2>1, <2>2, Beside
<1> QED
  BY <1>1, <1>2, <1>3, <1>4, <1>5, <1>6, <1>7, <1>8 DEF Next

LEMMA InboundInvariant == Spec => []InboundInv
<1> QED
  BY InboundInit, InboundStep, PTL DEF Spec

(* Messages and mailbox rows are well formed throughout.                   *)
THEOREM InboundTypeCorrect == Spec => []TypeOK
<1>1. InboundInv => TypeOK
  BY DEF InboundInv
<1> QED
  BY <1>1, InboundInvariant, PTL

(* Forwarding stops, whatever mailboxes forward to each other: no mail in  *)
(* the queue has made more hops than MAX_FORWARD_DEPTH (forward_message).  *)
THEOREM ForwardingTerminates == Spec => []ForwardingStops
<1>1. InboundInv => ForwardingStops
  BY DEF InboundInv
<1> QED
  BY <1>1, InboundInvariant, PTL

(* used_bytes is the sum of what the mailbox holds, for any number of      *)
(* mails and mailboxes, whatever arrives and is deleted meanwhile, unless  *)
(* outbound attachments or an overtaken reconciliation have set it off     *)
(* (create_inbound_message, decrement_used_bytes, the reconciliation).     *)
THEOREM UsedBytesExact == Spec => []UsedMatchesStored
<1>1. InboundInv => UsedMatchesStored
  BY TotalIs DEF InboundInv, UsedCounted, UsedMatchesStored
<1> QED
  BY <1>1, InboundInvariant, PTL

(* Workers deliver where the mail is addressed, and a mail reaches the     *)
(* first recipient that answers (resolve_mailbox).                         *)
THEOREM DeliveredAsAddressed == Spec => []ResolutionHolds
<1>1. BoundedSeq(Address, 3) \subseteq Seq(Address)
  BY DEF BoundedSeq, SeqOf
<1>2. ShortListsResolve
  BY <1>1, ResolutionCorrect DEF ShortListsResolve, ResolvesAsPromised
<1>3. InboundInv => ResolutionHolds
  BY <1>2 DEF InboundInv, ResolutionHolds
<1> QED
  BY <1>3, InboundInvariant, PTL

(* Whatever rules the mailboxes have, they are applied in order, each by   *)
(* the labels of those before it, and a mailbox forwards nowhere but where *)
(* one of them or its forward_to says (evaluate_rules, forward_message).   *)
THEOREM ForwardedByRule == Spec => []RulesHold
<1>1. RulesApply
  BY RulesCorrect, InboundAssumption DEF RulesApply
<1>2. InboundInv => RulesHold
  BY <1>1 DEF InboundInv, RulesHold
<1> QED
  BY <1>2, InboundInvariant, PTL

(* What steps do to the stored messages.                                   *)
LEMMA StoredMessages ==
  ASSUME [Next]_vars
  PROVE  \/ \E w \in Worker : Commit(w)
         \/ \E r \in Composed : ComposeCommit(r) \/ CreateDraft(r)
         \/ \E h \in held \cup sent : Delete(h)
         \/ UNCHANGED <<held, sent>>
<1>1. ASSUME NEW w \in Worker, Work(w) \/ Die(w) \/ Outlive(w) \/ WorkerFails(w), ~ Commit(w)
      PROVE  UNCHANGED <<held, sent>>
  BY <1>1 DEF Work, Find, Enter, OverQuota, InsertRefused, Save, Die, Outlive, WorkerFails, mailVars
<1>2. ASSUME NEW x \in failed, Retry(x)
      PROVE  UNCHANGED <<held, sent>>
  BY <1>2 DEF Retry, mailVars
<1>3. ASSUME NEW r \in Composed, ComposeFind(r) \/ ComposeFails(r) \/ PromoteDraft(r)
      PROVE  UNCHANGED <<held, sent>>
  BY <1>3 DEF ComposeFind, ComposeFails, PromoteDraft, mailVars
<1>4. ASSUME NEW mb \in Closable, Toggle(mb)
      PROVE  UNCHANGED <<held, sent>>
  BY <1>4 DEF Toggle, mailVars
<1>5. Reconcile => UNCHANGED <<held, sent>>
  BY DEF Reconcile, ReconcileRead, ReconcileWrite, mailVars
<1>6. UNCHANGED vars => UNCHANGED <<held, sent>>
  BY DEF vars, mailVars
<1> QED
  BY <1>1, <1>2, <1>3, <1>4, <1>5, <1>6 DEF Next

(* The mail that a worker commits is new to its mailbox, and fits.         *)
LEMMA CommitsNew ==
  ASSUME InboundInv, NEW w \in Worker, Commit(w)
  PROVE  /\ held' = held \cup {<<hand[w], target[w]>>}
         /\ ~ Refused(hand[w], target[w]) /\ Fits(hand[w], target[w])
         /\ hand[w] \in Mail /\ target[w] \in Mailbox
         /\ sent \subseteq sent'
         /\ \A c \in sent' \ sent : c[2] = target[w] /\ c[1] # hand[w]
<1> DEFINE x == hand[w]
           mb == target[w]
           copies == {c \in Copies(x, mb) : <<c, mb>> \notin sent}
           U == {<<c, mb>> : c \in copies}
<1>1. pc[w] = "inside" /\ held' = held \cup {<<x, mb>>} /\ sent' = sent \cup U
  BY DEF Commit
<1>2. ~ Refused(x, mb) /\ Fits(x, mb) /\ x \in Mail /\ mb \in Mailbox
  BY <1>1 DEF InboundInv, Admitted, WorkersInOrder
<1>3. \A c \in copies : c # x
  BY <1>2, CopiesType
<1> HIDE DEF x, mb, copies
<1>4. \A c \in U : c[2] = mb /\ c[1] # x
  BY <1>3
<1> HIDE DEF U
<1> QED
  BY <1>1, <1>2, <1>4 DEF x, mb

(* No mail is admitted beyond the quota, however many workers ingest for   *)
(* the same mailbox at once (ingest.py:246).                               *)
THEOREM NeverOverQuota == Spec => QuotaKept
<1> DEFINE Kept == \A h \in held' \ held :
                     LET x == h[1]  mb == h[2] IN
                       Quota[mb] > 0 /\ mb \notin drifted =>
                         Total(mb) + IncomingSize(x) <= Quota[mb]
<1>1. InboundInv /\ [Next]_vars => Kept
  <2> SUFFICES ASSUME InboundInv, [Next]_vars, NEW h \in held' \ held,
                      Quota[h[2]] > 0, h[2] \notin drifted
               PROVE  Total(h[2]) + IncomingSize(h[1]) <= Quota[h[2]]
    OBVIOUS
  <2>1. PICK w \in Worker : Commit(w)
    BY StoredMessages DEF ComposeCommit, CreateDraft, Delete
  <2>2. h = <<hand[w], target[w]>> /\ Fits(hand[w], target[w]) /\ target[w] \in Mailbox
    BY <2>1, CommitsNew
  <2> DEFINE mb == target[w]
  <2>3. h[1] = hand[w] /\ h[2] = mb
    BY <2>2
  <2>4. Quota[mb] # 0
    BY <2>3
  <2>5. used[mb] + IncomingSize(hand[w]) <= Quota[mb]
    BY <2>2, <2>4 DEF Fits
  <2>6. used[mb] = Total(mb)
    BY <2>2, <2>3, TotalIs DEF InboundInv, UsedCounted
  <2> QED
    BY <2>3, <2>5, <2>6
<1>2. InboundInv /\ [Next]_vars => [Kept]_vars
  BY <1>1
<1> QED
  BY <1>2, InboundInvariant, PTL DEF Spec, QuotaKept

(* A mail that arrives is committed by a worker.                           *)
LEMMA ArrivalCommits ==
  ASSUME [Next]_vars, NEW h \in held' \ held, InboundInv
  PROVE  \E w \in Worker : Commit(w) /\ h[1] = hand[w] /\ h[2] = target[w]
<1>1. PICK w \in Worker : Commit(w)
  BY StoredMessages DEF ComposeCommit, CreateDraft, Delete
<1>2. h = <<hand[w], target[w]>>
  BY <1>1, CommitsNew
<1> QED
  BY <1>1, <1>2

(* However many workers ingest, and whatever requests compose and drafts   *)
(* open meanwhile, ingestion opens no second thread of a subject: the lock *)
(* on the mailbox row covers lookup and write (update_thread_for_message). *)
THEOREM SubjectsNotSplitByIngest == Spec => IngestOpensNoSecondThread
<1> DEFINE Kept == held' \ held # {} =>
                     \A mb \in Mailbox : \A j \in DOMAIN threads'[mb] \ DOMAIN threads[mb] :
                       LET subject == threads'[mb][j].subject IN
                         subject # NoSubject => \A i \in 1 .. j - 1 : threads'[mb][i].subject # subject
<1>1. InboundInv /\ [Next]_vars => Kept
  <2> SUFFICES ASSUME InboundInv, [Next]_vars, NEW h \in held' \ held, NEW mb \in Mailbox,
                      NEW j \in DOMAIN threads'[mb] \ DOMAIN threads[mb],
                      threads'[mb][j].subject # NoSubject, NEW i \in 1 .. j - 1
               PROVE  threads'[mb][i].subject # threads'[mb][j].subject
    OBVIOUS
  <2>1. PICK w \in Worker : Commit(w)
    BY ArrivalCommits
  <2>2. /\ threads[target[w]] \in Seq(Conversation)
        /\ threads' \in [Mailbox -> Seq(Conversation)]
        /\ \A p \in Mailbox \ {target[w]} : threads'[p] = threads[p]
        /\ Grows(threads[target[w]], threads'[target[w]])
    BY <2>1, CommitFiles
  <2>3. mb = target[w]
    BY <2>2
  <2>4. j \in Len(threads[mb]) + 1 .. Len(threads'[mb])
    BY <2>2, <2>3, RowsType
  <2> QED
    BY <2>2, <2>3, <2>4 DEF Grows
<1>2. InboundInv /\ [Next]_vars => [Kept]_vars
  BY <1>1
<1> QED
  BY <1>2, InboundInvariant, PTL DEF Spec, IngestOpensNoSecondThread

(* A mail arrives with a thread that has it and its participants, and      *)
(* ingestion takes nothing from any thread of the mailbox, whoever wrote   *)
(* it before (update_thread_for_message under the lock).                   *)
THEOREM ParticipantsKeptByIngest == Spec => IngestKeepsParticipants
<1> DEFINE Kept == \A h \in held' \ held :
                     LET list == threads[h[2]]
                         now == threads'[h[2]]
                     IN
                       /\ \E i \in DOMAIN now : h[1] \in now[i].joined \cap now[i].known
                       /\ \A i \in DOMAIN list : list[i].joined \subseteq now[i].joined
                                                 /\ list[i].known \subseteq now[i].known
<1>1. InboundInv /\ [Next]_vars => Kept
  <2> SUFFICES ASSUME InboundInv, [Next]_vars, NEW h \in held' \ held
               PROVE  /\ \E i \in DOMAIN threads'[h[2]] :
                           h[1] \in threads'[h[2]][i].joined \cap threads'[h[2]][i].known
                      /\ \A i \in DOMAIN threads[h[2]] :
                           /\ threads[h[2]][i].joined \subseteq threads'[h[2]][i].joined
                           /\ threads[h[2]][i].known \subseteq threads'[h[2]][i].known
    OBVIOUS
  <2>1. PICK w \in Worker : Commit(w) /\ h[1] = hand[w] /\ h[2] = target[w]
    BY ArrivalCommits
  <2> DEFINE list == threads[target[w]]
             now == threads'[target[w]]
  <2>2. /\ list \in Seq(Conversation) /\ now \in Seq(Conversation) /\ Grows(list, now)
        /\ \E i \in 1 .. Len(now) : hand[w] \in now[i].joined \cap now[i].known
    BY <2>1, CommitFiles
  <2> HIDE DEF list, now
  <2>3. DOMAIN list = 1 .. Len(list) /\ DOMAIN now = 1 .. Len(now)
    BY <2>2, RowsType
  <2>4. /\ \E i \in DOMAIN now : hand[w] \in now[i].joined \cap now[i].known
        /\ \A i \in DOMAIN list : list[i].joined \subseteq now[i].joined
                                  /\ list[i].known \subseteq now[i].known
    BY <2>2, <2>3 DEF Grows
  <2> QED
    BY <2>1, <2>4 DEF list, now
<1>2. InboundInv /\ [Next]_vars => [Kept]_vars
  BY <1>1
<1> QED
  BY <1>2, InboundInvariant, PTL DEF Spec, IngestKeepsParticipants

(* A reply joins a thread that its In-Reply-To or References lead to, for  *)
(* any threads the mailbox has by then (update_thread_for_message).        *)
THEOREM RepliesJoinTheirThread == Spec => RepliesJoin
<1> DEFINE Kept == \A h \in held' \ held :
                     LET mb == h[2]
                         continued == {i \in DOMAIN threads[mb] : Continues(RefsOf(h[1]), threads[mb][i])}
                     IN
                       continued # {} => \E i \in continued : h[1] \in threads'[mb][i].joined
<1>1. InboundInv /\ [Next]_vars => Kept
  <2> SUFFICES ASSUME InboundInv, [Next]_vars, NEW h \in held' \ held,
                      NEW k \in DOMAIN threads[h[2]], Continues(RefsOf(h[1]), threads[h[2]][k])
               PROVE  \E i \in DOMAIN threads[h[2]] :
                        Continues(RefsOf(h[1]), threads[h[2]][i]) /\ h[1] \in threads'[h[2]][i].joined
    OBVIOUS
  <2>1. PICK w \in Worker : Commit(w) /\ h[1] = hand[w] /\ h[2] = target[w]
    BY ArrivalCommits
  <2> DEFINE x == hand[w]
             list == threads[target[w]]
             now == threads'[target[w]]
             refs == RefsOf(x)
             match == Matching(list, refs, Subject[x.root])
  <2>2. \E i \in 1 .. Len(now) : x \in now[i].joined \cap now[i].known /\ (match # {} => i \in match)
    BY <2>1, CommitFiles
  <2> HIDE DEF x, list, now, refs
  <2>3. k \in DOMAIN list /\ Continues(refs, list[k])
    BY <2>1 DEF x, list, refs
  <2>4. match # {} /\ \A i \in match : i \in DOMAIN list /\ Continues(refs, list[i])
    BY <2>3 DEF Matching, ByRoot, ByMessage, Continues
  <2> HIDE DEF match
  <2>5. \E i \in DOMAIN list : Continues(refs, list[i]) /\ x \in now[i].joined
    BY <2>2, <2>4
  <2> QED
    BY <2>1, <2>5 DEF x, list, now, refs
<1>2. InboundInv /\ [Next]_vars => [Kept]_vars
  BY <1>1
<1> QED
  BY <1>2, InboundInvariant, PTL DEF Spec, RepliesJoin

(* Workers, transactions, constraints, retries and crashes implement a     *)
(* store of mail in which everything arrives whole and once.               *)
THEOREM InboundImplementsStore == Spec => StoreSpec
<1>1. Init => Store!StoreInit
  BY DEF Init, Store!StoreInit
<1>2. InboundInv /\ [Next]_vars => [Store!Arrive \/ Store!Write \/ Store!Remove]_(Store!storeVars)
  <2> SUFFICES ASSUME InboundInv, [Next]_vars
               PROVE  Store!Arrive \/ Store!Write \/ Store!Remove \/ UNCHANGED <<held, sent>>
    BY DEF Store!storeVars
  <2>1. ASSUME NEW w \in Worker, Commit(w)
        PROVE  Store!Arrive
    <3> DEFINE x == hand[w]
               mb == target[w]
               h == <<x, mb>>
    <3>1. /\ held' = held \cup {h}
          /\ ~ Refused(x, mb)
          /\ sent \subseteq sent'
          /\ \A c \in sent' \ sent : c[2] = mb /\ c[1] # x
      BY <2>1, CommitsNew
    <3> HIDE DEF x, mb
    <3>2. h[1] = x /\ h[2] = mb
      OBVIOUS
    <3>3. Store!IsNew(x, mb)
      BY <3>1 DEF Refused, Store!IsNew
    <3>4. h \in held' \ held
      BY <3>1 DEF Refused
    <3> QED
      BY <3>1, <3>2, <3>3, <3>4 DEF Store!Arrive
  <2>2. ASSUME NEW r \in Composed, ComposeCommit(r) \/ CreateDraft(r)
        PROVE  Store!Write \/ UNCHANGED <<held, sent>>
    <3> DEFINE h == <<RootMail(r), Writer[r]>>
    <3>1. sent' = sent \cup {h} /\ held' = held
      BY <2>2 DEF ComposeCommit, CreateDraft, StoreOutbound
    <3> HIDE DEF h
    <3>2. CASE h \in sent
      BY <3>1, <3>2
    <3>3. CASE h \notin sent
      BY <3>1, <3>3 DEF Store!Write
    <3> QED
      BY <3>2, <3>3
  <2>3. ASSUME NEW h \in held \cup sent, Delete(h)
        PROVE  Store!Remove
    BY <2>3 DEF Delete, Store!Remove
  <2> QED
    BY <2>1, <2>2, <2>3, StoredMessages
<1> QED
  BY <1>1, <1>2, InboundInvariant, PTL DEF Spec, StoreSpec, Store!StoreSpec
=============================================================================
