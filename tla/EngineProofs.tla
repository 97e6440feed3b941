---------------------------- MODULE EngineProofs ----------------------------
(***************************************************************************)
(* What holds of the engine for every site, every number of jobs and every *)
(* bound: the files of its dashboard are those of the registry, its crawl  *)
(* visits no page twice, too deep or against robots.txt, one in which no   *)
(* request failed finds every page, at its distance from the start, and    *)
(* its two verdicts on orphan pages agree.                                 *)
(***************************************************************************)
EXTENDS Engine, SequenceTheorems, FiniteSetTheorems, TLAPS

-----------------------------------------------------------------------------
(* The loops that are folds: the files a dashboard finds, the entries of   *)
(* the sitemaps without repetitions, their seeds, the links of a page.     *)

DedupOp(acc, x, d) == IF x \in ToSet(acc) THEN acc ELSE Append(acc, x)
IsList(acc, k, S) == acc \in Seq(S)
Dedup == INSTANCE FoldInduction WITH op <- DedupOp, Holds <- IsList

Once(s) == \A i, k \in 1..Len(s) : s[i] = s[k] => i = k

(* What is kept of the first k elements of c.seq, those in c.of.           *)
KeptSoFar(acc, k, c) ==
    /\ acc \in Seq(c.type)
    /\ \A x : x \in ToSet(acc) <=> x \in c.of /\ \E i \in 1..k : c.seq[i] = x
    /\ Once(c.seq) => Once(acc)
Keeping == INSTANCE FoldInduction WITH op <- KeepIf, Holds <- KeptSoFar

Visit == SameSite \X Nat
Places(s) == {s[i][1] : i \in 1..Len(s)}
Apart(s) == \A i, k \in 1..Len(s) : s[i][1] = s[k][1] => i = k

(* A frontier whose URLs differ, were queued, and are not in taken.        *)
Waiting(acc, taken) ==
    /\ acc.frontier \in Seq(Visit) /\ Apart(acc.frontier)
    /\ acc.queued \subseteq SameSite /\ Places(acc.frontier) \subseteq acc.queued
    /\ taken \subseteq acc.queued /\ Places(acc.frontier) \cap taken = {}

WaitingAt(acc, k, taken) == Waiting(acc, taken)
SowOp(acc, loc, d) == Sow(acc, loc)
Sown == INSTANCE FoldInduction WITH op <- SowOp, Holds <- WaitingAt
Followed == INSTANCE FoldInduction WITH op <- Follow, Holds <- WaitingAt

-----------------------------------------------------------------------------
(* Sequences without repetitions.                                          *)

LEMMA Members ==
    ASSUME NEW S, NEW s \in Seq(S)
    PROVE  /\ \A x : x \in ToSet(s) <=> \E i \in 1..Len(s) : s[i] = x
           /\ ToSet(s) \subseteq S
  BY DEF ToSet

LEMMA Added ==
    ASSUME NEW S, NEW s \in Seq(S), NEW e \in S
    PROVE  /\ Append(s, e) \in Seq(S)
           /\ ToSet(Append(s, e)) = ToSet(s) \cup {e}
           /\ Once(s) /\ e \notin ToSet(s) => Once(Append(s, e))
  <1> DEFINE t == Append(s, e)
  <1>1. /\ t \in Seq(S) /\ Len(t) = Len(s) + 1 /\ t[Len(s) + 1] = e
        /\ \A i \in 1..Len(s) : t[i] = s[i]
      OBVIOUS
  <1>2. \A i \in 1..Len(t) : i \in 1..Len(s) \/ i = Len(s) + 1
      BY <1>1
  <1>3. Len(s) + 1 \in 1..Len(t) /\ \A i \in 1..Len(s) : i \in 1..Len(t) /\ i # Len(s) + 1
      BY <1>1
  <1> HIDE DEF t
  <1>4. ToSet(t) = ToSet(s) \cup {e}
      BY <1>1, <1>2, <1>3, Members
  <1>5. Once(s) /\ e \notin ToSet(s) => Once(t)
      BY <1>1, <1>2, <1>3, Members DEF Once
  <1> QED BY <1>1, <1>4, <1>5 DEF t

LEMMA Dropped ==
    ASSUME NEW S, NEW s \in Seq(S), s # <<>>, Once(s)
    PROVE  /\ Tail(s) \in Seq(S) /\ Len(Tail(s)) = Len(s) - 1
           /\ Once(Tail(s)) /\ ToSet(Tail(s)) = ToSet(s) \ {Head(s)}
  <1> DEFINE t == Tail(s)
  <1>1. /\ t \in Seq(S) /\ Len(t) = Len(s) - 1 /\ Len(s) >= 1 /\ Head(s) = s[1]
        /\ \A i \in 1..Len(t) : t[i] = s[i + 1]
      OBVIOUS
  <1>2. \A i \in 1..Len(t) : i + 1 \in 1..Len(s) /\ i + 1 # 1
      BY <1>1
  <1>3. \A i \in 1..Len(s) : i = 1 \/ (i - 1 \in 1..Len(t) /\ i - 1 + 1 = i)
      BY <1>1
  <1>4. 1 \in 1..Len(s) /\ Len(s) \in Nat /\ Len(t) \in Nat
      BY <1>1
  <1> HIDE DEF t
  <1>5. Once(t)
    <2>1. ASSUME NEW i \in 1..Len(t), NEW k \in 1..Len(t), t[i] = t[k] PROVE i = k
      <3>1. i + 1 = k + 1
          BY <1>1, <1>2, <2>1 DEF Once
      <3> QED BY <3>1
    <2> QED BY <2>1 DEF Once
  <1>6. ToSet(t) = ToSet(s) \ {Head(s)}
    <2>1. ASSUME NEW x, x \in ToSet(t) PROVE x \in ToSet(s) /\ x # Head(s)
        BY <1>1, <1>2, <1>4, <2>1, Members DEF Once
    <2>2. ASSUME NEW x, x \in ToSet(s), x # Head(s) PROVE x \in ToSet(t)
      <3>1. PICK i \in 1..Len(s) : s[i] = x
          BY <2>2, Members
      <3>2. i - 1 \in 1..Len(t) /\ t[i - 1] = x
          BY <1>1, <1>3, <2>2, <3>1
      <3> QED BY <1>1, <3>2, Members
    <2> QED BY <2>1, <2>2
  <1> QED BY <1>1, <1>5, <1>6 DEF t

LEMMA Keeps ==
    ASSUME NEW S, NEW s \in Seq(S), NEW U
    PROVE  /\ KeptIn(s, U) \in Seq(S) /\ ToSet(KeptIn(s, U)) = ToSet(s) \cap U
           /\ Once(s) => Once(KeptIn(s, U))
  <1> DEFINE c == [seq |-> s, type |-> S, of |-> U]
  <1>1. c.seq = s /\ c.type = S /\ c.of = U
      OBVIOUS
  <1> HIDE DEF c
  <1>2. KeptSoFar(<<>>, 0, c)
    <2>1. <<>> \in Seq(S) /\ ToSet(<<>>) = {} /\ 1..0 = {} /\ Len(<<>>) = 0
        BY DEF ToSet
    <2> QED BY <1>1, <2>1 DEF KeptSoFar, Once
  <1>3. ASSUME NEW k \in 0..(Len(s) - 1), NEW acc, KeptSoFar(acc, k, c)
        PROVE  KeptSoFar(KeepIf(acc, s[k + 1], U), k + 1, c)
    <2>1. k + 1 \in 1..Len(s) /\ s[k + 1] \in S
        OBVIOUS
    <2>2. 1..(k + 1) = 1..k \cup {k + 1}
        OBVIOUS
    <2>3. \A i \in 1..k : i \in 1..Len(s) /\ i # k + 1
        OBVIOUS
    <2>4. acc \in Seq(S) /\ (Once(s) => Once(acc))
        BY <1>1, <1>3 DEF KeptSoFar
    <2>5. \A x : x \in ToSet(acc) <=> x \in U /\ \E i \in 1..k : s[i] = x
        BY <1>1, <1>3 DEF KeptSoFar
    <2>6. CASE s[k + 1] \in U
      <3> DEFINE new == Append(acc, s[k + 1])
      <3>1. /\ new \in Seq(S) /\ ToSet(new) = ToSet(acc) \cup {s[k + 1]}
            /\ Once(acc) /\ s[k + 1] \notin ToSet(acc) => Once(new)
          BY <2>1, <2>4, Added
      <3> HIDE DEF new
      <3>2. Once(s) => s[k + 1] \notin ToSet(acc)
          BY <2>1, <2>3, <2>5 DEF Once
      <3>3. \A x : x \in ToSet(new) <=> x \in U /\ \E i \in 1..(k + 1) : s[i] = x
          BY <2>2, <2>5, <2>6, <3>1
      <3>4. KeptSoFar(new, k + 1, c)
          BY <1>1, <2>4, <3>1, <3>2, <3>3 DEF KeptSoFar
      <3> QED BY <2>6, <3>4 DEF KeepIf, new
    <2>7. CASE s[k + 1] \notin U
      <3>1. \A x : x \in ToSet(acc) <=> x \in U /\ \E i \in 1..(k + 1) : s[i] = x
          BY <2>2, <2>5, <2>7
      <3>2. KeptSoFar(acc, k + 1, c)
          BY <1>1, <2>4, <3>1 DEF KeptSoFar
      <3> QED BY <2>7, <3>2 DEF KeepIf
    <2> QED BY <2>6, <2>7
  <1>4. KeptSoFar(Keeping!Folded(<<>>, s, U), Len(s), c)
      BY <1>2, <1>3, Keeping!FoldKeeps
  <1>5. KeptIn(s, U) = Keeping!Folded(<<>>, s, U)
      BY DEF KeptIn, Keeping!Folded, KeepIf, FoldLeft, MapThenFoldSet, Max,
             Keeping!FoldLeft, Keeping!MapThenFoldSet, Keeping!Max
  <1>6. KeptSoFar(KeptIn(s, U), Len(s), c)
      BY <1>4, <1>5
  <1>7. \A x : x \in ToSet(KeptIn(s, U)) <=> x \in U /\ \E i \in 1..Len(s) : s[i] = x
      BY <1>1, <1>6 DEF KeptSoFar
  <1>8. \A x : x \in ToSet(KeptIn(s, U)) <=> x \in ToSet(s) \cap U
      BY <1>7, Members
  <1> QED BY <1>1, <1>6, <1>8 DEF KeptSoFar

(* The members of a sequence are finitely many, as many as it is long when *)
(* it has no repetitions.                                                  *)
LEMMA HowMany ==
    ASSUME NEW S, NEW s \in Seq(S)
    PROVE  /\ IsFiniteSet(ToSet(s)) /\ Cardinality(ToSet(s)) <= Len(s)
           /\ Cardinality(ToSet(s)) \in Nat
           /\ Once(s) => Cardinality(ToSet(s)) = Len(s)
  <1>1. Len(s) \in Nat /\ Len(s) \in Int /\ 1 \in Int /\ (IF 1 > Len(s) THEN 0 ELSE Len(s) - 1 + 1) = Len(s)
      OBVIOUS
  <1>2. IsFiniteSet(1..Len(s)) /\ Cardinality(1..Len(s)) = Len(s)
      BY <1>1, FS_Interval
  <1> DEFINE f == [i \in 1..Len(s) |-> s[i]]
  <1>3. f \in Surjection(1..Len(s), ToSet(s))
      BY Members DEF Surjection
  <1>4. Once(s) => f \in Injection(1..Len(s), ToSet(s))
      BY <1>3 DEF Once, Surjection, Injection, IsInjective
  <1>5. /\ IsFiniteSet(ToSet(s)) /\ Cardinality(ToSet(s)) <= Cardinality(1..Len(s))
        /\ Cardinality(ToSet(s)) = Cardinality(1..Len(s)) <=> f \in Injection(1..Len(s), ToSet(s))
      BY <1>2, <1>3, FS_Surjection
  <1>6. Cardinality(ToSet(s)) \in Nat
      BY <1>5, FS_CardinalityType
  <1> QED BY <1>2, <1>4, <1>5, <1>6

(* The youngest of a sequence without repetitions: all of them, or as many *)
(* as the registry holds.                                                  *)
LEMMA Young ==
    ASSUME NEW S, NEW s \in Seq(S), Once(s)
    PROVE  /\ Youngest(s) \in Seq(S) /\ Once(Youngest(s)) /\ ToSet(Youngest(s)) \subseteq ToSet(s)
           /\ Len(Youngest(s)) = IF Len(s) <= MaxJobs THEN Len(s) ELSE MaxJobs
  <1> DEFINE a == IF Len(s) <= MaxJobs THEN 1 ELSE Len(s) - MaxJobs + 1
             t == SubSeq(s, a, Len(s))
  <1>1. MaxJobs \in Nat \ {0} /\ Len(s) \in Nat
      BY DashboardAssumption
  <1>2. Max({1, Len(s) - MaxJobs + 1}) = a
      BY <1>1 DEF Max
  <1>3. a \in Int /\ Len(s) \in Int /\ 1 <= a /\ \A i \in a..Len(s) : s[i] \in S
      BY <1>1
  <1>4. /\ t \in Seq(S) /\ Len(t) = IF a <= Len(s) THEN Len(s) - a + 1 ELSE 0
        /\ \A i \in 1..(Len(s) - a + 1) : t[i] = s[a + i - 1]
      BY <1>3, SubSeqProperties
  <1>5. Youngest(s) = t
      BY <1>2 DEF Youngest
  <1> HIDE DEF t
  <1>6. Len(t) = IF Len(s) <= MaxJobs THEN Len(s) ELSE MaxJobs
    <2>1. CASE Len(s) <= MaxJobs
      <3>1. a = 1
          BY <2>1
      <3> HIDE DEF a
      <3> QED BY <1>1, <1>4, <2>1, <3>1
    <2>2. CASE ~(Len(s) <= MaxJobs)
      <3>1. a = Len(s) - MaxJobs + 1
          BY <2>2
      <3> HIDE DEF a
      <3> QED BY <1>1, <1>4, <2>2, <3>1
    <2> QED BY <2>1, <2>2
  <1>7. a \in Int /\ a <= Len(s) + 1
      BY <1>1
  <1> HIDE DEF a
  <1>8. \A i \in 1..Len(t) : a + i - 1 \in 1..Len(s) /\ t[i] = s[a + i - 1] /\ i \in Int
      BY <1>1, <1>3, <1>4, <1>7
  <1>9. Once(t)
    <2>1. ASSUME NEW i \in 1..Len(t), NEW k \in 1..Len(t), t[i] = t[k] PROVE i = k
      <3>1. a + i - 1 = a + k - 1
          BY <1>8, <2>1 DEF Once
      <3> QED BY <1>7, <1>8, <3>1
    <2> QED BY <2>1 DEF Once
  <1>10. ToSet(t) \subseteq ToSet(s)
      BY <1>4, <1>8, Members
  <1> QED BY <1>4, <1>5, <1>6, <1>9, <1>10

-----------------------------------------------------------------------------
(* The dashboard.  A thread that has not written its file has none; one    *)
(* that has, and a job that is done, have theirs unless the job was        *)
(* evicted or its file was unwritable.  Every file without a listed job is *)
(* paid for by a removal or a read that failed, and so is every file that  *)
(* a registry of its size has no room for after a restart.                 *)

DashTyped ==
    /\ order \in Seq(Jobs) /\ written \in Seq(Jobs) /\ fileErrors \in Nat
    /\ DOMAIN status = Jobs /\ DOMAIN thread = Jobs

Listed ==
    /\ Once(order) /\ Once(written) /\ Len(order) <= MaxJobs
    /\ disk \subseteq ToSet(written)
    /\ \A j \in ToSet(order) \cup ToSet(written) : status[j] # "none"

Filed ==
    \A j \in Jobs :
        /\ thread[j] # "none" => status[j] # "none"
        /\ thread[j] \in {"ready", "working", "write"} => j \notin ToSet(written)
        /\ thread[j] = "rename" => storage /\ j \in ToSet(written)
        /\ storage /\ j \in ToSet(order) /\ (status[j] = "done" \/ thread[j] = "flip")
              => j \in disk \cup unwritten

Paid ==
    /\ storage => Cardinality(disk \ ToSet(order)) <= fileErrors
    /\ Cardinality(disk) <= MaxJobs + fileErrors

DashInv == DashTyped /\ Listed /\ Filed /\ Paid

LEMMA DashInvInit == DashInit => DashInv
  <1> SUFFICES ASSUME DashInit PROVE DashInv
      OBVIOUS
  <1>1. order = <<>> /\ written = <<>> /\ disk = {} /\ Len(<<>>) = 0 /\ MaxJobs \in Nat
      BY DashboardAssumption DEF DashInit
  <1>2. DashTyped
      BY <1>1 DEF DashInit, DashTyped
  <1>3. ToSet(order) = {} /\ ToSet(written) = {}
      BY <1>1 DEF ToSet
  <1>4. Listed
      BY <1>1, <1>3 DEF Listed, Once
  <1>5. Paid
    <2>1. disk \ ToSet(order) = {} /\ disk = {} /\ fileErrors = 0
        BY <1>1 DEF DashInit
    <2>2. Cardinality({}) = 0
        BY FS_EmptySet
    <2> QED BY <1>1, <2>1, <2>2 DEF Paid
  <1> QED BY <1>2, <1>3, <1>4, <1>5 DEF DashInv, Filed, DashInit

(* What a registry has room for, and what it has not, are all the files.   *)
LEMMA Fits ==
    ASSUME NEW D, NEW s \in Seq(Jobs), NEW n \in Nat, IsFiniteSet(D), Len(s) <= MaxJobs,
           Cardinality(D \ ToSet(s)) <= n
    PROVE  Cardinality(D) <= MaxJobs + n
  <1>1. /\ IsFiniteSet(ToSet(s)) /\ Cardinality(ToSet(s)) <= Len(s) /\ Cardinality(ToSet(s)) \in Nat
        /\ Len(s) \in Nat
      BY HowMany
  <1>2. Cardinality(D \ ToSet(s)) = Cardinality(D) - Cardinality(D \cap ToSet(s))
      BY FS_Difference
  <1>3. D \cap ToSet(s) \in SUBSET ToSet(s) /\ D \cap ToSet(s) \in SUBSET D
      OBVIOUS
  <1>4. /\ Cardinality(D \cap ToSet(s)) <= Cardinality(ToSet(s))
        /\ IsFiniteSet(D \cap ToSet(s))
      BY <1>1, <1>3, FS_Subset
  <1>5. Cardinality(D \cap ToSet(s)) \in Nat /\ Cardinality(D) \in Nat
      BY <1>4, FS_CardinalityType
  <1>6. MaxJobs \in Nat
      BY DashboardAssumption
  <1> QED BY <1>1, <1>2, <1>4, <1>5, <1>6

LEMMA Files ==
    ASSUME DashInv
    PROVE  /\ IsFiniteSet(disk) /\ Cardinality(disk) \in Nat
           /\ \A s : IsFiniteSet(disk \ s) /\ Cardinality(disk \ s) \in Nat
  <1>1. IsFiniteSet(ToSet(written)) /\ disk \in SUBSET ToSet(written)
      BY HowMany DEF DashInv, DashTyped, Listed
  <1>2. IsFiniteSet(disk)
      BY <1>1, FS_Subset
  <1>3. ASSUME NEW s PROVE IsFiniteSet(disk \ s)
      BY <1>2, FS_Difference
  <1> QED BY <1>2, <1>3, FS_CardinalityType

LEMMA CreateKept == ASSUME DashInv, NEW j \in Jobs, Create(j) PROVE DashInv'
  <1> DEFINE all == Append(order, j)
             full == Len(all) > MaxJobs
             evicted == IF full THEN {Head(all)} ELSE {}
  <1>1. /\ order \in Seq(Jobs) /\ Once(order) /\ MaxJobs \in Nat \ {0} /\ fileErrors \in Nat
        /\ disk \subseteq ToSet(written) /\ IsFiniteSet(disk) /\ IsFiniteSet(disk \ ToSet(order))
        /\ Cardinality(disk \ ToSet(order)) \in Nat /\ Cardinality(disk) \in Nat
      BY DashboardAssumption, Files DEF DashInv, DashTyped, Listed
  <1>2. j \notin ToSet(order) /\ j \notin ToSet(written)
      BY DEF DashInv, Listed, Create
  <1>3. all \in Seq(Jobs) /\ Once(all) /\ ToSet(all) = ToSet(order) \cup {j}
      BY <1>1, <1>2, Added
  <1>4. all # <<>> /\ Len(all) = Len(order) + 1
      BY <1>1
  <1>5. /\ Tail(all) \in Seq(Jobs) /\ Len(Tail(all)) = Len(all) - 1 /\ Once(Tail(all))
        /\ ToSet(Tail(all)) = ToSet(all) \ {Head(all)}
      BY <1>3, <1>4, Dropped
  <1>6. /\ order' = IF full THEN Tail(all) ELSE all
        /\ status' = [status EXCEPT ![j] = "queued"]
        /\ thread' = [thread EXCEPT ![j] = "ready"]
        /\ unwritten' = unwritten /\ written' = written /\ storage' = storage
    <2>1. order' = IF evicted # {} THEN Tail(all) ELSE all
        BY DEF Create
    <2>2. evicted # {} <=> full
        OBVIOUS
    <2> HIDE DEF evicted, full, all
    <2> QED BY <2>1, <2>2 DEF Create
  <1>7. \/ disk' = (IF storage THEN disk \ evicted ELSE disk) /\ fileErrors' = fileErrors
        \/ fileErrors' = fileErrors + 1 /\ disk' = disk
      BY DEF Create
  <1>8. Len(order) <= MaxJobs /\ Len(order) \in Nat
      BY <1>1 DEF DashInv, Listed
  <1>9. Len(order') <= MaxJobs
      BY <1>1, <1>4, <1>5, <1>6, <1>8
  <1> HIDE DEF all, full
  <1>10. ToSet(order') = (ToSet(order) \cup {j}) \ evicted
    <2>1. CASE full
        BY <1>3, <1>5, <1>6, <2>1
    <2>2. CASE ~full
        BY <1>3, <1>6, <2>2
    <2> QED BY <2>1, <2>2
  <1>11. \E e : evicted \subseteq {e}
      OBVIOUS
  <1> HIDE DEF evicted
  <1>12. DashTyped'
      BY <1>1, <1>3, <1>5, <1>6, <1>7 DEF DashInv, DashTyped
  <1>13. Once(order') /\ disk' \subseteq disk
      BY <1>3, <1>5, <1>6, <1>7
  <1>14. \A k \in ToSet(order') \cup ToSet(written) : status'[k] # "none"
      BY <1>1, <1>6, <1>10, Members DEF DashInv, DashTyped, Listed
  <1>15. Listed'
    <2>1. Once(written) /\ written' = written
        BY <1>6 DEF DashInv, Listed
    <2> QED BY <1>1, <1>9, <1>13, <1>14, <2>1 DEF Listed, Once
  <1>16. Filed'
      BY <1>2, <1>6, <1>7, <1>10 DEF DashInv, DashTyped, Filed
  <1>17. storage => Cardinality(disk' \ ToSet(order')) <= fileErrors'
    <2> SUFFICES ASSUME storage PROVE Cardinality(disk' \ ToSet(order')) <= fileErrors'
        OBVIOUS
    <2>1. Cardinality(disk \ ToSet(order)) <= fileErrors
        BY DEF DashInv, Paid
    <2>2. CASE disk' = disk \ evicted /\ fileErrors' = fileErrors
      <3>1. disk' \ ToSet(order') \in SUBSET (disk \ ToSet(order))
          BY <1>10, <2>2
      <3>2. /\ Cardinality(disk' \ ToSet(order')) <= Cardinality(disk \ ToSet(order))
            /\ IsFiniteSet(disk' \ ToSet(order'))
          BY <1>1, <3>1, FS_Subset
      <3>3. Cardinality(disk' \ ToSet(order')) \in Nat
          BY <3>2, FS_CardinalityType
      <3> QED BY <1>1, <2>1, <2>2, <3>2, <3>3
    <2>3. CASE fileErrors' = fileErrors + 1 /\ disk' = disk
      <3>1. PICK e : evicted \subseteq {e}
          BY <1>11
      <3>2. disk' \ ToSet(order') \in SUBSET ((disk \ ToSet(order)) \cup {e})
          BY <1>10, <2>3, <3>1
      <3>3. /\ IsFiniteSet((disk \ ToSet(order)) \cup {e})
            /\ Cardinality((disk \ ToSet(order)) \cup {e}) <= Cardinality(disk \ ToSet(order)) + 1
            /\ Cardinality((disk \ ToSet(order)) \cup {e}) \in Nat
        <4>1. /\ IsFiniteSet((disk \ ToSet(order)) \cup {e})
              /\ Cardinality((disk \ ToSet(order)) \cup {e}) =
                   IF e \in disk \ ToSet(order) THEN Cardinality(disk \ ToSet(order))
                                                ELSE Cardinality(disk \ ToSet(order)) + 1
            BY <1>1, FS_AddElement
        <4> QED BY <1>1, <4>1
      <3>4. /\ Cardinality(disk' \ ToSet(order')) <= Cardinality((disk \ ToSet(order)) \cup {e})
            /\ IsFiniteSet(disk' \ ToSet(order'))
          BY <3>2, <3>3, FS_Subset
      <3>5. Cardinality(disk' \ ToSet(order')) \in Nat
          BY <3>4, FS_CardinalityType
      <3> QED BY <1>1, <2>1, <2>3, <3>3, <3>4, <3>5
    <2> QED BY <1>7, <2>2, <2>3
  <1>18. Cardinality(disk') <= MaxJobs + fileErrors'
    <2>1. Cardinality(disk) <= MaxJobs + fileErrors
        BY DEF DashInv, Paid
    <2>2. Cardinality(disk') <= Cardinality(disk) /\ IsFiniteSet(disk')
      <3>1. disk' \in SUBSET disk
          BY <1>13
      <3> QED BY <1>1, <3>1, FS_Subset
    <2>3. Cardinality(disk') \in Nat
        BY <2>2, FS_CardinalityType
    <2> QED BY <1>1, <1>7, <2>1, <2>2, <2>3
  <1>19. Paid'
      BY <1>6, <1>17, <1>18 DEF Paid
  <1> QED BY <1>12, <1>15, <1>16, <1>19 DEF DashInv

LEMMA ThreadKept ==
    ASSUME DashInv, NEW j \in Jobs, Begin(j) \/ WorkReturns(j) \/ WorkRaises(j) \/ Flip(j)
    PROVE  DashInv'
  <1>1. /\ order' = order /\ disk' = disk /\ unwritten' = unwritten /\ written' = written
        /\ storage' = storage /\ fileErrors' = fileErrors
      BY DEF Begin, WorkReturns, WorkRaises, Flip, fileVars
  <1>2. /\ \A k \in Jobs \ {j} : thread'[k] = thread[k] /\ status'[k] = status[k]
        /\ DOMAIN thread' = Jobs /\ DOMAIN status' = Jobs
        /\ status'[j] = "none" => status[j] = "none"
        /\ thread[j] # "none"
        /\ status'[j] = "done" => status[j] = "done" \/ thread[j] = "flip"
        /\ thread'[j] \notin {"flip", "rename"}
        /\ thread'[j] \in {"ready", "working", "write"}
             => thread[j] \in {"ready", "working", "write"}
      BY DEF DashInv, DashTyped, Begin, WorkReturns, WorkRaises, Flip
  <1>3. DashTyped'
      BY <1>1, <1>2 DEF DashInv, DashTyped
  <1>4. ToSet(order) \subseteq Jobs /\ ToSet(written) \subseteq Jobs
      BY Members DEF DashInv, DashTyped
  <1>5. Listed'
      BY <1>1, <1>2, <1>4 DEF DashInv, Listed, Once
  <1>6. Filed'
      BY <1>1, <1>2 DEF DashInv, Filed
  <1>7. Paid'
      BY <1>1 DEF DashInv, Paid
  <1> QED BY <1>3, <1>5, <1>6, <1>7 DEF DashInv

LEMMA WriteTempKept == ASSUME DashInv, NEW j \in Jobs, WriteTemp(j) PROVE DashInv'
  <1>1. /\ order' = order /\ disk' = disk /\ status' = status /\ thread[j] = "write"
        /\ storage' = storage /\ fileErrors' = fileErrors
      BY DEF WriteTemp
  <1>2. /\ written \in Seq(Jobs) /\ Once(written) /\ j \notin ToSet(written)
        /\ DOMAIN thread = Jobs /\ DOMAIN status = Jobs
      BY <1>1 DEF DashInv, DashTyped, Listed, Filed
  <1>3. /\ Append(written, j) \in Seq(Jobs) /\ Once(Append(written, j))
        /\ ToSet(Append(written, j)) = ToSet(written) \cup {j}
      BY <1>2, Added
  <1>4. \/ /\ storage /\ written' = Append(written, j) /\ unwritten' = unwritten
           /\ thread' = [thread EXCEPT ![j] = "rename"]
        \/ /\ (storage => j \in unwritten') /\ unwritten \subseteq unwritten' /\ written' = written
           /\ thread' = [thread EXCEPT ![j] = "flip"]
      BY DEF WriteTemp, Unwritable
  <1>5. /\ written' \in Seq(Jobs) /\ Once(written') /\ unwritten \subseteq unwritten'
        /\ ToSet(written) \subseteq ToSet(written') /\ ToSet(written') \subseteq ToSet(written) \cup {j}
        /\ \A k \in Jobs \ {j} : thread'[k] = thread[k]
        /\ DOMAIN thread' = Jobs /\ thread'[j] \in {"rename", "flip"}
        /\ thread'[j] = "rename" => storage /\ j \in ToSet(written')
        /\ thread'[j] = "flip" /\ storage => j \in unwritten'
    <2>1. CASE /\ storage /\ written' = Append(written, j) /\ unwritten' = unwritten
               /\ thread' = [thread EXCEPT ![j] = "rename"]
        BY <1>2, <1>3, <2>1
    <2>2. CASE /\ (storage => j \in unwritten') /\ unwritten \subseteq unwritten' /\ written' = written
               /\ thread' = [thread EXCEPT ![j] = "flip"]
        BY <1>2, <2>2
    <2> QED BY <1>4, <2>1, <2>2
  <1>6. DashTyped'
      BY <1>1, <1>2, <1>5 DEF DashInv, DashTyped
  <1>7. status[j] # "none"
      BY <1>1 DEF DashInv, Filed
  <1>8. Listed'
    <2>1. Once(order')
        BY <1>1 DEF DashInv, Listed
    <2>2. \A k \in ToSet(order') \cup ToSet(written') : status'[k] # "none"
        BY <1>1, <1>5, <1>7 DEF DashInv, Listed
    <2> QED BY <1>1, <1>5, <2>1, <2>2 DEF DashInv, Listed
  <1>9. Filed'
      BY <1>1, <1>5 DEF DashInv, Filed
  <1>10. Paid'
      BY <1>1 DEF DashInv, Paid
  <1> QED BY <1>6, <1>8, <1>9, <1>10 DEF DashInv

LEMMA RenameKept == ASSUME DashInv, NEW j \in Jobs, Rename(j) PROVE DashInv'
  <1>1. /\ order' = order /\ written' = written /\ unwritten \subseteq unwritten'
        /\ storage' = storage /\ fileErrors' = fileErrors /\ thread[j] = "rename"
        /\ \/ status' = status /\ thread' = [thread EXCEPT ![j] = "flip"]
           \/ status' = [status EXCEPT ![j] = "error"] /\ thread' = [thread EXCEPT ![j] = "over"]
      BY DEF Rename, Unwritable
  <1>2. /\ disk \subseteq disk' /\ disk' \subseteq disk \cup ({j} \cap ToSet(order))
        /\ thread'[j] = "flip" /\ j \in ToSet(order) => j \in disk' \cup unwritten'
      BY DEF DashInv, DashTyped, Rename, Unwritable
  <1>3. j \in ToSet(written) /\ storage
      BY <1>1 DEF DashInv, Filed
  <1>4. /\ \A k \in Jobs \ {j} : thread'[k] = thread[k] /\ status'[k] = status[k]
        /\ DOMAIN thread' = Jobs /\ DOMAIN status' = Jobs
        /\ thread'[j] \in {"flip", "over"} /\ (status'[j] = status[j] \/ status'[j] = "error")
        /\ status'[j] = "done" => thread'[j] = "flip"
      BY <1>1 DEF DashInv, DashTyped
  <1>5. DashTyped'
      BY <1>1, <1>4 DEF DashInv, DashTyped
  <1>6. Listed'
    <2>1. Once(order') /\ Once(written') /\ disk' \subseteq ToSet(written')
        BY <1>1, <1>2, <1>3 DEF DashInv, Listed
    <2>2. ToSet(order) \subseteq Jobs /\ ToSet(written) \subseteq Jobs
        BY Members DEF DashInv, DashTyped
    <2>3. \A k \in ToSet(order') \cup ToSet(written') : status'[k] # "none"
        BY <1>1, <1>4, <2>2 DEF DashInv, Listed
    <2> QED BY <1>1, <2>1, <2>3 DEF DashInv, Listed
  <1>7. Filed'
      BY <1>1, <1>2, <1>4 DEF DashInv, DashTyped, Filed
  <1>8. Paid'
    <2>1. disk' \ ToSet(order') = disk \ ToSet(order)
        BY <1>1, <1>2
    <2>2. Cardinality(disk' \ ToSet(order')) <= fileErrors'
        BY <1>1, <1>3, <2>1 DEF DashInv, Paid
    <2>3. IsFiniteSet(disk')
      <3>1. disk' \in SUBSET ToSet(written)
          BY <1>2, <1>3 DEF DashInv, Listed
      <3> QED BY <3>1, HowMany, FS_Subset DEF DashInv, DashTyped
    <2>4. order' \in Seq(Jobs) /\ Len(order') <= MaxJobs /\ fileErrors' \in Nat
        BY <1>1 DEF DashInv, DashTyped, Listed
    <2>5. Cardinality(disk') <= MaxJobs + fileErrors'
        BY <2>2, <2>3, <2>4, Fits
    <2> QED BY <2>2, <2>5 DEF Paid
  <1> QED BY <1>5, <1>6, <1>7, <1>8 DEF DashInv

LEMMA RestartKept == ASSUME DashInv, Restart PROVE DashInv'
  <1> DEFINE found == KeptIn(written, disk)
             young == Youngest(found)
  <1>1. /\ written \in Seq(Jobs) /\ Once(written) /\ disk \subseteq ToSet(written)
        /\ fileErrors \in Nat /\ MaxJobs \in Nat \ {0} /\ Cardinality(disk) <= MaxJobs + fileErrors
      BY DashboardAssumption DEF DashInv, DashTyped, Listed, Paid
  <1>2. found \in Seq(Jobs) /\ Once(found) /\ ToSet(found) = disk
    <2>1. ToSet(found) = ToSet(written) \cap disk
        BY <1>1, Keeps
    <2> QED BY <1>1, <2>1, Keeps
  <1>3. Len(found) = Cardinality(disk) /\ Len(found) \in Nat /\ IsFiniteSet(disk)
      BY <1>2, HowMany
  <1> HIDE DEF found
  <1>4. /\ young \in Seq(Jobs) /\ Once(young) /\ ToSet(young) \subseteq disk
        /\ Len(young) = IF Len(found) <= MaxJobs THEN Len(found) ELSE MaxJobs
      BY <1>2, Young
  <1>5. Cardinality(ToSet(young)) = Len(young) /\ IsFiniteSet(ToSet(young)) /\ Len(young) <= MaxJobs
      BY <1>1, <1>3, <1>4, HowMany
  <1>6. /\ disk' = disk /\ written' = written
        /\ \/ /\ storage' = TRUE
              /\ \E unread \in SUBSET ToSet(young) :
                   /\ fileErrors' = fileErrors + Cardinality(unread)
                   /\ order' = KeptIn(young, ToSet(young) \ unread)
           \/ storage' = FALSE /\ order' = <<>> /\ fileErrors' = fileErrors
      BY DEF Restart, found
  <1> HIDE DEF young
  <1> DEFINE Goal == /\ order' \in Seq(Jobs) /\ Once(order') /\ Len(order') <= MaxJobs
                     /\ ToSet(order') \subseteq disk /\ fileErrors' \in Nat
                     /\ storage' => Cardinality(disk \ ToSet(order')) <= fileErrors'
                     /\ Cardinality(disk) <= MaxJobs + fileErrors'
  <1>7. Goal
    <2>1. CASE storage' = FALSE /\ order' = <<>> /\ fileErrors' = fileErrors
      <3>1. order' \in Seq(Jobs) /\ Len(order') = 0 /\ ToSet(order') = {}
          BY <2>1 DEF ToSet
      <3>2. Once(order')
          BY <3>1 DEF Once
      <3> QED BY <1>1, <2>1, <3>1, <3>2
    <2>2. ASSUME NEW unread \in SUBSET ToSet(young),
                 fileErrors' = fileErrors + Cardinality(unread),
                 order' = KeptIn(young, ToSet(young) \ unread)
          PROVE  Goal
      <3>1. IsFiniteSet(unread) /\ Cardinality(unread) \in Nat
        <4>1. IsFiniteSet(unread)
            BY <1>5, FS_Subset
        <4> QED BY <4>1, FS_CardinalityType
      <3>2. order' \in Seq(Jobs) /\ Once(order') /\ ToSet(order') = ToSet(young) \ unread
        <4>1. ToSet(order') = ToSet(young) \cap (ToSet(young) \ unread)
            BY <1>4, <2>2, Keeps
        <4> QED BY <1>4, <2>2, <4>1, Keeps
      <3>3. /\ IsFiniteSet(ToSet(young) \ unread)
            /\ Cardinality(ToSet(young) \ unread) = Cardinality(ToSet(young)) - Cardinality(unread)
        <4>1. ToSet(young) \cap unread = unread
            OBVIOUS
        <4> QED BY <1>5, <4>1, FS_Difference
      <3>4. Len(order') = Len(young) - Cardinality(unread)
          BY <1>5, <3>2, <3>3, HowMany
      <3>5. Cardinality(disk \ ToSet(order')) = Cardinality(disk) - (Len(young) - Cardinality(unread))
        <4>1. disk \cap ToSet(order') = ToSet(order')
            BY <1>4, <3>2
        <4>2. Cardinality(disk \ ToSet(order')) = Cardinality(disk) - Cardinality(disk \cap ToSet(order'))
            BY <1>3, FS_Difference
        <4> QED BY <1>5, <3>2, <3>3, <4>1, <4>2
      <3>6. Len(order') <= MaxJobs /\ Len(young) \in Nat
          BY <1>1, <1>4, <1>5, <3>1, <3>4
      <3>7. Cardinality(disk \ ToSet(order')) <= fileErrors' /\ fileErrors' \in Nat
          BY <1>1, <1>3, <1>4, <2>2, <3>1, <3>5
      <3>8. Cardinality(disk) <= MaxJobs + fileErrors'
          BY <1>1, <1>3, <2>2, <3>1
      <3>9. ToSet(order') \subseteq disk
          BY <1>4, <3>2
      <3> QED BY <3>2, <3>6, <3>7, <3>8, <3>9
    <2> QED BY <1>6, <2>1, <2>2
  <1>8. ToSet(order') \subseteq Jobs
      BY <1>7, Members
  <1>9. /\ DOMAIN status' = Jobs /\ DOMAIN thread' = Jobs
        /\ \A k \in Jobs : k \in ToSet(order') \/ status[k] # "none" => status'[k] # "none"
        /\ \A k \in Jobs : thread'[k] \in {"none", "over"}
        /\ \A k \in Jobs : thread'[k] # "none" => thread[k] # "none"
    <2>1. /\ status' = [k \in Jobs |-> CASE k \in ToSet(order') -> "done"
                                         [] status[k] # "none" /\ k \notin ToSet(order') -> "lost"
                                         [] OTHER -> "none"]
          /\ thread' = [k \in Jobs |-> IF thread[k] = "none" THEN "none" ELSE "over"]
        BY DEF Restart
    <2> QED BY <2>1
  <1>10. DashTyped'
      BY <1>1, <1>6, <1>7, <1>9 DEF DashTyped
  <1>11. Listed'
    <2>1. \A k \in ToSet(order') \cup ToSet(written) : status'[k] # "none"
      <3>1. ASSUME NEW k \in ToSet(order') PROVE status'[k] # "none"
          BY <1>8, <1>9
      <3>2. ASSUME NEW k \in ToSet(written), k \notin ToSet(order') PROVE status'[k] # "none"
        <4>1. k \in Jobs /\ status[k] # "none"
            BY <1>1, Members DEF DashInv, Listed
        <4> QED BY <1>9, <3>2, <4>1
      <3> QED BY <3>1, <3>2
    <2> QED BY <1>1, <1>6, <1>7, <2>1 DEF Listed
  <1>12. Filed'
    <2>1. ASSUME NEW k \in Jobs, thread'[k] # "none" PROVE status'[k] # "none"
      <3>1. thread[k] # "none"
          BY <1>9, <2>1
      <3>2. status[k] # "none"
          BY <3>1 DEF DashInv, Filed
      <3> QED BY <1>9, <3>2
    <2>2. \A k \in Jobs : thread'[k] \notin {"ready", "working", "write", "rename", "flip"}
        BY <1>9
    <2>3. ToSet(order') \subseteq disk'
        BY <1>6, <1>7
    <2> HIDE DEF Goal
    <2> QED BY <2>1, <2>2, <2>3 DEF Filed
  <1>13. Paid'
      BY <1>6, <1>7 DEF Paid
  <1> QED BY <1>10, <1>11, <1>12, <1>13 DEF DashInv

LEMMA DashSame == ASSUME DashInv, UNCHANGED dashVars PROVE DashInv'
  BY DEF DashInv, DashTyped, Listed, Filed, Paid, Once, dashVars, fileVars

(* The audit that works is a job.                                          *)
Audits == auditing \in Jobs \cup {"none"}

LEMMA EngineStep ==
    ASSUME Audits, [Next]_vars
    PROVE  /\ Audits'
           /\ \/ UNCHANGED dashVars \/ Restart
              \/ \E j \in Jobs : \/ Create(j) \/ Rename(j) \/ Begin(j) \/ WorkReturns(j)
                                 \/ WorkRaises(j) \/ WriteTemp(j) \/ Flip(j)
  <1>1. CASE UNCHANGED vars
      BY <1>1 DEF vars, engineVars, Audits
  <1>2. CASE Crawl \/ Quiescent \/ \E d \in defects : Fix(d)
      BY <1>2 DEF Crawl, Quiescent, Fix, vars, engineVars, Audits
  <1>3. CASE FinishAudit \/ FailAudit \/ Reboot
      BY <1>3 DEF FinishAudit, FailAudit, Reboot, Audits
  <1>4. ASSUME NEW j \in Jobs, Submit(j) \/ BeginAudit(j) \/ Research(j) \/ Store(j)
        PROVE  /\ Audits'
               /\ \/ Create(j) \/ Rename(j) \/ Begin(j) \/ WorkReturns(j)
                  \/ WorkRaises(j) \/ WriteTemp(j) \/ Flip(j)
      BY <1>4 DEF Submit, BeginAudit, Research, Store, engineVars, Audits
  <1> QED BY <1>1, <1>2, <1>3, <1>4 DEF Next

(* For every number of jobs, restarts and file errors: there are never     *)
(* more files without a listed job than removals and reads that failed,    *)
(* and every listed job that is done has its file unless it was unwritable *)
(* (web/jobs.py:119, :144, :91, :182).                                     *)
THEOREM FilesMatch == Spec => []DiskMatchesRegistry
  <1>1. Init => DashInv /\ Audits
      BY DashInvInit DEF Init, Audits
  <1>2. DashInv /\ Audits /\ [Next]_vars => (DashInv /\ Audits)'
      BY EngineStep, DashSame, RestartKept, CreateKept, RenameKept, WriteTempKept, ThreadKept
  <1>3. DashInv => DiskMatchesRegistry
    <2> SUFFICES ASSUME DashInv PROVE DiskMatchesRegistry
        OBVIOUS
    <2>1. ToSet(order) \subseteq Jobs
        BY Members DEF DashInv, DashTyped
    <2> QED BY <2>1 DEF DashInv, Filed, Paid, DiskMatchesRegistry
  <1> QED BY <1>1, <1>2, <1>3, PTL DEF Spec

-----------------------------------------------------------------------------
(* The loops.                                                              *)

LEMMA Deduplicates ==
    ASSUME NEW S, NEW s \in Seq(S)
    PROVE  Deduplicated(s) \in Seq(S)
  <1>1. IsList(<<>>, 0, S)
      BY DEF IsList
  <1>2. ASSUME NEW k \in 0..(Len(s) - 1), NEW acc, IsList(acc, k, S)
        PROVE  IsList(DedupOp(acc, s[k + 1], 0), k + 1, S)
      BY <1>2 DEF IsList, DedupOp
  <1>3. IsList(Dedup!Folded(<<>>, s, 0), Len(s), S)
      BY <1>1, <1>2, Dedup!FoldKeeps
  <1>4. Deduplicated(s) = Dedup!Folded(<<>>, s, 0)
      BY DEF Deduplicated, Dedup!Folded, DedupOp, FoldLeft, MapThenFoldSet, Max,
             Dedup!FoldLeft, Dedup!MapThenFoldSet, Dedup!Max
  <1> QED BY <1>3, <1>4 DEF IsList

LEMMA Entered ==
    ASSUME NEW s \in Seq(Visit), NEW e \in Visit
    PROVE  /\ Append(s, e) \in Seq(Visit)
           /\ Places(Append(s, e)) = Places(s) \cup {e[1]}
           /\ Apart(s) /\ e[1] \notin Places(s) => Apart(Append(s, e))
  <1> DEFINE t == Append(s, e)
  <1>1. /\ t \in Seq(Visit) /\ Len(t) = Len(s) + 1 /\ t[Len(s) + 1] = e
        /\ \A i \in 1..Len(s) : t[i] = s[i]
      OBVIOUS
  <1>2. \A i \in 1..Len(t) : i \in 1..Len(s) \/ i = Len(s) + 1
      BY <1>1
  <1>3. Len(s) + 1 \in 1..Len(t) /\ \A i \in 1..Len(s) : i \in 1..Len(t) /\ i # Len(s) + 1
      BY <1>1
  <1> HIDE DEF t
  <1>4. Places(t) = Places(s) \cup {e[1]}
      BY <1>1, <1>2, <1>3 DEF Places
  <1>5. Apart(s) /\ e[1] \notin Places(s) => Apart(t)
      BY <1>1, <1>2, <1>3 DEF Places, Apart
  <1> QED BY <1>1, <1>4, <1>5 DEF t

LEMMA Enqueues ==
    ASSUME NEW acc, NEW taken, NEW url \in SameSite, NEW depth \in Nat, Waiting(acc, taken)
    PROVE  Waiting(Enqueue(acc, url, depth), taken)
  <1>1. CASE url \in acc.queued
      BY <1>1 DEF Enqueue
  <1>2. CASE url \notin acc.queued
    <2> DEFINE new == Enqueue(acc, url, depth)
               f == Append(acc.frontier, <<url, depth>>)
    <2>1. new.frontier = f /\ new.queued = acc.queued \cup {url}
        BY <1>2 DEF Enqueue
    <2>2. <<url, depth>> \in Visit /\ <<url, depth>>[1] = url /\ acc.frontier \in Seq(Visit)
        BY DEF Visit, Waiting
    <2>3. url \notin Places(acc.frontier) /\ url \notin taken
        BY <1>2 DEF Waiting
    <2>4. f \in Seq(Visit) /\ Places(f) = Places(acc.frontier) \cup {url} /\ Apart(f)
        BY <2>2, <2>3, Entered DEF Waiting
    <2> HIDE DEF new, f
    <2>5. Waiting(new, taken)
        BY <2>1, <2>3, <2>4 DEF Waiting
    <2> QED BY <2>5 DEF new
  <1> QED BY <1>1, <1>2

LEMMA Sows ==
    ASSUME NEW S, NEW seeds \in Seq(S)
    PROVE  Waiting(FoldLeft(Sow, [frontier |-> <<<<Start, 0>>>>, queued |-> {Start}], seeds), {})
  <1> DEFINE base == [frontier |-> <<<<Start, 0>>>>, queued |-> {Start}]
  <1>1. Waiting(base, {})
    <2>1. <<Start, 0>> \in Visit /\ Start \in SameSite
        BY CrawlerAssumption DEF Visit
    <2>2. <<<<Start, 0>>>> \in Seq(Visit) /\ Len(<<<<Start, 0>>>>) = 1
        BY <2>1
    <2> QED BY <2>1, <2>2 DEF Waiting, Places, Apart
  <1>2. ASSUME NEW k \in 0..(Len(seeds) - 1), NEW acc, WaitingAt(acc, k, {})
        PROVE  WaitingAt(SowOp(acc, seeds[k + 1], 0), k + 1, {})
      BY <1>2, Enqueues DEF SowOp, Sow, WaitingAt
  <1>3. FoldLeft(Sow, base, seeds) = Sown!Folded(base, seeds, 0)
      BY DEF Sown!Folded, SowOp, FoldLeft, MapThenFoldSet, Max,
             Sown!FoldLeft, Sown!MapThenFoldSet, Sown!Max
  <1> HIDE DEF base
  <1>4. WaitingAt(base, 0, {})
      BY <1>1 DEF WaitingAt
  <1>5. WaitingAt(Sown!Folded(base, seeds, 0), Len(seeds), {})
      BY <1>2, <1>4, Sown!FoldKeeps
  <1> QED BY <1>3, <1>5 DEF base, WaitingAt

LEMMA Follows ==
    ASSUME NEW S, NEW links \in Seq(S), NEW base, NEW taken, NEW depth \in Nat,
           Waiting(base, taken),
           \A l \in ToSet(links) : l.internal /\ l.to \notin Assets => Normal[l.to] \in SameSite
    PROVE  Waiting(FollowAll(base, links, depth), taken)
  <1>1. ASSUME NEW k \in 0..(Len(links) - 1), NEW acc, WaitingAt(acc, k, taken)
        PROVE  WaitingAt(Follow(acc, links[k + 1], depth), k + 1, taken)
    <2>1. k + 1 \in 1..Len(links) /\ depth + 1 \in Nat
        OBVIOUS
    <2>2. links[k + 1] \in ToSet(links)
        BY <2>1, Members
    <2> QED BY <1>1, <2>1, <2>2, Enqueues DEF Follow, WaitingAt
  <1>2. WaitingAt(Followed!Folded(base, links, depth), Len(links), taken)
    <2>1. WaitingAt(base, 0, taken)
        BY DEF WaitingAt
    <2> QED BY <1>1, <2>1, Followed!FoldKeeps
  <1>3. FollowAll(base, links, depth) = Followed!Folded(base, links, depth)
      BY DEF FollowAll, Followed!Folded, FoldLeft, MapThenFoldSet, Max,
             Followed!FoldLeft, Followed!MapThenFoldSet, Followed!Max
  <1> QED BY <1>2, <1>3 DEF WaitingAt

LEMMA Leaves ==
    ASSUME NEW s \in Seq(Visit), s # <<>>
    PROVE  /\ Head(s) \in Visit /\ Head(s)[1] \in Places(s)
           /\ Tail(s) \in Seq(Visit) /\ Len(Tail(s)) = Len(s) - 1 /\ Len(s) \in Nat \ {0}
           /\ \E i \in 1..Len(s) : s[i] = Head(s)
           /\ \A i \in 1..Len(Tail(s)) : \E k \in 1..Len(s) : Tail(s)[i] = s[k]
           /\ Apart(s) => /\ Apart(Tail(s))
                          /\ Places(Tail(s)) = Places(s) \ {Head(s)[1]}
  <1> DEFINE t == Tail(s)
  <1>1. /\ t \in Seq(Visit) /\ Len(t) = Len(s) - 1 /\ Len(s) \in Nat \ {0} /\ Head(s) = s[1]
        /\ \A i \in 1..Len(t) : t[i] = s[i + 1]
      OBVIOUS
  <1>2. \A i \in 1..Len(t) : i + 1 \in 1..Len(s) /\ i + 1 # 1
      BY <1>1
  <1>3. \A i \in 1..Len(s) : i = 1 \/ (i - 1 \in 1..Len(t) /\ i - 1 + 1 = i)
      BY <1>1
  <1>4. 1 \in 1..Len(s) /\ s[1] \in Visit
      BY <1>1
  <1> HIDE DEF t
  <1>5. Head(s)[1] \in Places(s)
      BY <1>1, <1>4 DEF Places
  <1>6. Apart(s) => Apart(t)
    <2>1. ASSUME Apart(s), NEW i \in 1..Len(t), NEW k \in 1..Len(t), t[i][1] = t[k][1] PROVE i = k
      <3>1. i + 1 = k + 1
          BY <1>1, <1>2, <2>1 DEF Apart
      <3> QED BY <3>1
    <2> QED BY <2>1 DEF Apart
  <1>7. Apart(s) => Places(t) = Places(s) \ {Head(s)[1]}
    <2>1. ASSUME Apart(s), NEW x, x \in Places(t) PROVE x \in Places(s) /\ x # Head(s)[1]
      <3>1. PICK i \in 1..Len(t) : t[i][1] = x
          BY <2>1 DEF Places
      <3>2. i + 1 \in 1..Len(s) /\ i + 1 # 1 /\ s[i + 1][1] = x
          BY <1>1, <1>2, <3>1
      <3> QED BY <1>1, <1>4, <2>1, <3>2 DEF Apart, Places
    <2>2. ASSUME NEW x, x \in Places(s), x # Head(s)[1] PROVE x \in Places(t)
      <3>1. PICK i \in 1..Len(s) : s[i][1] = x
          BY <2>2 DEF Places
      <3>2. i - 1 \in 1..Len(t) /\ t[i - 1][1] = x
          BY <1>1, <1>3, <2>2, <3>1
      <3> QED BY <3>2 DEF Places
    <2> QED BY <2>1, <2>2
  <1>8. \A i \in 1..Len(t) : \E k \in 1..Len(s) : t[i] = s[k]
      BY <1>1, <1>2
  <1> QED BY <1>1, <1>4, <1>5, <1>6, <1>7, <1>8 DEF t

LEMMA Cut ==
    ASSUME NEW S, NEW s \in Seq(S), NEW n \in Nat
    PROVE  First(s, n) \in Seq(S)
  <1>1. Len(s) \in Nat /\ Min({n, Len(s)}) \in {n, Len(s)} /\ Min({n, Len(s)}) <= Len(s)
      BY DEF Min
  <1>2. PICK m \in Nat : m = Min({n, Len(s)}) /\ m <= Len(s)
      BY <1>1
  <1>3. \A i \in 1..m : s[i] \in S
      BY <1>2
  <1>4. SubSeq(s, 1, m) \in Seq(S)
      BY <1>3, SubSeqProperties
  <1> QED BY <1>2, <1>4 DEF First

(* The frontier, the batch and the pages as one sequence.                  *)
LEMMA Joined ==
    ASSUME NEW a \in Seq(Visit), NEW b \in Seq(Visit), Apart(a), Apart(b),
           Places(a) \cap Places(b) = {}
    PROVE  /\ a \o b \in Seq(Visit) /\ Apart(a \o b) /\ Len(a \o b) = Len(a) + Len(b)
           /\ Places(a \o b) = Places(a) \cup Places(b)
           /\ \A i \in 1..Len(a \o b) :
                \/ i <= Len(a) /\ i \in 1..Len(a) /\ (a \o b)[i] = a[i]
                \/ i > Len(a) /\ i - Len(a) \in 1..Len(b) /\ (a \o b)[i] = b[i - Len(a)]
  <1> DEFINE c == a \o b
  <1>1. c \in Seq(Visit) /\ Len(c) = Len(a) + Len(b) /\ Len(a) \in Nat /\ Len(b) \in Nat
      OBVIOUS
  <1>2. ASSUME NEW i \in 1..Len(c)
        PROVE  \/ i <= Len(a) /\ i \in 1..Len(a) /\ c[i] = a[i]
               \/ i > Len(a) /\ i - Len(a) \in 1..Len(b) /\ c[i] = b[i - Len(a)]
    <2>1. CASE i <= Len(a)
      <3>1. i \in 1..Len(a)
          BY <1>1, <2>1
      <3>2. c[i] = a[i]
          BY <3>1
      <3> QED BY <2>1, <3>1, <3>2
    <2>2. CASE i > Len(a)
      <3>1. i - Len(a) \in 1..Len(b) /\ i \in 1..(Len(a) + Len(b))
          BY <1>1, <2>2
      <3>2. c[i] = b[i - Len(a)]
          BY <2>2, <3>1
      <3> QED BY <2>2, <3>1, <3>2
    <2> QED BY <1>1, <2>1, <2>2
  <1>3. /\ \A i \in 1..Len(a) : i \in 1..Len(c) /\ c[i] = a[i]
        /\ \A i \in 1..Len(b) : Len(a) + i \in 1..Len(c) /\ c[Len(a) + i] = b[i]
      BY <1>1
  <1> HIDE DEF c
  <1>4. ASSUME NEW i \in 1..Len(c), NEW k \in 1..Len(c), c[i][1] = c[k][1] PROVE i = k
    <2>1. CASE i \in 1..Len(a) /\ k \in 1..Len(a) /\ c[i] = a[i] /\ c[k] = a[k]
        BY <1>4, <2>1 DEF Apart
    <2>2. CASE /\ i - Len(a) \in 1..Len(b) /\ k - Len(a) \in 1..Len(b)
               /\ c[i] = b[i - Len(a)] /\ c[k] = b[k - Len(a)]
      <3>1. i - Len(a) = k - Len(a)
          BY <1>4, <2>2 DEF Apart
      <3> QED BY <1>1, <3>1
    <2>3. ASSUME NEW x \in 1..Len(a), NEW y \in 1..Len(b) PROVE a[x][1] # b[y][1]
        BY <2>3 DEF Places
    <2> QED BY <1>2, <1>4, <2>1, <2>2, <2>3
  <1>5. Places(c) = Places(a) \cup Places(b)
    <2>1. Places(c) \subseteq Places(a) \cup Places(b)
        BY <1>2 DEF Places
    <2>2. Places(a) \subseteq Places(c) /\ Places(b) \subseteq Places(c)
        BY <1>3 DEF Places
    <2> QED BY <2>1, <2>2
  <1>6. Apart(c)
      BY <1>4 DEF Apart
  <1> QED BY <1>1, <1>2, <1>5, <1>6 DEF c

-----------------------------------------------------------------------------
(* The crawl.  A URL that was queued waits in the frontier, is in the      *)
(* batch, is among the pages, or was dropped for good.                     *)

Visited == [i \in 1..Len(pages) |-> <<pages[i].url, pages[i].depth>>]
Taken == Places(batch) \cup Places(Visited)
Fit(s) == \A i \in 1..Len(s) : allowed(s[i][1]) /\ s[i][2] <= MaxDepth
Now == [frontier |-> frontier, queued |-> queued]
Addresses == DOMAIN Normal \cup {Malformed}

(* The site is one of those it may be.                                     *)
SiteKnown == site = SiteOf(defects) /\ \E D \in FirstDefects : defects \subseteq D

MapsTyped == "locs" \in DOMAIN maps /\ maps.locs \in Seq(Addresses)

PagesTyped ==
    /\ \E S : pages \in Seq(S)
    /\ \A i \in 1..Len(pages) : {"url", "depth"} \subseteq DOMAIN pages[i]
    /\ Visited \in Seq(Visit)

Asked ==
    /\ batch \in Seq(Visit) /\ Apart(batch) /\ Apart(Visited)
    /\ Places(batch) \cap Places(Visited) = {}
    /\ Fit(batch) /\ Fit(Visited)
    /\ Len(pages) + Len(batch) <= MaxPages

Early == phase \in {"robots", "sitemaps"} => batch = <<>> /\ pages = <<>>

CrawlInv == MapsTyped /\ PagesTyped /\ Asked /\ Waiting(Now, Taken) /\ Early

LEMMA Nothing == batch = <<>> /\ pages = <<>> => PagesTyped /\ Asked /\ Taken = {}
  <1> SUFFICES ASSUME batch = <<>>, pages = <<>> PROVE PagesTyped /\ Asked /\ Taken = {}
      OBVIOUS
  <1>1. Len(pages) = 0 /\ Len(batch) = 0 /\ 1..0 = {} /\ MaxPages \in Nat
      BY CrawlerAssumption
  <1>2. Visited = <<>>
      BY <1>1 DEF Visited
  <1>3. \A S : <<>> \in Seq(S)
      OBVIOUS
  <1>4. Places(<<>>) = {} /\ Apart(<<>>) /\ Fit(<<>>)
      BY DEF Places, Apart, Fit
  <1>5. PagesTyped
      BY <1>1, <1>2, <1>3 DEF PagesTyped
  <1>6. Asked
      BY <1>1, <1>2, <1>3, <1>4 DEF Asked
  <1> QED BY <1>1, <1>2, <1>4, <1>5, <1>6 DEF Taken

LEMMA NothingWaits == frontier = <<>> /\ queued = {} => Waiting(Now, {})
  <1> SUFFICES ASSUME frontier = <<>>, queued = {} PROVE Waiting(Now, {})
      OBVIOUS
  <1>1. Now.frontier = <<>> /\ Now.queued = {} /\ Len(<<>>) = 0 /\ 1..0 = {}
      BY DEF Now
  <1>2. <<>> \in Seq(Visit)
      OBVIOUS
  <1> QED BY <1>1, <1>2 DEF Waiting, Places, Apart

Untouched ==
    /\ batch = <<>> /\ pages = <<>> /\ frontier = <<>> /\ queued = {}
    /\ "locs" \in DOMAIN maps /\ maps.locs = <<>>

LEMMA FreshCrawl == Untouched => CrawlInv
  <1> SUFFICES ASSUME Untouched PROVE CrawlInv
      OBVIOUS
  <1> USE DEF Untouched
  <1>1. <<>> \in Seq(Addresses)
      OBVIOUS
  <1>2. MapsTyped
      BY <1>1 DEF MapsTyped
  <1>3. Waiting(Now, Taken)
      BY Nothing, NothingWaits
  <1> QED BY <1>2, <1>3, Nothing DEF CrawlInv, Early

LEMMA CrawlInvInit == ASSUME NEW s, CrawlInit(s) PROVE CrawlInv
  BY FreshCrawl DEF CrawlInit, Untouched

LEMMA ResetKept == ASSUME NEW to, Reset(to) PROVE CrawlInv'
  <1>1. Untouched'
      BY DEF Reset, Untouched
  <1> QED BY <1>1, FreshCrawl, PTL

(* A step that leaves the visits alone keeps what is said of them.         *)
LEMMA SameVisits ==
    ASSUME CrawlInv, UNCHANGED <<frontier, queued, batch, pages, lines>>, MapsTyped', Early'
    PROVE  CrawlInv'
  <1>1. Visited' = Visited /\ Taken' = Taken /\ Now' = Now
      BY DEF Visited, Taken, Now, Places
  <1>2. PagesTyped'
      BY <1>1 DEF CrawlInv, PagesTyped
  <1>3. Asked'
    <2>1. Fit(batch)' /\ Fit(Visited)'
        BY <1>1 DEF CrawlInv, Asked, Fit, allowed
    <2> QED BY <1>1, <2>1 DEF CrawlInv, Asked
  <1>4. Waiting(Now, Taken)'
      BY <1>1 DEF CrawlInv
  <1> QED BY <1>2, <1>3, <1>4 DEF CrawlInv

LEMMA LoadRobotsKept == ASSUME CrawlInv, LoadRobots PROVE CrawlInv'
  <1>1. /\ phase = "robots" /\ phase' = "sitemaps" /\ maps'.locs = maps.locs /\ "locs" \in DOMAIN maps'
        /\ UNCHANGED <<frontier, queued, batch, pages>>
      BY DEF LoadRobots, CrawlInv, MapsTyped
  <1>2. batch = <<>> /\ pages = <<>>
      BY <1>1 DEF CrawlInv, Early
  <1>3. MapsTyped' /\ Early'
      BY <1>1, <1>2 DEF CrawlInv, MapsTyped, Early
  <1>4. (PagesTyped /\ Asked /\ Taken = {})'
    <2>1. (batch = <<>> /\ pages = <<>>)'
        BY <1>1, <1>2
    <2> QED BY <2>1, Nothing, PTL
  <1>5. Taken = {} /\ Now' = Now
      BY <1>1, <1>2, Nothing DEF Now
  <1>6. Waiting(Now, Taken)'
      BY <1>4, <1>5 DEF CrawlInv
  <1> QED BY <1>3, <1>4, <1>6 DEF CrawlInv

LEMMA SiteFacts == ASSUME SiteKnown PROVE WellFormed(site)
  BY SiteAssumption DEF SiteKnown

LEMMA ReadSitemapKept == ASSUME CrawlInv, SiteKnown, ReadSitemap PROVE CrawlInv'
  <1>1. /\ phase = "sitemaps" /\ UNCHANGED <<frontier, queued, batch, pages, lines>>
      BY DEF ReadSitemap
  <1>2. ASSUME NEW url PROVE "locs" \in DOMAIN Read(maps, url) /\ Read(maps, url).locs \in Seq(Addresses)
    <2> DEFINE answer == IF url \in DOMAIN site.maps THEN site.maps[url]
                         ELSE [kind |-> "absent", entries |-> <<>>]
               rest == [maps EXCEPT !.queue = Tail(@), !.seen = @ \cup {url}]
    <2>1. answer.entries \in Seq(Addresses)
        BY SiteFacts DEF WellFormed, Addresses
    <2>2. "locs" \in DOMAIN maps /\ maps.locs \in Seq(Addresses)
        BY DEF CrawlInv, MapsTyped
    <2>3. "locs" \in DOMAIN rest /\ rest.locs = maps.locs
        BY <2>2
    <2>4. maps.locs \o answer.entries \in Seq(Addresses)
        BY <2>1, <2>2
    <2>5. Read(maps, url) \in
            { [maps EXCEPT !.queue = Tail(@)], [rest EXCEPT !.errors = Append(@, <<url>>)],
              [rest EXCEPT !.found = @ \cup {url}, !.queue = @ \o answer.entries],
              [rest EXCEPT !.found = @ \cup {url}, !.locs = @ \o answer.entries], rest }
        BY DEF Read
    <2> HIDE DEF rest, answer
    <2> QED BY <2>2, <2>3, <2>4, <2>5
  <1>3. MapsTyped'
    <2>1. \/ maps' = maps \/ (\E url : maps' = Read(maps, url))
          \/ \E url : maps' = [maps EXCEPT !.queue = Tail(@), !.seen = @ \cup {url}]
        BY DEF ReadSitemap
    <2>2. "locs" \in DOMAIN maps /\ maps.locs \in Seq(Addresses)
        BY DEF CrawlInv, MapsTyped
    <2> QED BY <1>2, <2>1, <2>2 DEF MapsTyped
  <1>4. Early'
      BY <1>1 DEF CrawlInv, Early
  <1> QED BY <1>1, <1>3, <1>4, SameVisits

LEMMA SeedKept == ASSUME CrawlInv, Seed PROVE CrawlInv'
  <1> DEFINE locs == Deduplicated(maps.locs)
             seeds == First(locs, MaxPages)
             acc == FoldLeft(Sow, [frontier |-> <<<<Start, 0>>>>, queued |-> {Start}], seeds)
  <1>1. /\ phase = "sitemaps" /\ phase' \in {"failed", "fill"} /\ maps' = [maps EXCEPT !.locs = locs]
        /\ UNCHANGED <<lines, batch, pages>>
        /\ \/ UNCHANGED <<frontier, queued>>
           \/ frontier' = acc.frontier /\ queued' = acc.queued
      BY DEF Seed
  <1>2. batch = <<>> /\ pages = <<>>
      BY <1>1 DEF CrawlInv, Early
  <1>3. (batch = <<>> /\ pages = <<>>)'
      BY <1>1, <1>2
  <1>4. (PagesTyped /\ Asked /\ Taken = {})'
      BY <1>3, Nothing, PTL
  <1>5. locs \in Seq(Addresses)
      BY Deduplicates DEF CrawlInv, MapsTyped
  <1>6. Waiting(acc, {})
    <2>1. seeds \in Seq(Addresses)
        BY <1>5, Cut, CrawlerAssumption
    <2> HIDE DEF seeds
    <2> QED BY <2>1, Sows
  <1>7. MapsTyped' /\ Early'
      BY <1>1, <1>5 DEF CrawlInv, MapsTyped, Early
  <1>8. Taken = {}
      BY <1>2, Nothing
  <1> HIDE DEF acc
  <1>9. Waiting(Now', {})
    <2>1. CASE UNCHANGED <<frontier, queued>>
        BY <1>8, <2>1 DEF CrawlInv, Now
    <2>2. CASE frontier' = acc.frontier /\ queued' = acc.queued
        BY <1>6, <2>2 DEF Waiting, Now
    <2> QED BY <1>1, <2>1, <2>2
  <1>10. Waiting(Now, Taken)'
      BY <1>4, <1>9
  <1> QED BY <1>4, <1>7, <1>10 DEF CrawlInv

LEMMA TakeNextKept == ASSUME CrawlInv, TakeNext PROVE CrawlInv'
  <1>1. PICK next : next = Head(frontier)
      OBVIOUS
  <1>2. /\ frontier # <<>> /\ Room /\ frontier' = Tail(frontier) /\ phase = "fill"
        /\ UNCHANGED <<phase, lines, maps, queued, pages>>
        /\ \/ batch' = batch
           \/ batch' = Append(batch, next) /\ allowed(next[1]) /\ ~(next[2] > MaxDepth)
      BY <1>1 DEF TakeNext
  <1>3. frontier \in Seq(Visit) /\ Apart(frontier)
      BY DEF CrawlInv, Waiting, Now
  <1>4. /\ next \in Visit /\ next[1] \in Places(frontier)
        /\ frontier' \in Seq(Visit) /\ Apart(frontier') /\ Places(frontier') = Places(frontier) \ {next[1]}
      BY <1>1, <1>2, <1>3, Leaves
  <1>5. batch \in Seq(Visit) /\ Apart(batch) /\ next[1] \notin Taken /\ next[1] \notin Places(batch)
      BY <1>4 DEF CrawlInv, Asked, Waiting, Now, Taken
  <1>6. Visited' = Visited
      BY <1>2 DEF Visited
  <1>7. /\ batch' \in Seq(Visit) /\ Apart(batch')
        /\ \/ Places(batch') = Places(batch)
           \/ Places(batch') = Places(batch) \cup {next[1]}
    <2>1. CASE batch' = batch
        BY <1>5, <2>1
    <2>2. CASE batch' = Append(batch, next)
      <3>1. /\ Append(batch, next) \in Seq(Visit) /\ Apart(Append(batch, next))
            /\ Places(Append(batch, next)) = Places(batch) \cup {next[1]}
          BY <1>4, <1>5, Entered
      <3> QED BY <2>2, <3>1
    <2> QED BY <1>2, <2>1, <2>2
  <1>8. \/ Taken' = Taken \/ Taken' = Taken \cup {next[1]}
      BY <1>6, <1>7 DEF Taken
  <1>9. Waiting(Now, Taken)'
    <2>1. Now'.frontier = frontier' /\ Now'.queued = queued
        BY <1>2 DEF Now
    <2>2. /\ queued \subseteq SameSite /\ Places(frontier) \subseteq queued
          /\ Taken \subseteq queued /\ Places(frontier) \cap Taken = {}
        BY DEF CrawlInv, Waiting, Now
    <2>3. Waiting(Now', Taken')
        BY <1>4, <1>8, <2>1, <2>2 DEF Waiting
    <2> QED BY <2>3
  <1>10. Fit(batch)' /\ Fit(Visited)'
    <2>1. Fit(batch) /\ Fit(Visited) /\ lines' = lines
        BY <1>2 DEF CrawlInv, Asked
    <2>2. Fit(Visited)'
        BY <1>6, <2>1 DEF Fit, allowed
    <2>3. ASSUME batch' = batch PROVE Fit(batch)'
        BY <2>1, <2>3 DEF Fit, allowed
    <2>4. ASSUME batch' = Append(batch, next), allowed(next[1]), ~(next[2] > MaxDepth)
          PROVE  Fit(batch)'
      <3>1. next[2] <= MaxDepth
          BY <1>4, <2>4, CrawlerAssumption DEF Visit
      <3>2. \A i \in 1..Len(batch') : batch'[i] = next \/ (i \in 1..Len(batch) /\ batch'[i] = batch[i])
          BY <1>5, <2>4
      <3> QED BY <2>1, <2>4, <3>1, <3>2 DEF Fit, allowed
    <2> QED BY <1>2, <2>2, <2>3, <2>4
  <1>11. Len(pages') + Len(batch') <= MaxPages
    <2>1. PICK S : pages \in Seq(S)
        BY DEF CrawlInv, PagesTyped
    <2>2. Len(pages) \in Nat /\ Len(batch) \in Nat /\ MaxPages \in Nat
        BY <1>5, <2>1, CrawlerAssumption
    <2>3. Len(batch') = Len(batch) \/ Len(batch') = Len(batch) + 1
        BY <1>2, <1>5
    <2>4. Len(pages) + Len(batch) < MaxPages /\ pages' = pages
        BY <1>2 DEF Room
    <2> QED BY <2>2, <2>3, <2>4
  <1>12. Places(batch') \cap Places(Visited') = {}
      BY <1>5, <1>6, <1>7 DEF CrawlInv, Asked, Taken
  <1>13. Asked'
      BY <1>6, <1>7, <1>10, <1>11, <1>12 DEF CrawlInv, Asked
  <1>14. MapsTyped' /\ PagesTyped' /\ Early'
      BY <1>2, <1>6 DEF CrawlInv, MapsTyped, PagesTyped, Early
  <1> QED BY <1>9, <1>13, <1>14 DEF CrawlInv

(* The page that Absorb adds.                                              *)
Parsed(page, url, depth) ==
    /\ {"url", "depth", "links"} \subseteq DOMAIN page /\ page.url = url /\ page.depth = depth
    /\ \E S : page.links \in Seq(S)
    /\ \A l \in ToSet(page.links) :
         l.internal /\ l.to \notin Assets => Normal[l.to] \in SameSite

LEMMA PageFacts ==
    ASSUME WellFormed(site), NEW url \in SameSite, NEW depth,
           NEW got \in {site.web[url], Failure(url)}
    PROVE  Parsed([got EXCEPT !.depth = depth], url, depth)
  <1> DEFINE page == [got EXCEPT !.depth = depth]
  <1>1. {"url", "depth", "links"} \subseteq DOMAIN Blank(url)
      BY DEF Blank
  <1>2. CASE got = site.web[url]
    <2>1. /\ DOMAIN got = DOMAIN Blank(url) /\ got.url = url
          /\ \E S : got.links \in Seq(S)
          /\ \A l \in ToSet(got.links) :
               l.internal /\ l.to \notin Assets => Normal[l.to] \in SameSite
        BY <1>2 DEF WellFormed
    <2>2. /\ DOMAIN page = DOMAIN got /\ page.url = got.url /\ page.links = got.links
          /\ page.depth = depth
        BY <1>1, <2>1
    <2> HIDE DEF page
    <2>3. Parsed(page, url, depth)
        BY <1>1, <2>1, <2>2 DEF Parsed
    <2> QED BY <2>3 DEF page
  <1>3. CASE got = Failure(url)
    <2>1. got.url = url /\ got.links = <<>> /\ {"url", "depth", "links"} \subseteq DOMAIN got
        BY <1>3 DEF Failure, Blank
    <2>2. /\ DOMAIN page = DOMAIN got /\ page.url = got.url /\ page.links = got.links
          /\ page.depth = depth
        BY <2>1
    <2>3. <<>> \in Seq({}) /\ ToSet(<<>>) = {}
        BY DEF ToSet
    <2> HIDE DEF page
    <2>4. Parsed(page, url, depth)
        BY <2>1, <2>2, <2>3 DEF Parsed
    <2> QED BY <2>4 DEF page
  <1> QED BY <1>2, <1>3

LEMMA OneMorePage ==
    ASSUME PagesTyped, NEW v \in Visit, NEW page, pages' = Append(pages, page),
           {"url", "depth"} \subseteq DOMAIN page, page.url = v[1], page.depth = v[2]
    PROVE  PagesTyped' /\ Visited' = Append(Visited, v) /\ Len(pages') = Len(pages) + 1 /\ Len(pages) \in Nat
  <1>1. PICK S : pages \in Seq(S)
      BY DEF PagesTyped
  <1>2. /\ pages' \in Seq(S \cup {page}) /\ Len(pages') = Len(pages) + 1 /\ Len(pages) \in Nat
        /\ pages'[Len(pages) + 1] = page
        /\ \A i \in 1..Len(pages) : pages'[i] = pages[i]
      BY <1>1
  <1>3. \A i \in 1..Len(pages') : i \in 1..Len(pages) \/ i = Len(pages) + 1
      BY <1>2
  <1>4. \A i \in 1..Len(pages') : {"url", "depth"} \subseteq DOMAIN pages'[i]
      BY <1>2, <1>3 DEF PagesTyped
  <1>5. v = <<page.url, page.depth>>
      BY DEF Visit
  <1>6. Visited \in Seq(Visit) /\ Len(Visited) = Len(pages)
      BY <1>2 DEF PagesTyped, Visited
  <1>7. Visited' = Append(Visited, v)
    <2>1. /\ Append(Visited, v) \in Seq(Visit) /\ Len(Append(Visited, v)) = Len(pages) + 1
          /\ Append(Visited, v)[Len(pages) + 1] = v
          /\ \A i \in 1..Len(pages) : Append(Visited, v)[i] = Visited[i]
        BY <1>6
    <2>2. Visited' = [i \in 1..(Len(pages) + 1) |-> <<pages'[i].url, pages'[i].depth>>]
        BY <1>2 DEF Visited
    <2>3. \A i \in 1..(Len(pages) + 1) : <<pages'[i].url, pages'[i].depth>> = Append(Visited, v)[i]
        BY <1>2, <1>3, <1>5, <2>1 DEF Visited
    <2>4. Append(Visited, v) = [i \in 1..(Len(pages) + 1) |-> Append(Visited, v)[i]]
      <3>1. PICK w \in Seq(Visit) : w = Append(Visited, v) /\ Len(w) = Len(pages) + 1
          BY <2>1
      <3>2. w = [i \in 1..Len(w) |-> w[i]]
          OBVIOUS
      <3> QED BY <3>1, <3>2
    <2> QED BY <2>2, <2>3, <2>4
  <1>8. Visited' \in Seq(Visit)
      BY <1>6, <1>7
  <1>9. PagesTyped'
      BY <1>2, <1>4, <1>8 DEF PagesTyped
  <1> QED BY <1>2, <1>7, <1>9

LEMMA TailFits == ASSUME NEW s \in Seq(Visit), s # <<>>, Fit(s) PROVE Fit(Tail(s))
  BY Leaves DEF Fit

LEMMA AbsorbKept == ASSUME CrawlInv, SiteKnown, Absorb PROVE CrawlInv'
  <1>1. PICK v, got, page :
           /\ v = Head(batch) /\ got \in {site.web[v[1]], Failure(v[1])}
           /\ page = [got EXCEPT !.depth = v[2]]
           /\ phase = "fetch" /\ batch # <<>> /\ batch' = Tail(batch)
           /\ phase' \in {"failed", "fill", "fetch"} /\ UNCHANGED <<lines, maps>>
           /\ \/ UNCHANGED <<pages, frontier, queued>>
              \/ /\ pages' = Append(pages, page)
                 /\ \/ UNCHANGED <<frontier, queued>>
                    \/ LET acc == FollowAll(Now, page.links, v[2])
                       IN  frontier' = acc.frontier /\ queued' = acc.queued
    <2>1. PICK v, got, page :
             /\ v = Head(batch)
             /\ got = IF Head(answers) = "answer" THEN site.web[v[1]] ELSE Failure(v[1])
             /\ page = [got EXCEPT !.depth = v[2]]
        OBVIOUS
    <2>2. CASE v[2] >= MaxDepth \/ ~is_ok(page)
        BY <2>1, <2>2 DEF Absorb
    <2>3. CASE ~(v[2] >= MaxDepth \/ ~is_ok(page))
        BY <2>1, <2>3 DEF Absorb, Now
    <2> QED BY <2>2, <2>3
  <1>2. batch \in Seq(Visit) /\ Apart(batch) /\ Fit(batch) /\ PagesTyped
      BY DEF CrawlInv, Asked
  <1>3. /\ v \in Visit /\ v[1] \in Places(batch) /\ \E i \in 1..Len(batch) : batch[i] = v
        /\ batch' \in Seq(Visit) /\ Len(batch') = Len(batch) - 1 /\ Len(batch) \in Nat \ {0}
        /\ Apart(batch') /\ Places(batch') = Places(batch) \ {v[1]} /\ Fit(Tail(batch))
      BY <1>1, <1>2, Leaves, TailFits
  <1>4. v[1] \in SameSite /\ v[2] \in Nat
      BY <1>3 DEF Visit
  <1>5. MapsTyped' /\ Early'
      BY <1>1 DEF CrawlInv, MapsTyped, Early
  <1>6. Fit(batch)'
      BY <1>1, <1>3 DEF Fit, allowed
  <1>7. CASE UNCHANGED <<pages, frontier, queued>>
    <2>1. Visited' = Visited /\ Now' = Now /\ PagesTyped'
        BY <1>7 DEF CrawlInv, PagesTyped, Visited, Now
    <2>2. Taken' \subseteq Taken
        BY <1>3, <2>1 DEF Taken
    <2>3. Waiting(Now, Taken)'
        BY <2>1, <2>2 DEF CrawlInv, Waiting
    <2>4. Fit(Visited)'
        BY <1>1, <2>1 DEF CrawlInv, Asked, Fit, allowed
    <2>5. Len(pages') + Len(batch') <= MaxPages
      <3>1. PICK S : pages \in Seq(S)
          BY <1>2 DEF PagesTyped
      <3>2. Len(pages) \in Nat /\ MaxPages \in Nat /\ Len(pages) + Len(batch) <= MaxPages
          BY <3>1, CrawlerAssumption DEF CrawlInv, Asked
      <3> QED BY <1>3, <1>7, <3>2
    <2>6. Asked'
        BY <1>3, <1>6, <2>1, <2>4, <2>5 DEF CrawlInv, Asked
    <2> QED BY <1>5, <2>1, <2>3, <2>6 DEF CrawlInv
  <1>8. CASE /\ pages' = Append(pages, page)
             /\ \/ UNCHANGED <<frontier, queued>>
                \/ LET acc == FollowAll(Now, page.links, v[2])
                   IN  frontier' = acc.frontier /\ queued' = acc.queued
    <2>1. /\ {"url", "depth"} \subseteq DOMAIN page /\ page.url = v[1] /\ page.depth = v[2]
          /\ \E S : page.links \in Seq(S)
          /\ \A l \in ToSet(page.links) :
               l.internal /\ l.to \notin Assets => Normal[l.to] \in SameSite
      <3>1. WellFormed(site)
          BY SiteFacts
      <3>2. Parsed(page, v[1], v[2])
          BY <1>1, <1>4, <3>1, PageFacts
      <3> QED BY <3>2 DEF Parsed
    <2>2. PagesTyped' /\ Visited' = Append(Visited, v) /\ Len(pages') = Len(pages) + 1 /\ Len(pages) \in Nat
        BY <1>2, <1>3, <1>8, <2>1, OneMorePage
    <2>3. Visited \in Seq(Visit) /\ Apart(Visited) /\ v[1] \notin Places(Visited)
        BY <1>3 DEF CrawlInv, Asked, PagesTyped
    <2>4. Apart(Visited') /\ Places(Visited') = Places(Visited) \cup {v[1]}
        BY <1>3, <2>2, <2>3, Entered
    <2>5. Taken' = Taken /\ Places(batch') \cap Places(Visited') = {}
        BY <1>3, <2>4 DEF Taken, CrawlInv, Asked
    <2>6. Waiting(Now, Taken)'
      <3>1. CASE UNCHANGED <<frontier, queued>>
          BY <2>5, <3>1 DEF CrawlInv, Now
      <3>2. CASE LET acc == FollowAll(Now, page.links, v[2])
                 IN  frontier' = acc.frontier /\ queued' = acc.queued
        <4>1. PICK S : page.links \in Seq(S)
            BY <2>1
        <4>2. PICK acc : /\ acc = FollowAll(Now, page.links, v[2])
                         /\ frontier' = acc.frontier /\ queued' = acc.queued
            BY <3>2
        <4>3. Waiting(Now, Taken)
            BY DEF CrawlInv
        <4>4. Waiting(FollowAll(Now, page.links, v[2]), Taken)
            BY <1>4, <2>1, <4>1, <4>3, Follows
        <4>5. Waiting(acc, Taken)
            BY <4>2, <4>4
        <4>6. Now'.frontier = acc.frontier /\ Now'.queued = acc.queued
            BY <4>2 DEF Now
        <4>7. Waiting(Now', Taken)
            BY <4>5, <4>6 DEF Waiting
        <4> QED BY <2>5, <4>7
      <3> QED BY <1>8, <3>1, <3>2
    <2>7. Fit(Visited)'
      <3>1. \A i \in 1..Len(Visited') :
               Visited'[i] = v \/ (i \in 1..Len(Visited) /\ Visited'[i] = Visited[i])
          BY <1>3, <2>2, <2>3
      <3>2. allowed(v[1]) /\ v[2] <= MaxDepth /\ Fit(Visited) /\ lines' = lines
          BY <1>1, <1>2, <1>3 DEF CrawlInv, Asked, Fit
      <3> QED BY <3>1, <3>2 DEF Fit, allowed
    <2>8. Len(pages') + Len(batch') <= MaxPages
      <3>1. Len(pages) + Len(batch) <= MaxPages /\ MaxPages \in Nat
          BY CrawlerAssumption DEF CrawlInv, Asked
      <3> QED BY <1>3, <2>2, <3>1
    <2>9. Asked'
        BY <1>3, <1>6, <2>4, <2>5, <2>7, <2>8 DEF Asked
    <2> QED BY <1>5, <2>2, <2>6, <2>9 DEF CrawlInv
  <1> QED BY <1>1, <1>7, <1>8

LEMMA FinishSame ==
    ASSUME CrawlInv, Finish
    PROVE  PagesTyped' /\ Visited' = Visited /\ Len(pages') = Len(pages)
  <1>1. /\ phase' = "crawled" /\ UNCHANGED <<lines, maps, frontier, queued, batch>>
        /\ pages' = [i \in 1..Len(pages) |->
                       [pages[i] EXCEPT !.inlinks = inlinks(Normal[pages[i].url])]]
      BY DEF Finish, Indices
  <1>2. PICK S : pages \in Seq(S)
      BY DEF CrawlInv, PagesTyped
  <1>3. Len(pages) \in Nat
      BY <1>2
  <1>4. \A i \in 1..Len(pages) : {"url", "depth"} \subseteq DOMAIN pages[i]
      BY DEF CrawlInv, PagesTyped
  <1>5. ASSUME NEW i \in 1..Len(pages)
        PROVE  /\ {"url", "depth"} \subseteq DOMAIN pages'[i]
               /\ pages'[i].url = pages[i].url /\ pages'[i].depth = pages[i].depth
    <2>1. PICK p, n : p = pages[i] /\ pages'[i] = [p EXCEPT !.inlinks = n]
        BY <1>1
    <2>2. {"url", "depth"} \subseteq DOMAIN p
        BY <1>4, <2>1
    <2> QED BY <2>1, <2>2
  <1>6. Len(pages') = Len(pages) /\ pages' \in Seq({pages'[i] : i \in 1..Len(pages)})
    <2>1. PICK q : q = pages'
        OBVIOUS
    <2>2. DOMAIN q = 1..Len(pages) /\ q = [i \in 1..Len(pages) |-> q[i]]
        BY <1>1, <2>1
    <2>3. q \in Seq({q[i] : i \in 1..Len(pages)}) /\ Len(q) = Len(pages)
        BY <1>3, <2>2
    <2> QED BY <2>1, <2>3
  <1>7. Visited' = Visited
    <2>1. Visited' = [i \in 1..Len(pages) |-> <<pages'[i].url, pages'[i].depth>>]
        BY <1>6 DEF Visited
    <2> QED BY <1>5, <2>1 DEF Visited
  <1>8. PagesTyped'
      BY <1>5, <1>6, <1>7 DEF CrawlInv, PagesTyped
  <1> QED BY <1>6, <1>7, <1>8

LEMMA FinishKept == ASSUME CrawlInv, Finish PROVE CrawlInv'
  <1>1. phase' = "crawled" /\ UNCHANGED <<lines, maps, frontier, queued, batch>>
      BY DEF Finish
  <1>2. PagesTyped' /\ Visited' = Visited /\ Len(pages') = Len(pages)
      BY FinishSame
  <1>3. Taken' = Taken /\ Now' = Now
      BY <1>1, <1>2 DEF Taken, Now
  <1>4. Asked'
    <2>1. Fit(batch)' /\ Fit(Visited)'
        BY <1>1, <1>2 DEF CrawlInv, Asked, Fit, allowed
    <2> QED BY <1>1, <1>2, <2>1 DEF CrawlInv, Asked
  <1>5. Waiting(Now, Taken)'
      BY <1>3 DEF CrawlInv
  <1>6. MapsTyped' /\ Early'
      BY <1>1 DEF CrawlInv, MapsTyped, Early
  <1> QED BY <1>2, <1>4, <1>5, <1>6 DEF CrawlInv

LEMMA PhaseKept ==
    ASSUME CrawlInv, UNCHANGED <<frontier, queued, batch, pages, lines, maps>>,
           phase' = phase \/ phase' \in {"idle", "fetch"}
    PROVE  CrawlInv'
  <1>1. MapsTyped' /\ Early'
      BY DEF CrawlInv, MapsTyped, Early
  <1> QED BY <1>1, SameVisits

LEMMA CrawlStepKept == ASSUME CrawlInv, SiteKnown, CrawlStep PROVE CrawlInv'
  <1>1. CASE StartBatch
      BY <1>1, PhaseKept DEF StartBatch
  <1>2. CASE \E i \in 1..Workers : FetchOne(i)
      BY <1>2, PhaseKept DEF FetchOne
  <1> QED BY <1>1, <1>2, LoadRobotsKept, ReadSitemapKept, SeedKept, TakeNextKept, AbsorbKept, FinishKept
          DEF CrawlStep

LEMMA SiteSame == ASSUME SiteKnown, UNCHANGED <<site, defects>> PROVE SiteKnown'
  BY DEF SiteKnown

LEMMA EngineCrawls == ASSUME CrawlInv, SiteKnown, [Next]_vars PROVE CrawlInv' /\ SiteKnown'
  <1>1. CASE UNCHANGED vars
      BY <1>1, PhaseKept, SiteSame DEF vars, crawlVars, engineVars
  <1>2. CASE Crawl
    <2>1. CrawlStep /\ UNCHANGED <<site, defects>>
        BY <1>2 DEF Crawl, engineVars, CrawlStep, LoadRobots, ReadSitemap, Seed, TakeNext, StartBatch,
                    FetchOne, Absorb, Finish
    <2> QED BY <2>1, CrawlStepKept, SiteSame
  <1>3. CASE FinishAudit \/ FailAudit
      BY <1>3, PhaseKept, SiteSame DEF FinishAudit, FailAudit
  <1>4. CASE Reboot
      BY <1>4, ResetKept, SiteSame DEF Reboot
  <1>5. CASE Quiescent
      BY <1>5, PhaseKept, SiteSame DEF Quiescent, vars, crawlVars, engineVars
  <1>6. ASSUME NEW j \in Jobs, Submit(j) \/ Research(j) \/ Store(j) PROVE CrawlInv' /\ SiteKnown'
      BY <1>6, PhaseKept, SiteSame DEF Submit, Research, Store, crawlVars, engineVars
  <1>7. ASSUME NEW j \in Jobs, BeginAudit(j) PROVE CrawlInv' /\ SiteKnown'
      BY <1>7, ResetKept, SiteSame DEF BeginAudit
  <1>8. ASSUME NEW d \in defects, Fix(d) PROVE CrawlInv' /\ SiteKnown'
    <2>1. defects' = defects \ {d} /\ site' = SiteOf(defects') /\ UNCHANGED crawlVars
        BY <1>8 DEF Fix
    <2>2. SiteKnown'
        BY <2>1 DEF SiteKnown
    <2> QED BY <2>1, <2>2, PhaseKept DEF crawlVars
  <1> QED BY <1>1, <1>2, <1>3, <1>4, <1>5, <1>6, <1>7, <1>8 DEF Next

LEMMA CrawlInvBounds == CrawlInv => VisitsBounded
  <1> SUFFICES ASSUME CrawlInv PROVE VisitsBounded
      OBVIOUS
  <1> DEFINE fb == frontier \o batch
             visits == fb \o Visited
  <1>1. /\ frontier \in Seq(Visit) /\ Apart(frontier) /\ batch \in Seq(Visit) /\ Apart(batch)
        /\ Places(frontier) \cap Places(batch) = {}
        /\ Places(frontier) \cap Places(Visited) = {} /\ Places(batch) \cap Places(Visited) = {}
        /\ Visited \in Seq(Visit) /\ Apart(Visited) /\ Fit(batch) /\ Fit(Visited)
      BY DEF CrawlInv, Asked, PagesTyped, Waiting, Now, Taken
  <1>2. /\ fb \in Seq(Visit) /\ Apart(fb) /\ Places(fb) = Places(frontier) \cup Places(batch)
        /\ Len(fb) = Len(frontier) + Len(batch)
        /\ \A i \in 1..Len(fb) :
              \/ i <= Len(frontier) /\ i \in 1..Len(frontier) /\ fb[i] = frontier[i]
              \/ i > Len(frontier) /\ i - Len(frontier) \in 1..Len(batch)
                   /\ fb[i] = batch[i - Len(frontier)]
      BY <1>1, Joined
  <1> HIDE DEF fb
  <1>3. /\ visits \in Seq(Visit) /\ Apart(visits)
        /\ \A i \in 1..Len(visits) :
              \/ i <= Len(fb) /\ i \in 1..Len(fb) /\ visits[i] = fb[i]
              \/ i > Len(fb) /\ i - Len(fb) \in 1..Len(Visited) /\ visits[i] = Visited[i - Len(fb)]
      BY <1>1, <1>2, Joined
  <1>4. ASSUME NEW i \in 1..Len(visits), i > Len(frontier)
        PROVE  allowed(visits[i][1]) /\ visits[i][2] <= MaxDepth
    <2>1. Len(frontier) \in Nat /\ i \in Nat
        BY <1>1, <1>3
    <2> HIDE DEF visits
    <2>2. CASE i > Len(fb)
      <3>1. Len(fb) \in Nat
          BY <1>2
      <3>2. i - Len(fb) \in 1..Len(Visited) /\ visits[i] = Visited[i - Len(fb)]
          BY <1>3, <2>1, <2>2, <3>1
      <3>3. Fit(Visited)
          BY <1>1
      <3>4. allowed(Visited[i - Len(fb)][1]) /\ Visited[i - Len(fb)][2] <= MaxDepth
          BY <3>2, <3>3, Zenon DEF Fit
      <3> QED BY <3>2, <3>4
    <2>3. CASE i \in 1..Len(fb) /\ visits[i] = fb[i]
      <3>1. i - Len(frontier) \in 1..Len(batch) /\ fb[i] = batch[i - Len(frontier)]
          BY <1>2, <1>4, <2>1, <2>3
      <3> QED BY <1>1, <2>3, <3>1 DEF Fit
    <2> QED BY <1>3, <2>2, <2>3
  <1>5. Len(pages) + Len(batch) <= MaxPages
      BY DEF CrawlInv, Asked
  <1>6. visits = frontier \o batch \o [i \in 1..Len(pages) |-> <<pages[i].url, pages[i].depth>>]
      BY DEF fb, Visited
  <1> HIDE DEF visits
  <1> QED BY <1>3, <1>4, <1>5, <1>6 DEF VisitsBounded, Indices, Apart

(* For every site, every number of pages, workers and failures: no URL is  *)
(* visited twice or is waiting while it is visited, no more than MaxPages  *)
(* are asked for, and none that robots.txt forbids or that is too deep     *)
(* (crawler.py:127-157).                                                   *)
THEOREM VisitsStayBounded == Spec => []VisitsBounded
  <1>1. Init => CrawlInv /\ SiteKnown
    <2> SUFFICES ASSUME Init PROVE CrawlInv /\ SiteKnown
        OBVIOUS
    <2>1. CrawlInit({SiteOf(defects)}) /\ defects \in FirstDefects
        BY DEF Init
    <2>2. SiteKnown
        BY <2>1 DEF CrawlInit, SiteKnown
    <2> QED BY <2>1, <2>2, CrawlInvInit
  <1>2. CrawlInv /\ SiteKnown /\ [Next]_vars => (CrawlInv /\ SiteKnown)'
      BY EngineCrawls
  <1> QED BY <1>1, <1>2, CrawlInvBounds, PTL DEF Spec

-----------------------------------------------------------------------------
(* The URLs within a number of links, as equations.                        *)

Onward(A, n) == A \cup (UNION {Targets(u) : u \in A}) \cup (IF n = 1 THEN Seeds ELSE {})
Spheres(R, m) == R = [n \in 0..m |-> IF n = 0 THEN {Start} ELSE Onward(R[n - 1], n)]

LEMMA SpheresExist == \E R : Spheres(R, MaxDepth)
  <1> DEFINE A == {m \in 0..MaxDepth : \E R : Spheres(R, m)}
  <1>0. MaxDepth \in Nat
      BY CrawlerAssumption
  <1>1. 0 \in A
    <2>1. Spheres([n \in {0} |-> {Start}], 0)
      <3>1. 0..0 = {0}
          OBVIOUS
      <3> QED BY <3>1 DEF Spheres
    <2>2. 0 \in 0..MaxDepth
        BY <1>0
    <2> QED BY <2>1, <2>2
  <1>2. ASSUME NEW m \in 0..(MaxDepth - 1), m \in A PROVE m + 1 \in A
    <2>1. PICK R : Spheres(R, m)
        BY <1>2
    <2> DEFINE Q == [n \in 0..(m + 1) |-> IF n <= m THEN R[n] ELSE Onward(R[m], m + 1)]
    <2>2. \A n \in 0..m : n \in 0..(m + 1) /\ Q[n] = R[n] /\ (n # 0 => n - 1 \in 0..m)
        OBVIOUS
    <2>3. ASSUME NEW n \in 0..(m + 1) PROVE Q[n] = IF n = 0 THEN {Start} ELSE Onward(Q[n - 1], n)
      <3>1. CASE n \in 0..m
        <4>1. R[n] = IF n = 0 THEN {Start} ELSE Onward(R[n - 1], n)
            BY <2>1, <3>1 DEF Spheres
        <4>2. Q[n] = R[n] /\ (n # 0 => Q[n - 1] = R[n - 1])
            BY <2>2, <3>1
        <4> HIDE DEF Q
        <4> QED BY <4>1, <4>2
      <3>2. CASE n \notin 0..m
        <4>1. n = m + 1 /\ n # 0 /\ n - 1 = m /\ m \in 0..m /\ ~(n <= m)
            BY <3>2
        <4>2. Q[n] = Onward(R[m], n) /\ Q[m] = R[m]
            BY <2>2, <4>1
        <4> HIDE DEF Q
        <4> QED BY <4>1, <4>2
      <3> QED BY <3>1, <3>2
    <2>4. Q = [n \in 0..(m + 1) |-> Q[n]]
        OBVIOUS
    <2> HIDE DEF Q
    <2>5. Spheres(Q, m + 1)
        BY <2>3, <2>4 DEF Spheres
    <2>6. m + 1 \in 0..MaxDepth
        BY <1>0
    <2> QED BY <2>5, <2>6
  <1> HIDE DEF A
  <1>3. MaxDepth \in A
    <2>1. \A m \in 0..MaxDepth : m \in A
        BY <1>0, <1>1, <1>2, Dedup!UpTo
    <2>2. MaxDepth \in 0..MaxDepth
        BY <1>0
    <2> QED BY <2>1, <2>2
  <1> QED BY <1>3 DEF A

LEMMA WithinIs == Spheres(Within, MaxDepth)
  BY SpheresExist DEF Within, Spheres, Onward

LEMMA WithinAt ==
    ASSUME NEW n \in 0..MaxDepth
    PROVE  Within[n] = IF n = 0 THEN {Start} ELSE Onward(Within[n - 1], n)
  BY WithinIs DEF Spheres

LEMMA WithinGrows ==
    ASSUME NEW k \in 0..MaxDepth
    PROVE  \A m \in 0..k : Within[m] \subseteq Within[k]
  <1> DEFINE A == {n \in 0..MaxDepth : \A m \in 0..n : Within[m] \subseteq Within[n]}
  <1>0. MaxDepth \in Nat
      BY CrawlerAssumption
  <1>1. 0 \in A
      BY <1>0
  <1>2. ASSUME NEW n \in 0..(MaxDepth - 1), n \in A PROVE n + 1 \in A
    <2>1. n + 1 \in 0..MaxDepth /\ n + 1 # 0 /\ n + 1 - 1 = n
        BY <1>0
    <2>2. Within[n + 1] = Onward(Within[n], n + 1)
        BY <2>1, WithinAt
    <2>3. Within[n] \subseteq Within[n + 1]
        BY <2>2 DEF Onward
    <2>4. \A m \in 0..(n + 1) : m = n + 1 \/ m \in 0..n
        OBVIOUS
    <2>5. \A m \in 0..(n + 1) : Within[m] \subseteq Within[n + 1]
        BY <1>2, <2>3, <2>4
    <2> QED BY <2>1, <2>5
  <1> HIDE DEF A
  <1>3. \A n \in 0..MaxDepth : n \in A
      BY <1>0, <1>1, <1>2, Dedup!UpTo
  <1> QED BY <1>3 DEF A

(* They depend on the site, robots.txt and the sitemaps only.              *)
LEMMA SameTargets ==
    ASSUME UNCHANGED <<site, lines, maps>>
    PROVE  /\ \A u : Targets(u)' = Targets(u) /\ allowed(u)' = allowed(u)
           /\ Seeds' = Seeds
  BY DEF Targets, allowed, Seeds

LEMMA SameWithin ==
    ASSUME UNCHANGED <<site, lines, maps>>
    PROVE  Within' = Within
  <1>1. /\ \A u : Targets(u)' = Targets(u)
        /\ Seeds' = Seeds
      BY SameTargets
  <1>2. (Spheres(Within, MaxDepth))'
      BY WithinIs, PTL
  <1>3. Spheres(Within, MaxDepth)
      BY WithinIs
  <1>4. \A B, n : Onward(B, n)' = Onward(B, n)
      BY <1>1 DEF Onward
  <1>5. Within' = [n \in 0..MaxDepth |-> IF n = 0 THEN {Start} ELSE Onward(Within'[n - 1], n)]
      BY <1>2, <1>1 DEF Spheres, Onward
  <1>6. Within = [n \in 0..MaxDepth |-> IF n = 0 THEN {Start} ELSE Onward(Within[n - 1], n)]
      BY <1>3 DEF Spheres
  <1> DEFINE A == {n \in 0..MaxDepth : Within'[n] = Within[n]}
  <1>7. MaxDepth \in Nat
      BY CrawlerAssumption
  <1>8. 0 \in A
      BY <1>5, <1>6, <1>7
  <1>9. ASSUME NEW n \in 0..(MaxDepth - 1), n \in A PROVE n + 1 \in A
    <2>1. n + 1 \in 0..MaxDepth /\ n + 1 # 0 /\ n + 1 - 1 = n
        BY <1>7
    <2>2. Within'[n + 1] = Onward(Within'[n], n + 1)
        BY <1>5, <2>1
    <2>3. Within[n + 1] = Onward(Within[n], n + 1)
        BY <2>1, WithinAt
    <2> QED BY <1>9, <2>1, <2>2, <2>3
  <1> HIDE DEF A
  <1>10. \A n \in 0..MaxDepth : n \in A
      BY <1>7, <1>8, <1>9, Dedup!UpTo
  <1>11. \A n \in 0..MaxDepth : Within'[n] = Within[n]
      BY <1>10 DEF A
  <1>12. /\ Within' = [n \in 0..MaxDepth |-> Within'[n]]
         /\ Within = [n \in 0..MaxDepth |-> Within[n]]
      BY <1>5, <1>6
  <1> QED BY <1>11, <1>12

-----------------------------------------------------------------------------
(* A crawl without failures.  What is ahead of it is ordered by depth and  *)
(* spans two depths at most, what is done is not deeper; every visit is at *)
(* its true distance; and every URL that was queued is ahead, done, or may *)
(* not be asked for.  With MaxDepth 0 the sitemaps still enter the queue,  *)
(* at depth 1, and are dropped when they are taken.                        *)

Ahead == ToSet(batch) \cup ToSet(frontier)
Done == ToSet(Visited)
Ordered(s) == \A i, k \in 1..Len(s) : i <= k => s[i][2] <= s[k][2]

ByDepth ==
    /\ Ordered(batch) /\ Ordered(frontier)
    /\ \A x \in ToSet(batch), y \in ToSet(frontier) : x[2] <= y[2]
    /\ \A x, y \in Ahead : y[2] <= x[2] + 1
    /\ \A x \in Done, y \in Ahead : x[2] <= y[2]

Nearest(u, n) == n <= MaxDepth /\ u \in Within[n] /\ \A m \in 0..(n - 1) : u \notin Within[m]
Right(v) == Nearest(v[1], v[2]) \/ (v[2] = 1 /\ MaxDepth = 0 /\ v[1] # Start)
Placed == \A x \in Ahead \cup Done : Right(x)

Kept(u) == u \in Places(frontier) \cup Taken \/ ~allowed(u) \/ (MaxDepth = 0 /\ u # Start)
Covered ==
    /\ Start \in queued /\ Seeds \subseteq queued
    /\ \A u \in queued : Kept(u)
    /\ \A x \in Done : x[2] < MaxDepth => Targets(x[1]) \subseteq queued

Bfs == ByDepth /\ Placed /\ Covered

LEMMA Located ==
    ASSUME NEW s \in Seq(Visit)
    PROVE  /\ \A u \in Places(s) : \E x \in ToSet(s) : x[1] = u /\ x \in Visit
           /\ \A x \in ToSet(s) : x \in Visit /\ x[1] \in Places(s)
  BY Members DEF Places

LEMMA VisitTypes ==
    CrawlInv => /\ frontier \in Seq(Visit) /\ batch \in Seq(Visit) /\ Visited \in Seq(Visit)
                /\ Ahead \subseteq Visit /\ Done \subseteq Visit
                /\ \A x \in Visit : x[1] \in SameSite /\ x[2] \in Nat
  <1> SUFFICES ASSUME CrawlInv PROVE /\ frontier \in Seq(Visit) /\ batch \in Seq(Visit)
                /\ Visited \in Seq(Visit) /\ Ahead \subseteq Visit /\ Done \subseteq Visit
                /\ \A x \in Visit : x[1] \in SameSite /\ x[2] \in Nat
      OBVIOUS
  <1>1. frontier \in Seq(Visit) /\ batch \in Seq(Visit) /\ Visited \in Seq(Visit)
      BY DEF CrawlInv, Waiting, Now, Asked, PagesTyped
  <1>2. \A x \in Visit : x[1] \in SameSite /\ x[2] \in Nat
      BY DEF Visit
  <1> QED BY <1>1, <1>2, Members DEF Ahead, Done

(* What is within m links is queued, unless something nearer is ahead.     *)
LEMMA Closed ==
    ASSUME CrawlInv, Bfs, NEW m \in 0..MaxDepth
    PROVE  \A u \in Within[m] : u \in queued \/ \E x \in Ahead : x[2] < m
  <1> DEFINE A == {n \in 0..MaxDepth : \A u \in Within[n] : u \in queued \/ \E x \in Ahead : x[2] < n}
  <1>0. /\ MaxDepth \in Nat /\ Ahead \subseteq Visit /\ Done \subseteq Visit
        /\ \A x \in Visit : x[2] \in Nat
        /\ frontier \in Seq(Visit) /\ batch \in Seq(Visit) /\ Visited \in Seq(Visit)
      BY CrawlerAssumption, VisitTypes
  <1>1. 0 \in A
    <2>1. 0 \in 0..MaxDepth
        BY <1>0
    <2>2. Within[0] = {Start}
        BY <2>1, WithinAt
    <2> QED BY <2>1, <2>2 DEF Bfs, Covered
  <1>2. ASSUME NEW n \in 0..(MaxDepth - 1), n \in A PROVE n + 1 \in A
    <2>1. n + 1 \in 0..MaxDepth /\ n + 1 # 0 /\ n + 1 - 1 = n /\ n \in Nat /\ n < MaxDepth
        BY <1>0
    <2>2. Within[n + 1] = Onward(Within[n], n + 1)
        BY <2>1, WithinAt
    <2>3. ASSUME NEW x \in Ahead, x[2] <= n PROVE x[2] < n + 1
        BY <1>0, <2>1, <2>3
    <2>4. ASSUME NEW u \in Within[n] PROVE u \in queued \/ \E x \in Ahead : x[2] < n + 1
      <3>1. ASSUME NEW x \in Ahead, x[2] < n PROVE x[2] < n + 1
          BY <1>0, <2>1, <3>1
      <3> QED BY <1>2, <3>1
    <2>5. ASSUME NEW w \in Within[n], NEW u \in Targets(w)
          PROVE  u \in queued \/ \E x \in Ahead : x[2] < n + 1
      <3>1. allowed(w)
          BY <2>5 DEF Targets
      <3>2. ASSUME NEW x \in Ahead \cup Done, x[1] = w PROVE x[2] <= n
        <4>1. x[2] \in Nat /\ Right(x)
            BY <1>0, <3>2 DEF Bfs, Placed
        <4>2. MaxDepth # 0
            BY <2>1
        <4>3. \A k \in 0..(x[2] - 1) : w \notin Within[k]
            BY <3>2, <4>1, <4>2 DEF Right, Nearest
        <4>4. n \notin 0..(x[2] - 1)
            BY <2>5, <4>3
        <4> QED BY <2>1, <4>1, <4>4
      <3>3. CASE \E x \in Ahead : x[2] < n + 1
          BY <3>3
      <3>4. CASE w \in queued
        <4>1. w \in Places(frontier) \cup Places(batch) \cup Places(Visited)
            BY <2>1, <3>1, <3>4 DEF Bfs, Covered, Kept, Taken
        <4>2. CASE w \in Places(frontier) \cup Places(batch)
          <5>1. PICK x \in Ahead : x[1] = w
              BY <1>0, <4>2, Located DEF Ahead
          <5> QED BY <2>3, <3>2, <5>1
        <4>3. CASE w \in Places(Visited)
          <5>1. PICK x \in Done : x[1] = w
              BY <1>0, <4>3, Located DEF Done
          <5>2. x[2] < MaxDepth
              BY <1>0, <2>1, <3>2, <5>1
          <5> QED BY <2>5, <5>1, <5>2 DEF Bfs, Covered
        <4> QED BY <4>1, <4>2, <4>3
      <3> QED BY <2>4, <3>3, <3>4
    <2>6. ASSUME NEW u \in Seeds PROVE u \in queued
        BY <2>6 DEF Bfs, Covered
    <2> HIDE DEF A
    <2>7. \A u \in Within[n + 1] : u \in queued \/ \E x \in Ahead : x[2] < n + 1
        BY <2>2, <2>4, <2>5, <2>6 DEF Onward
    <2> QED BY <2>1, <2>7 DEF A
  <1> HIDE DEF A
  <1>3. \A n \in 0..MaxDepth : n \in A
      BY <1>0, <1>1, <1>2, Dedup!UpTo
  <1> QED BY <1>3 DEF A

(* The distance of a URL is one number.                                    *)
LEMMA OneDistance ==
    ASSUME NEW u, NEW n \in 0..MaxDepth, NEW k \in 0..MaxDepth, Nearest(u, n), Nearest(u, k)
    PROVE  n = k
  <1>1. MaxDepth \in Nat
      BY CrawlerAssumption
  <1>2. ~(n < k) /\ ~(k < n)
      BY <1>1 DEF Nearest
  <1> QED BY <1>1, <1>2

LEMMA SomeDistance ==
    ASSUME NEW u \in Within[MaxDepth]
    PROVE  \E n \in 0..MaxDepth : Nearest(u, n)
  <1> DEFINE N == {n \in 0..MaxDepth : u \in Within[n]}
  <1>1. MaxDepth \in Nat /\ MaxDepth \in N /\ N \subseteq Nat
      BY CrawlerAssumption
  <1>2. PICK n \in N : \A m \in N : n <= m
      BY <1>1, Dedup!Smallest
  <1>3. \A m \in 0..(n - 1) : m \in 0..MaxDepth /\ ~(n <= m)
      BY <1>1
  <1> QED BY <1>1, <1>2, <1>3 DEF Nearest

(* The crawl is over: nothing waits, or MaxPages were taken.               *)
Over == phase = "crawled" => batch = <<>> /\ (frontier = <<>> \/ Len(pages) >= MaxPages)

LEMMA BfsComplete ==
    ASSUME CrawlInv, Bfs, Over, NEW clean PROVE CrawlComplete(clean)
  <1> SUFFICES ASSUME phase = "crawled" PROVE CrawlComplete(clean)
      BY DEF CrawlComplete
  <1> DEFINE far == Within[MaxDepth]
             Distance(u) == CHOOSE n \in 0..MaxDepth :
                              u \in Within[n] /\ \A m \in 0..(n - 1) : u \notin Within[m]
             taken == {p.url : p \in ToSet(pages)}
  <1>1. /\ MaxDepth \in Nat /\ MaxPages \in Nat /\ Ahead \subseteq Visit /\ Done \subseteq Visit
        /\ \A x \in Visit : x[2] \in Nat
        /\ frontier \in Seq(Visit) /\ batch \in Seq(Visit) /\ Visited \in Seq(Visit)
      BY CrawlerAssumption, VisitTypes
  <1>2. PICK S : pages \in Seq(S)
      BY DEF CrawlInv, PagesTyped
  <1>3. Len(Visited) = Len(pages) /\ Len(pages) \in Nat
      BY <1>2 DEF Visited
  <1>4. ASSUME NEW p \in ToSet(pages) PROVE <<p.url, p.depth>> \in Done /\ p.depth <= MaxDepth
    <2>1. PICK i \in 1..Len(pages) : pages[i] = p
        BY <1>2, Members
    <2>2. Visited[i] = <<p.url, p.depth>>
        BY <2>1 DEF Visited
    <2>3. i \in 1..Len(Visited)
        BY <1>3
    <2>4. Visited[i][2] <= MaxDepth /\ Visited[i] \in ToSet(Visited)
        BY <1>1, <2>3, Members DEF CrawlInv, Asked, Fit
    <2>5. Visited[i][2] = p.depth
        BY <2>2
    <2> QED BY <2>2, <2>4, <2>5 DEF Done
  <1>5. Places(Visited) = taken
    <2>1. ASSUME NEW u, u \in Places(Visited) PROVE u \in taken
      <3>1. PICK i \in 1..Len(pages) : Visited[i][1] = u
          BY <1>3, <2>1 DEF Places
      <3>2. pages[i] \in ToSet(pages) /\ pages[i].url = u
          BY <1>2, <3>1, Members DEF Visited
      <3> QED BY <3>2
    <2>2. ASSUME NEW p \in ToSet(pages) PROVE p.url \in Places(Visited)
        BY <1>1, <1>4, Located DEF Done
    <2> QED BY <2>1, <2>2
  <1>6. ASSUME NEW u, NEW n \in 0..MaxDepth, Nearest(u, n) PROVE Distance(u) = n
    <2> DEFINE P(k) == u \in Within[k] /\ \A m \in 0..(k - 1) : u \notin Within[m]
    <2>1. \A k \in 0..MaxDepth : P(k) <=> Nearest(u, k)
        BY <1>1 DEF Nearest
    <2>2. Distance(u) \in 0..MaxDepth /\ P(Distance(u))
        BY <1>6, <2>1
    <2> HIDE DEF P, Distance
    <2> QED BY <1>6, <2>1, <2>2, OneDistance
  <1>7. ASSUME NEW p \in ToSet(pages) PROVE p.depth \in 0..MaxDepth /\ Nearest(p.url, p.depth)
    <2>1. PICK x \in Done : x = <<p.url, p.depth>> /\ x[2] <= MaxDepth /\ x[2] \in Nat
        BY <1>1, <1>4
    <2>2. Right(x)
        BY DEF Bfs, Placed
    <2> QED BY <1>1, <2>1, <2>2 DEF Right
  <1>8. taken \subseteq far
    <2>1. ASSUME NEW p \in ToSet(pages) PROVE p.url \in far
      <3>1. MaxDepth \in 0..MaxDepth
          BY <1>1
      <3> QED BY <1>7, <2>1, <3>1, WithinGrows DEF Nearest
    <2> QED BY <2>1
  <1>9. \A p \in ToSet(pages) : p.depth = Distance(p.url)
      BY <1>6, <1>7
  <1>10. ASSUME NEW u \in far \ taken, allowed(u)
         PROVE  Len(pages) = MaxPages /\ \A p \in ToSet(pages) : p.depth <= Distance(u)
    <2>1. PICK n \in 0..MaxDepth : Nearest(u, n)
        BY SomeDistance
    <2>2. Distance(u) = n /\ n \in Nat
        BY <1>6, <2>1
    <2>3. batch = <<>> /\ (frontier = <<>> \/ Len(pages) >= MaxPages)
        BY DEF Over
    <2>4. u \in Within[n] /\ ~(MaxDepth = 0 /\ u # Start)
      <3>1. ASSUME MaxDepth = 0 PROVE u = Start
        <4>1. 0 \in 0..MaxDepth /\ Within[MaxDepth] = Within[0]
            BY <3>1
        <4> QED BY <4>1, WithinAt
      <3> QED BY <2>1, <3>1 DEF Nearest
    <2>5. Places(batch) = {} /\ ToSet(batch) = {}
        BY <2>3 DEF Places, ToSet
    <2>6. u \in queued => u \in Places(frontier)
        BY <1>5, <1>10, <2>4, <2>5 DEF Bfs, Covered, Kept, Taken
    <2>7. PICK x \in Ahead : x[2] <= n
      <3>1. CASE u \in queued
        <4>1. PICK x \in Ahead : x[1] = u
            BY <1>1, <2>6, <3>1, Located DEF Ahead
        <4>2. x[2] \in Nat /\ Nearest(u, x[2])
            BY <1>1, <2>4, <4>1 DEF Bfs, Placed, Right
        <4>3. x[2] \in 0..MaxDepth
            BY <1>1, <4>2 DEF Nearest
        <4>4. x[2] = n
            BY <2>1, <4>2, <4>3, OneDistance
        <4> QED BY <2>2, <4>4
      <3>2. CASE \E x \in Ahead : x[2] < n
          BY <1>1, <2>2, <3>2
      <3> QED BY <2>4, <3>1, <3>2, Closed
    <2>8. frontier # <<>>
      <3>1. SUFFICES ASSUME frontier = <<>> PROVE ToSet(frontier) = {}
          BY <2>5, <2>7 DEF Ahead
      <3> QED BY <3>1 DEF ToSet
    <2>9. Len(pages) = MaxPages
      <3>1. Len(pages) + Len(batch) <= MaxPages /\ Len(batch) = 0
          BY <2>3 DEF CrawlInv, Asked
      <3> QED BY <1>1, <1>3, <2>3, <2>8, <3>1
    <2>10. ASSUME NEW p \in ToSet(pages) PROVE p.depth <= n
      <3>1. PICK y \in Done : y[2] = p.depth /\ y[2] \in Nat
          BY <1>1, <1>4
      <3>2. y[2] <= x[2] /\ x[2] \in Nat
          BY <1>1 DEF Bfs, ByDepth
      <3> QED BY <2>2, <2>7, <3>1, <3>2
    <2> HIDE DEF Distance
    <2> QED BY <2>2, <2>9, <2>10
  <1> QED BY <1>8, <1>9, <1>10 DEF CrawlComplete

-----------------------------------------------------------------------------
(* The two loops that enqueue URLs at one depth more than c.depth, from a  *)
(* list of which reached was met so far.                                   *)

Grown(acc, reached, c) ==
    /\ acc.frontier \in Seq(Visit) /\ Ordered(acc.frontier)
    /\ \A x \in ToSet(acc.frontier) : x[2] <= c.depth + 1
    /\ acc.queued = c.queued \cup reached
    /\ ToSet(c.frontier) \subseteq ToSet(acc.frontier)
    /\ \A x \in ToSet(acc.frontier) :
         x \in ToSet(c.frontier) \/ (x[1] \in reached \ c.queued /\ x[2] = c.depth + 1)
    /\ acc.queued \ c.queued \subseteq Places(acc.frontier)

(* The head and the tail of an ordered sequence.                           *)
LEMMA OrderedTail ==
    ASSUME NEW s \in Seq(Visit), s # <<>>, Ordered(s)
    PROVE  /\ Ordered(Tail(s)) /\ ToSet(Tail(s)) \subseteq ToSet(s) /\ Head(s) \in ToSet(s)
           /\ \A x \in ToSet(s) : Head(s)[2] <= x[2] /\ (x = Head(s) \/ x \in ToSet(Tail(s)))
  <1> DEFINE t == Tail(s)
  <1>1. /\ t \in Seq(Visit) /\ Len(t) = Len(s) - 1 /\ Len(s) \in Nat \ {0} /\ Head(s) = s[1]
        /\ \A i \in 1..Len(t) : t[i] = s[i + 1]
      OBVIOUS
  <1>2. \A i \in 1..Len(t) : i + 1 \in 1..Len(s)
      BY <1>1
  <1>3. 1 \in 1..Len(s) /\ \A i \in 1..Len(s) : 1 <= i
      BY <1>1
  <1>4. \A i \in 1..Len(s) : i = 1 \/ (i - 1 \in 1..Len(t) /\ i - 1 + 1 = i)
      BY <1>1
  <1> HIDE DEF t
  <1>5. Ordered(t)
    <2>1. ASSUME NEW i \in 1..Len(t), NEW k \in 1..Len(t), i <= k PROVE t[i][2] <= t[k][2]
      <3>1. i + 1 <= k + 1
          BY <2>1
      <3> QED BY <1>1, <1>2, <3>1 DEF Ordered
    <2> QED BY <2>1 DEF Ordered
  <1>6. ToSet(t) \subseteq ToSet(s) /\ Head(s) \in ToSet(s)
      BY <1>1, <1>2, <1>3, Members
  <1>7. ASSUME NEW x \in ToSet(s) PROVE Head(s)[2] <= x[2] /\ (x = Head(s) \/ x \in ToSet(t))
    <2>1. PICK i \in 1..Len(s) : s[i] = x
        BY Members
    <2>2. Head(s)[2] <= x[2]
        BY <1>1, <1>3, <2>1 DEF Ordered
    <2>3. ASSUME i # 1 PROVE x \in ToSet(t)
      <3>1. i - 1 \in 1..Len(t) /\ t[i - 1] = x
          BY <1>1, <1>4, <2>1, <2>3
      <3>2. t \in Seq(Visit)
          BY <1>1
      <3> QED BY <3>1, <3>2, Members
    <2> QED BY <1>1, <2>1, <2>2, <2>3
  <1> QED BY <1>5, <1>6, <1>7 DEF t

LEMMA OrderedAppend ==
    ASSUME NEW s \in Seq(Visit), NEW e \in Visit, Ordered(s), \A x \in ToSet(s) : x[2] <= e[2]
    PROVE  Ordered(Append(s, e)) /\ ToSet(Append(s, e)) = ToSet(s) \cup {e}
  <1> DEFINE f == Append(s, e)
  <1>1. /\ Len(f) = Len(s) + 1 /\ f[Len(s) + 1] = e /\ Len(s) \in Nat
        /\ \A i \in 1..Len(s) : f[i] = s[i]
      OBVIOUS
  <1>2. \A i \in 1..Len(s) : s[i][2] <= e[2]
      BY Members
  <1>3. e[2] <= e[2]
      BY DEF Visit
  <1>4. ToSet(f) = ToSet(s) \cup {e}
      BY Added
  <1> HIDE DEF f
  <1>5. ASSUME NEW i \in 1..Len(f), NEW k \in 1..Len(f), i <= k PROVE f[i][2] <= f[k][2]
    <2>1. CASE k \in 1..Len(s)
      <3>1. i \in 1..Len(s)
          BY <1>1, <1>5, <2>1
      <3> QED BY <1>1, <1>5, <2>1, <3>1 DEF Ordered
    <2>2. CASE k = Len(s) + 1
      <3>1. i \in 1..Len(s) \/ i = k
          BY <1>1, <2>2
      <3> QED BY <1>1, <1>2, <1>3, <2>2, <3>1
    <2> QED BY <1>1, <2>1, <2>2
  <1>6. Ordered(f)
      BY <1>5 DEF Ordered
  <1> QED BY <1>4, <1>6 DEF f

LEMMA EnqueueGrows ==
    ASSUME NEW acc, NEW reached, NEW c, NEW url \in SameSite, NEW depth \in Nat, c.depth + 1 = depth,
           Grown(acc, reached, c)
    PROVE  Grown(Enqueue(acc, url, depth), reached \cup {url}, c)
  <1>1. CASE url \in acc.queued
    <2>1. Enqueue(acc, url, depth) = acc /\ url \in c.queued \cup reached
        BY <1>1 DEF Enqueue, Grown
    <2> QED BY <2>1 DEF Grown
  <1>2. CASE url \notin acc.queued
    <2> DEFINE new == Enqueue(acc, url, depth)
               e == <<url, depth>>
               f == Append(acc.frontier, e)
    <2>1. new.frontier = f /\ new.queued = acc.queued \cup {url}
        BY <1>2 DEF Enqueue
    <2>2. e \in Visit /\ e[1] = url /\ e[2] = depth /\ acc.frontier \in Seq(Visit)
        BY DEF Visit, Grown
    <2>3. f \in Seq(Visit) /\ Places(f) = Places(acc.frontier) \cup {url}
        BY <2>2, Entered
    <2>4. Ordered(f) /\ ToSet(f) = ToSet(acc.frontier) \cup {e}
        BY <2>2, OrderedAppend DEF Grown
    <2>5. depth <= c.depth + 1 /\ url \notin c.queued
        BY <1>2 DEF Grown
    <2> HIDE DEF new, f, e
    <2>6. Grown(new, reached \cup {url}, c)
        BY <2>1, <2>2, <2>3, <2>4, <2>5 DEF Grown
    <2> QED BY <2>6 DEF new
  <1> QED BY <1>1, <1>2

LEMMA NothingMet ==
    ASSUME NEW c, c.frontier \in Seq(Visit), Ordered(c.frontier),
           \A x \in ToSet(c.frontier) : x[2] <= c.depth + 1
    PROVE  Grown([frontier |-> c.frontier, queued |-> c.queued], {}, c)
  BY DEF Grown

(* The seeds, and the links of a page, among the first k of the list.      *)
SeedsMet(seeds, k) == {Normal[seeds[i]] : i \in 1..k} \cap SameSite
LinksMet(links, k) ==
    {Normal[links[i].to] : i \in {h \in 1..k : links[h].internal /\ links[h].to \notin Assets}}

SownAt(acc, k, c) == Grown(acc, SeedsMet(c.list, k), c)
LinkedAt(acc, k, c) == Grown(acc, LinksMet(c.list, k), c)
SownWell == INSTANCE FoldInduction WITH op <- SowOp, Holds <- SownAt
LinkedWell == INSTANCE FoldInduction WITH op <- Follow, Holds <- LinkedAt

LEMMA OneMoreMet ==
    ASSUME NEW k \in Nat, NEW list
    PROVE  /\ SeedsMet(list, k + 1) = SeedsMet(list, k) \cup ({Normal[list[k + 1]]} \cap SameSite)
           /\ LinksMet(list, k + 1) =
                LinksMet(list, k) \cup IF list[k + 1].internal /\ list[k + 1].to \notin Assets
                                       THEN {Normal[list[k + 1].to]} ELSE {}
           /\ SeedsMet(list, 0) = {} /\ LinksMet(list, 0) = {}
  <1>1. \A i : i \in 1..(k + 1) <=> i \in 1..k \/ i = k + 1
      OBVIOUS
  <1>2. 1..0 = {}
      OBVIOUS
  <1>3. SeedsMet(list, k + 1) = SeedsMet(list, k) \cup ({Normal[list[k + 1]]} \cap SameSite)
      BY <1>1 DEF SeedsMet
  <1>4. LinksMet(list, k + 1) =
          LinksMet(list, k) \cup IF list[k + 1].internal /\ list[k + 1].to \notin Assets
                                 THEN {Normal[list[k + 1].to]} ELSE {}
      BY <1>1 DEF LinksMet
  <1>5. SeedsMet(list, 0) = {} /\ LinksMet(list, 0) = {}
      BY <1>2 DEF SeedsMet, LinksMet
  <1> QED BY <1>3, <1>4, <1>5

LEMMA SowsWell ==
    ASSUME NEW S, NEW seeds \in Seq(S)
    PROVE  Grown(FoldLeft(Sow, [frontier |-> <<<<Start, 0>>>>, queued |-> {Start}], seeds),
                 SeedsMet(seeds, Len(seeds)),
                 [frontier |-> <<<<Start, 0>>>>, queued |-> {Start}, depth |-> 0, list |-> seeds])
  <1> DEFINE base == [frontier |-> <<<<Start, 0>>>>, queued |-> {Start}]
             c == [frontier |-> <<<<Start, 0>>>>, queued |-> {Start}, depth |-> 0, list |-> seeds]
  <1>1. c.list = seeds /\ c.depth = 0 /\ base = [frontier |-> c.frontier, queued |-> c.queued]
      OBVIOUS
  <1>2. /\ c.frontier \in Seq(Visit) /\ Ordered(c.frontier)
        /\ \A x \in ToSet(c.frontier) : x[2] <= c.depth + 1
    <2>1. PICK e : e = <<Start, 0>> /\ e \in Visit /\ e[2] = 0
      <3>1. <<Start, 0>> \in Visit /\ <<Start, 0>>[2] = 0
          BY CrawlerAssumption DEF Visit
      <3> QED BY <3>1
    <2>2. PICK s : s = <<e>> /\ s \in Seq(Visit) /\ Len(s) = 1 /\ s[1] = e
      <3>1. <<e>> \in Seq(Visit) /\ Len(<<e>>) = 1 /\ <<e>>[1] = e
          BY <2>1
      <3> QED BY <3>1
    <2>3. \A i \in 1..Len(s) : s[i] = e
        BY <2>2
    <2>4. Ordered(s)
        BY <2>1, <2>3 DEF Ordered
    <2>5. ASSUME NEW x \in ToSet(s) PROVE x = e
      <3>1. s \in Seq(Visit)
          BY <2>2
      <3>2. \E i \in 1..Len(s) : s[i] = x
          BY <3>1, Members
      <3> QED BY <2>3, <3>2
    <2>6. c.frontier = s /\ e[2] <= c.depth + 1
        BY <2>1, <2>2
    <2> HIDE DEF c
    <2> QED BY <2>2, <2>4, <2>5, <2>6
  <1>3. FoldLeft(Sow, base, seeds) = SownWell!Folded(base, seeds, 0)
      BY DEF SownWell!Folded, SowOp, FoldLeft, MapThenFoldSet, Max,
             SownWell!FoldLeft, SownWell!MapThenFoldSet, SownWell!Max
  <1> HIDE DEF base, c
  <1>4. SownAt(base, 0, c)
    <2>1. SeedsMet(c.list, 0) = {}
        BY OneMoreMet
    <2>2. Grown([frontier |-> c.frontier, queued |-> c.queued], {}, c)
        BY <1>2, NothingMet
    <2> QED BY <1>1, <2>1, <2>2 DEF SownAt
  <1>5. ASSUME NEW k \in 0..(Len(seeds) - 1), NEW acc, SownAt(acc, k, c)
        PROVE  SownAt(SowOp(acc, seeds[k + 1], 0), k + 1, c)
    <2>1. k \in Nat /\ c.depth + 1 = 1 /\ 1 \in Nat
        BY <1>1
    <2>2. SeedsMet(c.list, k + 1) = SeedsMet(c.list, k) \cup ({Normal[seeds[k + 1]]} \cap SameSite)
        BY <1>1, <2>1, OneMoreMet
    <2>3. CASE Normal[seeds[k + 1]] \in SameSite
      <3>1. Grown(Enqueue(acc, Normal[seeds[k + 1]], 1), SeedsMet(c.list, k) \cup {Normal[seeds[k + 1]]}, c)
          BY <1>5, <2>1, <2>3, EnqueueGrows DEF SownAt
      <3> QED BY <2>2, <2>3, <3>1 DEF SownAt, SowOp, Sow
    <2>4. CASE Normal[seeds[k + 1]] \notin SameSite
        BY <1>5, <2>2, <2>4 DEF SownAt, SowOp, Sow
    <2> QED BY <2>3, <2>4
  <1>6. SownAt(SownWell!Folded(base, seeds, 0), Len(seeds), c)
      BY <1>4, <1>5, SownWell!FoldKeeps
  <1>7. Grown(FoldLeft(Sow, base, seeds), SeedsMet(seeds, Len(seeds)), c)
      BY <1>1, <1>3, <1>6 DEF SownAt
  <1> QED BY <1>7 DEF base, c

LEMMA FollowsWell ==
    ASSUME NEW S, NEW links \in Seq(S), NEW f \in Seq(Visit), NEW q, NEW depth \in Nat,
           Ordered(f), \A x \in ToSet(f) : x[2] <= depth + 1,
           \A l \in ToSet(links) : l.internal /\ l.to \notin Assets => Normal[l.to] \in SameSite
    PROVE  Grown(FollowAll([frontier |-> f, queued |-> q], links, depth), LinksMet(links, Len(links)),
                 [frontier |-> f, queued |-> q, depth |-> depth, list |-> links])
  <1> DEFINE base == [frontier |-> f, queued |-> q]
             c == [frontier |-> f, queued |-> q, depth |-> depth, list |-> links]
  <1>1. /\ c.list = links /\ c.depth = depth /\ c.frontier = f
        /\ base = [frontier |-> c.frontier, queued |-> c.queued]
      OBVIOUS
  <1>2. FollowAll(base, links, depth) = LinkedWell!Folded(base, links, depth)
      BY DEF FollowAll, LinkedWell!Folded, FoldLeft, MapThenFoldSet, Max,
             LinkedWell!FoldLeft, LinkedWell!MapThenFoldSet, LinkedWell!Max
  <1> HIDE DEF base, c
  <1>3. LinkedAt(base, 0, c)
    <2>1. LinksMet(c.list, 0) = {}
        BY OneMoreMet
    <2>2. Grown([frontier |-> c.frontier, queued |-> c.queued], {}, c)
        BY <1>1, NothingMet
    <2> QED BY <1>1, <2>1, <2>2 DEF LinkedAt
  <1>4. ASSUME NEW k \in 0..(Len(links) - 1), NEW acc, LinkedAt(acc, k, c)
        PROVE  LinkedAt(Follow(acc, links[k + 1], depth), k + 1, c)
    <2> DEFINE link == links[k + 1]
               on == link.internal /\ link.to \notin Assets
    <2>1. k \in Nat /\ c.depth + 1 = depth + 1 /\ depth + 1 \in Nat /\ k + 1 \in 1..Len(links)
        BY <1>1
    <2>2. LinksMet(c.list, k + 1) = LinksMet(c.list, k) \cup IF on THEN {Normal[link.to]} ELSE {}
        BY <1>1, <2>1, OneMoreMet
    <2>3. CASE on
      <3>1. Normal[link.to] \in SameSite
          BY <2>1, <2>3, Members
      <3>2. Grown(Enqueue(acc, Normal[link.to], depth + 1), LinksMet(c.list, k) \cup {Normal[link.to]}, c)
          BY <1>4, <2>1, <3>1, EnqueueGrows DEF LinkedAt
      <3> QED BY <2>2, <2>3, <3>2 DEF LinkedAt, Follow
    <2>4. CASE ~on
        BY <1>4, <2>2, <2>4 DEF LinkedAt, Follow
    <2> QED BY <2>3, <2>4
  <1>5. LinkedAt(LinkedWell!Folded(base, links, depth), Len(links), c)
      BY <1>3, <1>4, LinkedWell!FoldKeeps
  <1>6. Grown(FollowAll(base, links, depth), LinksMet(links, Len(links)), c)
      BY <1>1, <1>2, <1>5 DEF LinkedAt
  <1> QED BY <1>6 DEF base, c

-----------------------------------------------------------------------------
(* The steps of a crawl without failures.                                  *)

LEMMA SameMeaning ==
    ASSUME UNCHANGED <<site, lines, maps>>
    PROVE  /\ \A x : Right(x)' <=> Right(x)
           /\ \A u : Targets(u)' = Targets(u) /\ (allowed(u)' <=> allowed(u))
           /\ Seeds' = Seeds
  <1>1. Within' = Within
      BY SameWithin
  <1>2. \A x : Right(x)' <=> Right(x)
      BY <1>1 DEF Right, Nearest
  <1> QED BY <1>2, SameTargets

LEMMA BfsStays ==
    ASSUME Bfs, UNCHANGED <<site, lines, maps, frontier, queued, batch>>, Visited' = Visited
    PROVE  Bfs'
  <1>1. Ahead' = Ahead /\ Done' = Done /\ Taken' = Taken
      BY DEF Ahead, Done, Taken
  <1>2. ByDepth'
      BY <1>1 DEF Bfs, ByDepth, Ordered
  <1>3. Placed'
      BY <1>1, SameMeaning DEF Bfs, Placed
  <1>4. Covered'
    <2>1. \A u : Kept(u)' <=> Kept(u)
        BY <1>1, SameMeaning DEF Kept
    <2> QED BY <1>1, <2>1, SameMeaning DEF Bfs, Covered
  <1> QED BY <1>2, <1>3, <1>4 DEF Bfs

LEMMA TakeNextBfs == ASSUME CrawlInv, Bfs, TakeNext PROVE Bfs'
  <1>1. PICK next : next = Head(frontier)
      OBVIOUS
  <1>2. /\ frontier # <<>> /\ frontier' = Tail(frontier)
        /\ UNCHANGED <<site, lines, maps, queued, pages>>
        /\ \/ batch' = batch /\ (next[2] > MaxDepth \/ ~allowed(next[1]))
           \/ batch' = Append(batch, next)
      BY <1>1 DEF TakeNext
  <1>3. /\ frontier \in Seq(Visit) /\ batch \in Seq(Visit) /\ Apart(frontier) /\ MaxDepth \in Nat
        /\ \A x \in Visit : x[2] \in Nat
      BY VisitTypes, CrawlerAssumption DEF CrawlInv, Waiting, Now
  <1>4. /\ next \in Visit /\ Places(frontier') = Places(frontier) \ {next[1]}
      BY <1>1, <1>2, <1>3, Leaves
  <1>5. /\ Ordered(frontier') /\ ToSet(frontier') \subseteq ToSet(frontier) /\ next \in ToSet(frontier)
        /\ \A x \in ToSet(frontier) : next[2] <= x[2]
      BY <1>1, <1>2, <1>3, OrderedTail DEF Bfs, ByDepth
  <1>6. Visited' = Visited /\ Done' = Done
      BY <1>2 DEF Visited, Done
  <1>7. /\ Ordered(batch') /\ ToSet(batch) \subseteq ToSet(batch')
        /\ ToSet(batch') \subseteq ToSet(batch) \cup {next}
        /\ Places(batch) \subseteq Places(batch')
        /\ \/ next[1] \in Places(batch')
           \/ next[2] > MaxDepth \/ ~allowed(next[1])
    <2>1. CASE batch' = batch /\ (next[2] > MaxDepth \/ ~allowed(next[1]))
        BY <2>1 DEF Bfs, ByDepth
    <2>2. CASE batch' = Append(batch, next)
      <3>1. \A x \in ToSet(batch) : x[2] <= next[2]
          BY <1>5 DEF Bfs, ByDepth
      <3>2. Ordered(Append(batch, next)) /\ ToSet(Append(batch, next)) = ToSet(batch) \cup {next}
          BY <1>3, <1>4, <3>1, OrderedAppend DEF Bfs, ByDepth
      <3>3. Places(Append(batch, next)) = Places(batch) \cup {next[1]}
          BY <1>3, <1>4, Entered
      <3> QED BY <2>2, <3>2, <3>3
    <2> QED BY <1>2, <2>1, <2>2
  <1>8. Ahead' \subseteq Ahead
      BY <1>5, <1>7 DEF Ahead
  <1>9. ByDepth'
    <2>1. \A x \in ToSet(batch'), y \in ToSet(frontier') : x[2] <= y[2]
        BY <1>5, <1>7 DEF Bfs, ByDepth
    <2>2. Ordered(batch)' /\ Ordered(frontier)'
        BY <1>5, <1>7 DEF Ordered
    <2> QED BY <1>6, <1>8, <2>1, <2>2 DEF Bfs, ByDepth
  <1>10. Placed'
      BY <1>2, <1>6, <1>8, SameMeaning DEF Bfs, Placed
  <1>11. ASSUME NEW u \in queued PROVE Kept(u)'
    <2>1. /\ allowed(u)' <=> allowed(u)
          /\ Taken \subseteq Taken' /\ Places(batch') \subseteq Taken'
        BY <1>2, <1>6, <1>7, SameMeaning DEF Taken
    <2>2. Kept(u)
        BY <1>11 DEF Bfs, Covered
    <2>3. CASE u # next[1] \/ u \notin Places(frontier)
        BY <1>4, <2>1, <2>2, <2>3 DEF Kept
    <2>4. CASE u = next[1] /\ u \in Places(batch')
        BY <2>1, <2>4 DEF Kept
    <2>5. CASE u = next[1] /\ ~allowed(next[1])
        BY <2>1, <2>5 DEF Kept
    <2>6. CASE u = next[1] /\ next[2] > MaxDepth
      <3>1. Right(next)
          BY <1>5 DEF Bfs, Placed, Ahead
      <3>2. ~Nearest(next[1], next[2])
          BY <1>3, <1>4, <2>6 DEF Nearest
      <3>3. MaxDepth = 0 /\ u # Start
          BY <2>6, <3>1, <3>2 DEF Right
      <3> QED BY <3>3 DEF Kept
    <2> QED BY <1>7, <2>3, <2>4, <2>5, <2>6
  <1>12. Covered'
      BY <1>2, <1>6, <1>11, SameMeaning DEF Bfs, Covered
  <1> QED BY <1>9, <1>10, <1>12 DEF Bfs

(* What Seed leaves behind.                                                *)
Sowed ==
    /\ batch = <<>> /\ pages = <<>> /\ Malformed \notin ToSet(First(maps.locs, MaxPages))
    /\ LET acc == FoldLeft(Sow, [frontier |-> <<<<Start, 0>>>>, queued |-> {Start}],
                           First(maps.locs, MaxPages))
       IN  frontier = acc.frontier /\ queued = acc.queued

LEMMA SowedBfs == CrawlInv /\ Sowed => Bfs
  <1> SUFFICES ASSUME CrawlInv, Sowed PROVE Bfs
      OBVIOUS
  <1>1. PICK seeds : seeds = First(maps.locs, MaxPages)
      OBVIOUS
  <1>2. seeds \in Seq(Addresses)
    <2>1. maps.locs \in Seq(Addresses) /\ MaxPages \in Nat
        BY CrawlerAssumption DEF CrawlInv, MapsTyped
    <2> QED BY <1>1, <2>1, Cut
  <1>3. PICK acc : /\ acc = FoldLeft(Sow, [frontier |-> <<<<Start, 0>>>>, queued |-> {Start}], seeds)
                   /\ frontier = acc.frontier /\ queued = acc.queued
      BY <1>1 DEF Sowed
  <1>4. PICK c : c = [frontier |-> <<<<Start, 0>>>>, queued |-> {Start}, depth |-> 0, list |-> seeds]
      OBVIOUS
  <1>5. Grown(acc, SeedsMet(seeds, Len(seeds)), c)
      BY <1>2, <1>3, <1>4, SowsWell
  <1>6. Seeds = SeedsMet(seeds, Len(seeds))
    <2>1. \A x : x \in ToSet(seeds) <=> \E i \in 1..Len(seeds) : seeds[i] = x
        BY <1>2, Members
    <2>2. Malformed \notin ToSet(seeds)
        BY <1>1 DEF Sowed
    <2> QED BY <1>1, <2>1, <2>2 DEF Seeds, SeedsMet
  <1>7. c.queued = {Start} /\ c.depth = 0 /\ ToSet(c.frontier) = {<<Start, 0>>}
    <2>1. PICK s : s = <<<<Start, 0>>>>
        OBVIOUS
    <2>2. Len(s) = 1 /\ s \in Seq({<<Start, 0>>}) /\ s[1] = <<Start, 0>>
        BY <2>1
    <2>3. ToSet(s) = {<<Start, 0>>}
        BY <2>2, Members
    <2> QED BY <1>4, <2>1, <2>3
  <1>8. /\ frontier \in Seq(Visit) /\ Ordered(frontier) /\ queued = {Start} \cup Seeds
        /\ \A x \in ToSet(frontier) : x[2] <= 1 /\ x[2] \in Nat
        /\ <<Start, 0>> \in ToSet(frontier) /\ queued \ {Start} \subseteq Places(frontier)
        /\ \A x \in ToSet(frontier) : x = <<Start, 0>> \/ (x[1] \in Seeds \ {Start} /\ x[2] = 1)
    <2>1. /\ frontier \in Seq(Visit) /\ Ordered(frontier) /\ queued = {Start} \cup Seeds
          /\ \A x \in ToSet(frontier) : x[2] <= 0 + 1
          /\ <<Start, 0>> \in ToSet(frontier) /\ queued \ {Start} \subseteq Places(frontier)
          /\ \A x \in ToSet(frontier) : x = <<Start, 0>> \/ (x[1] \in Seeds \ {Start} /\ x[2] = 0 + 1)
        BY <1>3, <1>5, <1>6, <1>7 DEF Grown
    <2>2. \A x \in ToSet(frontier) : x[2] \in Nat
        BY <2>1, Members DEF Visit
    <2> QED BY <2>1, <2>2
  <1>9. ToSet(batch) = {} /\ Done = {} /\ Ordered(batch)
    <2>1. batch = <<>> /\ Visited = <<>>
        BY DEF Sowed, Visited
    <2>2. Ordered(<<>>) /\ ToSet(<<>>) = {}
        BY DEF Ordered, ToSet
    <2> QED BY <2>1, <2>2 DEF Done
  <1>10. Ahead = ToSet(frontier)
      BY <1>9 DEF Ahead
  <1>11. ByDepth
    <2>1. \A x, y \in Ahead : y[2] <= x[2] + 1
        BY <1>8, <1>10
    <2> QED BY <1>8, <1>9, <2>1 DEF ByDepth
  <1>12. MaxDepth \in Nat /\ 0 \in 0..MaxDepth /\ Within[0] = {Start}
    <2>1. MaxDepth \in Nat /\ 0 \in 0..MaxDepth
        BY CrawlerAssumption
    <2> QED BY <2>1, WithinAt
  <1>13. ASSUME NEW x \in ToSet(frontier) PROVE Right(x)
    <2>1. CASE x = <<Start, 0>>
      <3>1. x[1] = Start /\ x[2] = 0
          BY <2>1
      <3> QED BY <1>12, <3>1 DEF Right, Nearest
    <2>2. CASE x[1] \in Seeds \ {Start} /\ x[2] = 1 /\ MaxDepth = 0
        BY <2>2 DEF Right
    <2>3. CASE x[1] \in Seeds \ {Start} /\ x[2] = 1 /\ MaxDepth # 0
      <3>1. 1 \in 0..MaxDepth /\ 1 - 1 = 0 /\ 1 # 0 /\ 1 <= MaxDepth
          BY <1>12, <2>3
      <3>2. Within[1] = Onward(Within[0], 1)
          BY <3>1, WithinAt
      <3>3. x[1] \in Within[1]
          BY <2>3, <3>2 DEF Onward
      <3>4. \A m \in 0..(1 - 1) : m = 0
          OBVIOUS
      <3>5. \A m \in 0..(1 - 1) : x[1] \notin Within[m]
          BY <1>12, <2>3, <3>4
      <3> QED BY <2>3, <3>1, <3>3, <3>5 DEF Right, Nearest
    <2> QED BY <1>8, <2>1, <2>2, <2>3
  <1>14. Placed
      BY <1>9, <1>10, <1>13 DEF Placed
  <1>15. Start \in Places(frontier)
      BY <1>8, Located
  <1>16. Covered
      BY <1>8, <1>9, <1>15 DEF Covered, Kept
  <1> QED BY <1>11, <1>14, <1>16 DEF Bfs

LEMMA SeedBfs == ASSUME CrawlInv, Seed, phase' = "fill" PROVE Bfs'
  <1>1. CrawlInv'
      BY SeedKept
  <1>2. batch = <<>> /\ pages = <<>> /\ "locs" \in DOMAIN maps
      BY DEF CrawlInv, Early, MapsTyped, Seed
  <1>3. maps'.locs = Deduplicated(maps.locs) /\ batch' = batch /\ pages' = pages
      BY <1>2 DEF Seed
  <1>4. /\ Malformed \notin ToSet(First(maps'.locs, MaxPages))
        /\ LET acc == FoldLeft(Sow, [frontier |-> <<<<Start, 0>>>>, queued |-> {Start}],
                               First(maps'.locs, MaxPages))
           IN  frontier' = acc.frontier /\ queued' = acc.queued
      BY <1>3 DEF Seed
  <1>5. Sowed'
      BY <1>2, <1>3, <1>4 DEF Sowed
  <1> QED BY <1>1, <1>5, SowedBfs, PTL

LEMMA SamePage ==
    ASSUME WellFormed(site), NEW url \in SameSite, NEW depth, NEW page,
           page = [site.web[url] EXCEPT !.depth = depth]
    PROVE  page.links = site.web[url].links /\ (is_ok(page) <=> is_ok(site.web[url]))
  <1>1. PICK web : web = site.web[url]
      OBVIOUS
  <1>2. DOMAIN web = DOMAIN Blank(url)
      BY <1>1 DEF WellFormed
  <1>3. {"links", "status", "error", "depth"} \subseteq DOMAIN web
      BY <1>2 DEF Blank
  <1>4. page.links = web.links /\ page.status = web.status /\ page.error = web.error
      BY <1>1, <1>3
  <1> QED BY <1>1, <1>4 DEF is_ok

(* What absorbing a page of depth d does to the frontier and the queue.    *)
LEMMA AbsorbGrows ==
    ASSUME CrawlInv, SiteKnown, Bfs, Absorb, Head(answers) = "answer", phase' # "failed",
           NEW v, v = Head(batch)
    PROVE  /\ v[1] \in SameSite /\ v[2] \in Nat
           /\ UNCHANGED <<site, lines, maps>> /\ batch' = Tail(batch) /\ batch # <<>>
           /\ Visited' = Append(Visited, v)
           /\ frontier' \in Seq(Visit) /\ Ordered(frontier') /\ ToSet(frontier) \subseteq ToSet(frontier')
           /\ \A x \in ToSet(frontier') :
                \/ x \in ToSet(frontier)
                \/ /\ x[1] \in Targets(v[1]) \ queued /\ x[2] = v[2] + 1 /\ v[2] < MaxDepth
           /\ queued \subseteq queued' /\ queued' \ queued \subseteq Places(frontier')
           /\ v[2] < MaxDepth => Targets(v[1]) \subseteq queued'
  <1>1. PICK page : page = [site.web[v[1]] EXCEPT !.depth = v[2]]
      OBVIOUS
  <1>2. PICK acc : acc = FollowAll([frontier |-> frontier, queued |-> queued], page.links, v[2])
      OBVIOUS
  <1>3. /\ batch # <<>> /\ batch' = Tail(batch) /\ UNCHANGED <<site, lines, maps>>
        /\ pages' = Append(pages, page)
        /\ (v[2] >= MaxDepth \/ ~is_ok(page)) => UNCHANGED <<frontier, queued>>
        /\ ~(v[2] >= MaxDepth \/ ~is_ok(page)) => frontier' = acc.frontier /\ queued' = acc.queued
      BY <1>1, <1>2 DEF Absorb
  <1>4. /\ frontier \in Seq(Visit) /\ batch \in Seq(Visit) /\ MaxDepth \in Nat
        /\ \A x \in Visit : x[1] \in SameSite /\ x[2] \in Nat
      BY VisitTypes, CrawlerAssumption
  <1>5. v \in Visit /\ v \in ToSet(batch) /\ allowed(v[1])
    <2>1. v \in Visit /\ \E i \in 1..Len(batch) : batch[i] = v
        BY <1>3, <1>4, Leaves
    <2> QED BY <1>4, <2>1, Members DEF CrawlInv, Asked, Fit
  <1>6. v[1] \in SameSite /\ v[2] \in Nat
      BY <1>4, <1>5
  <1>7. WellFormed(site)
      BY SiteFacts
  <1>8. PICK S : page.links \in Seq(S)
      BY <1>1, <1>6, <1>7, PageFacts DEF Parsed
  <1>9. Parsed(page, v[1], v[2])
      BY <1>1, <1>6, <1>7, PageFacts
  <1>10. Visited' = Append(Visited, v)
      BY <1>3, <1>5, <1>9, OneMorePage DEF Parsed, CrawlInv
  <1>11. page.links = site.web[v[1]].links /\ (is_ok(page) <=> is_ok(site.web[v[1]]))
      BY <1>1, <1>6, <1>7, SamePage
  <1>12. CASE v[2] >= MaxDepth \/ ~is_ok(page)
    <2>1. v[2] < MaxDepth => Targets(v[1]) = {}
        BY <1>4, <1>6, <1>11, <1>12 DEF Targets
    <2>2. frontier' = frontier /\ queued' = queued
        BY <1>3, <1>12
    <2>3. Ordered(frontier')
        BY <2>2 DEF Bfs, ByDepth
    <2> QED BY <1>3, <1>4, <1>6, <1>10, <2>1, <2>2, <2>3
  <1>13. CASE ~(v[2] >= MaxDepth \/ ~is_ok(page))
    <2>1. Targets(v[1]) = LinksMet(page.links, Len(page.links))
      <3>1. \A l : l \in ToSet(page.links) <=> \E i \in 1..Len(page.links) : page.links[i] = l
          BY <1>8, Members
      <3>2. Targets(v[1]) = {Normal[l.to] : l \in {x \in ToSet(page.links) : x.internal /\ x.to \notin Assets}}
          BY <1>5, <1>11, <1>13 DEF Targets
      <3> QED BY <3>1, <3>2 DEF LinksMet
    <2>2. PICK c : c = [frontier |-> frontier, queued |-> queued, depth |-> v[2], list |-> page.links]
        OBVIOUS
    <2>3. \A x \in ToSet(frontier) : x[2] <= v[2] + 1
        BY <1>5 DEF Bfs, ByDepth, Ahead
    <2>4. Grown(acc, Targets(v[1]), c)
      <3>1. Ordered(frontier)
          BY DEF Bfs, ByDepth
      <3>2. \A l \in ToSet(page.links) : l.internal /\ l.to \notin Assets => Normal[l.to] \in SameSite
          BY <1>9 DEF Parsed
      <3> QED BY <1>2, <1>4, <1>6, <1>8, <2>1, <2>2, <2>3, <3>1, <3>2, FollowsWell
    <2>5. c.frontier = frontier /\ c.queued = queued /\ c.depth = v[2]
        BY <2>2
    <2>6. frontier' = acc.frontier /\ queued' = acc.queued /\ v[2] < MaxDepth
        BY <1>3, <1>4, <1>6, <1>13
    <2>7. /\ frontier' \in Seq(Visit) /\ Ordered(frontier') /\ ToSet(frontier) \subseteq ToSet(frontier')
          /\ \A x \in ToSet(frontier') :
                x \in ToSet(frontier) \/ (x[1] \in Targets(v[1]) \ queued /\ x[2] = v[2] + 1)
          /\ queued' = queued \cup Targets(v[1]) /\ queued' \ queued \subseteq Places(frontier')
        BY <2>4, <2>5, <2>6 DEF Grown
    <2> QED BY <1>3, <1>6, <1>10, <2>6, <2>7
  <1> QED BY <1>12, <1>13

LEMMA AbsorbBfs ==
    ASSUME CrawlInv, SiteKnown, Bfs, Absorb, Head(answers) = "answer", phase' # "failed"
    PROVE  Bfs'
  <1>1. PICK v : v = Head(batch)
      OBVIOUS
  <1> DEFINE d == v[2]
             New(x) == x[1] \in Targets(v[1]) \ queued /\ x[2] = d + 1 /\ d < MaxDepth
  <1>2. /\ v[1] \in SameSite /\ d \in Nat
        /\ UNCHANGED <<site, lines, maps>> /\ batch' = Tail(batch) /\ batch # <<>>
        /\ Visited' = Append(Visited, v)
        /\ frontier' \in Seq(Visit) /\ Ordered(frontier') /\ ToSet(frontier) \subseteq ToSet(frontier')
        /\ \A x \in ToSet(frontier') : x \in ToSet(frontier) \/ New(x)
        /\ queued \subseteq queued' /\ queued' \ queued \subseteq Places(frontier')
        /\ d < MaxDepth => Targets(v[1]) \subseteq queued'
      BY <1>1, AbsorbGrows
  <1>3. /\ frontier \in Seq(Visit) /\ batch \in Seq(Visit) /\ MaxDepth \in Nat /\ Visited \in Seq(Visit)
        /\ Ahead \subseteq Visit /\ Done \subseteq Visit /\ Apart(batch)
        /\ \A x \in Visit : x[1] \in SameSite /\ x[2] \in Nat
      BY VisitTypes, CrawlerAssumption DEF CrawlInv, Asked
  <1>4. v \in Visit /\ Places(batch') = Places(batch) \ {v[1]} /\ batch' \in Seq(Visit)
      BY <1>1, <1>2, <1>3, Leaves
  <1>5. /\ Ordered(batch') /\ ToSet(batch') \subseteq ToSet(batch) /\ v \in ToSet(batch)
        /\ \A x \in ToSet(batch) : d <= x[2]
      BY <1>1, <1>2, <1>3, OrderedTail DEF Bfs, ByDepth
  <1>6. Done' = Done \cup {v} /\ Places(Visited') = Places(Visited) \cup {v[1]}
      BY <1>2, <1>3, <1>4, Added, Entered DEF Done
  <1>7. v \in Ahead /\ \A x \in Ahead : d <= x[2] /\ x[2] <= d + 1
      BY <1>5 DEF Bfs, ByDepth, Ahead
  <1>8. ASSUME NEW x \in Ahead' PROVE x \in Ahead \/ (New(x) /\ x \in ToSet(frontier'))
      BY <1>2, <1>5 DEF Ahead
  <1>9. ASSUME NEW x \in Ahead' PROVE x[2] \in Nat /\ d <= x[2] /\ x[2] <= d + 1
    <2>1. CASE x \in Ahead
        BY <1>3, <1>7, <2>1
    <2>2. CASE New(x)
        BY <1>2, <2>2
    <2> QED BY <1>8, <2>1, <2>2
  <1>10. ByDepth'
    <2>1. \A x \in ToSet(batch'), y \in ToSet(frontier') : x[2] <= y[2]
      <3>1. ASSUME NEW x \in ToSet(batch'), NEW y \in ToSet(frontier') PROVE x[2] <= y[2]
        <4>1. x \in ToSet(batch) /\ x[2] <= d + 1
            BY <1>5, <1>7 DEF Ahead
        <4>2. CASE y \in ToSet(frontier)
            BY <4>1, <4>2 DEF Bfs, ByDepth
        <4>3. CASE New(y)
            BY <4>1, <4>3
        <4> QED BY <1>2, <4>2, <4>3
      <3> QED BY <3>1
    <2>2. \A x, y \in Ahead' : y[2] <= x[2] + 1
        BY <1>2, <1>9
    <2>3. \A x \in Done', y \in Ahead' : x[2] <= y[2]
      <3>1. ASSUME NEW x \in Done' PROVE x[2] \in Nat /\ x[2] <= d
          BY <1>2, <1>3, <1>6, <1>7 DEF Bfs, ByDepth
      <3> QED BY <1>2, <1>9, <3>1
    <2>4. Ordered(batch)' /\ Ordered(frontier)'
        BY <1>2, <1>5 DEF Ordered
    <2> QED BY <2>1, <2>2, <2>3, <2>4 DEF ByDepth
  <1>11. ASSUME NEW x, New(x) PROVE Right(x)
    <2>1. d \in 0..MaxDepth /\ d + 1 \in 0..MaxDepth /\ d + 1 # 0 /\ d + 1 - 1 = d /\ d + 1 <= MaxDepth
        BY <1>2, <1>3, <1>11
    <2>2. v[1] \in Within[d]
        BY <1>7, <2>1, <1>11 DEF Bfs, Placed, Right, Nearest
    <2>3. Within[d + 1] = Onward(Within[d], d + 1)
        BY <2>1, WithinAt
    <2>4. x[1] \in Within[d + 1]
        BY <1>11, <2>2, <2>3 DEF Onward
    <2>5. ASSUME NEW m \in 0..(d + 1 - 1) PROVE x[1] \notin Within[m]
      <3>1. m \in 0..MaxDepth /\ m <= d
          BY <1>2, <1>3, <2>1
      <3>2. \A y \in Ahead : ~(y[2] < m)
          BY <1>2, <1>3, <1>7, <3>1
      <3> QED BY <1>11, <3>1, <3>2, Closed
    <2> QED BY <1>11, <2>1, <2>4, <2>5 DEF Right, Nearest
  <1>12. Placed'
    <2>1. \A x \in Ahead' \cup Done' : Right(x)
        BY <1>6, <1>7, <1>8, <1>11 DEF Bfs, Placed
    <2> QED BY <1>2, <2>1, SameMeaning DEF Placed
  <1>13. ASSUME NEW u \in queued' PROVE Kept(u)'
    <2>1. Places(frontier) \subseteq Places(frontier')
      <3>1. ASSUME NEW w \in Places(frontier) PROVE w \in Places(frontier')
        <4>1. PICK x \in ToSet(frontier) : x[1] = w
            BY <1>3, Located
        <4>2. x \in ToSet(frontier')
            BY <1>2
        <4> QED BY <1>2, <4>1, <4>2, Located
      <3> QED BY <3>1
    <2>2. Taken \subseteq Taken'
        BY <1>4, <1>6 DEF Taken
    <2>3. CASE u \in queued
      <3>1. Kept(u) /\ (allowed(u)' <=> allowed(u))
          BY <1>2, <2>3, SameMeaning DEF Bfs, Covered
      <3> QED BY <2>1, <2>2, <3>1 DEF Kept
    <2>4. CASE u \notin queued
        BY <1>2, <1>13, <2>4 DEF Kept
    <2> QED BY <2>3, <2>4
  <1>14. Covered'
    <2>1. \A x \in Done' : x[2] < MaxDepth => Targets(x[1]) \subseteq queued'
        BY <1>2, <1>6 DEF Bfs, Covered
    <2>2. \A x \in Done' : x[2] < MaxDepth => Targets(x[1])' \subseteq queued'
        BY <1>2, <2>1, SameMeaning
    <2>3. Start \in queued' /\ Seeds' \subseteq queued'
        BY <1>2, SameMeaning DEF Bfs, Covered
    <2> QED BY <1>13, <2>2, <2>3 DEF Covered
  <1> QED BY <1>10, <1>12, <1>14 DEF Bfs

-----------------------------------------------------------------------------
(* The outbound links are finitely many, so that Finish counts failures.   *)

IsSome(acc, k, c) == \E S : acc \in Seq(S)
OutwardOp(acc, link, d) == Outward(acc, link)
OutwardOfOp(acc, p, d) == OutwardOf(acc, p)
Outs == INSTANCE FoldInduction WITH op <- OutwardOp, Holds <- IsSome
OutsOf == INSTANCE FoldInduction WITH op <- OutwardOfOp, Holds <- IsSome

LinksListed ==
    \A i \in 1..Len(pages) : "links" \in DOMAIN pages[i] /\ \E S : pages[i].links \in Seq(S)

LEMMA Outwards ==
    ASSUME NEW S, NEW links \in Seq(S), NEW base, IsSome(base, 0, 0)
    PROVE  IsSome(FoldLeft(Outward, base, links), 0, 0)
  <1>1. ASSUME NEW k \in 0..(Len(links) - 1), NEW acc, IsSome(acc, k, 0)
        PROVE  IsSome(OutwardOp(acc, links[k + 1], 0), k + 1, 0)
    <2>1. PICK Q : acc \in Seq(Q)
        BY <1>1 DEF IsSome
    <2>2. PICK e : e = Normal[links[k + 1].to]
        OBVIOUS
    <2>3. acc \in Seq(Q \cup {e}) /\ Append(acc, e) \in Seq(Q \cup {e})
        BY <2>1
    <2>4. OutwardOp(acc, links[k + 1], 0) \in {acc, Append(acc, e)}
        BY <2>2 DEF OutwardOp, Outward
    <2> QED BY <2>3, <2>4 DEF IsSome
  <1>2. IsSome(Outs!Folded(base, links, 0), Len(links), 0)
      BY <1>1, Outs!FoldKeeps
  <1>3. FoldLeft(Outward, base, links) = Outs!Folded(base, links, 0)
      BY DEF Outs!Folded, OutwardOp, FoldLeft, MapThenFoldSet, Max,
             Outs!FoldLeft, Outs!MapThenFoldSet, Outs!Max
  <1> QED BY <1>2, <1>3 DEF IsSome

LEMMA ExternalFinite == ASSUME CrawlInv, LinksListed PROVE IsFiniteSet(External)
  <1>1. PICK S : pages \in Seq(S)
      BY DEF CrawlInv, PagesTyped
  <1>2. IsSome(<<>>, 0, 0)
    <2>1. <<>> \in Seq({})
        OBVIOUS
    <2> QED BY <2>1 DEF IsSome
  <1>3. ASSUME NEW k \in 0..(Len(pages) - 1), NEW acc, IsSome(acc, k, 0)
        PROVE  IsSome(OutwardOfOp(acc, pages[k + 1], 0), k + 1, 0)
    <2>1. k + 1 \in 1..Len(pages)
        BY <1>1
    <2>2. PICK Q : pages[k + 1].links \in Seq(Q)
        BY <2>1 DEF LinksListed
    <2>3. IsSome(acc, 0, 0)
        BY <1>3 DEF IsSome
    <2>4. IsSome(FoldLeft(Outward, acc, pages[k + 1].links), 0, 0)
        BY <2>2, <2>3, Outwards
    <2> QED BY <2>3, <2>4 DEF IsSome, OutwardOfOp, OutwardOf
  <1>4. IsSome(OutsOf!Folded(<<>>, pages, 0), Len(pages), 0)
      BY <1>1, <1>2, <1>3, OutsOf!FoldKeeps
  <1>5. FoldLeft(OutwardOf, <<>>, pages) = OutsOf!Folded(<<>>, pages, 0)
      BY DEF OutsOf!Folded, OutwardOfOp, FoldLeft, MapThenFoldSet, Max,
             OutsOf!FoldLeft, OutsOf!MapThenFoldSet, OutsOf!Max
  <1>6. PICK Q, t : t \in Seq(Q) /\ External = ToSet(t)
      BY <1>4, <1>5 DEF IsSome, External
  <1>7. t \in Surjection(1..Len(t), ToSet(t))
    <2>1. t \in [1..Len(t) -> ToSet(t)]
        BY <1>6 DEF ToSet
    <2> QED BY <1>6, <2>1, Members DEF Surjection
  <1>8. IsFiniteSet(1..Len(t))
    <2>1. 1 \in Int /\ Len(t) \in Int
        BY <1>6
    <2> QED BY <2>1, FS_Interval
  <1> QED BY <1>6, <1>7, <1>8, FS_Surjection

-----------------------------------------------------------------------------
(* While no request of the audit has failed, its crawl is breadth-first.   *)

Answered ==
    phase = "fetch" => answers \in Seq({"none", "answer"}) /\ Len(answers) = Len(batch)
Clean == phase \in {"fill", "fetch", "crawled"} /\ faults = spent
Counted == faults \in Nat /\ spent \in Nat /\ spent <= faults
BfsInv ==
    /\ Counted /\ LinksListed /\ (auditing = "none" => phase = "idle")
    /\ Clean => Bfs /\ Over /\ Answered

LEMMA PagesListed ==
    ASSUME CrawlInv, SiteKnown, LinksListed, CrawlStep
    PROVE  LinksListed'
  <1>1. PICK S : pages \in Seq(S)
      BY DEF CrawlInv, PagesTyped
  <1>2. CASE pages' = pages
      BY <1>2 DEF LinksListed
  <1>3. CASE Absorb
    <2>1. PICK v, got, page :
             /\ v = Head(batch) /\ got \in {site.web[v[1]], Failure(v[1])}
             /\ page = [got EXCEPT !.depth = v[2]] /\ batch # <<>>
             /\ pages' = pages \/ pages' = Append(pages, page)
      <3>1. PICK v, got, page :
               /\ v = Head(batch)
               /\ got = IF Head(answers) = "answer" THEN site.web[v[1]] ELSE Failure(v[1])
               /\ page = [got EXCEPT !.depth = v[2]]
          OBVIOUS
      <3> QED BY <1>3, <3>1 DEF Absorb
    <2>2. v[1] \in SameSite
      <3>1. batch \in Seq(Visit)
          BY DEF CrawlInv, Asked
      <3>2. v \in Visit
          BY <2>1, <3>1, Leaves
      <3> QED BY <3>2 DEF Visit
    <2>3. "links" \in DOMAIN page /\ \E Q : page.links \in Seq(Q)
        BY <2>1, <2>2, SiteFacts, PageFacts DEF Parsed
    <2>4. CASE pages' = Append(pages, page)
      <3>1. \A i \in 1..Len(pages') : pages'[i] = page \/ (i \in 1..Len(pages) /\ pages'[i] = pages[i])
          BY <1>1, <2>4
      <3> QED BY <2>3, <3>1 DEF LinksListed
    <2> QED BY <1>2, <2>1, <2>4
  <1>4. CASE Finish
    <2>1. pages' = [i \in 1..Len(pages) |->
                      [pages[i] EXCEPT !.inlinks = inlinks(Normal[pages[i].url])]]
        BY <1>4 DEF Finish, Indices
    <2>2. Len(pages') = Len(pages)
        BY <1>4, FinishSame
    <2>3. ASSUME NEW i \in 1..Len(pages)
          PROVE  "links" \in DOMAIN pages'[i] /\ pages'[i].links = pages[i].links
      <3>1. PICK p, n : p = pages[i] /\ pages'[i] = [p EXCEPT !.inlinks = n]
          BY <2>1
      <3>2. "links" \in DOMAIN p
          BY <3>1 DEF LinksListed
      <3> QED BY <3>1, <3>2
    <2> QED BY <2>2, <2>3 DEF LinksListed
  <1> QED BY <1>2, <1>3, <1>4 DEF CrawlStep, LoadRobots, ReadSitemap, Seed, TakeNext, StartBatch, FetchOne

(* Failures are only ever added.                                           *)
LEMMA FaultsGrow ==
    ASSUME CrawlInv, LinksListed, CrawlStep, faults \in Nat
    PROVE  faults' \in Nat /\ faults <= faults'
  <1>1. CASE Finish
    <2>1. PICK flaky \in SUBSET External : faults' = faults + Cardinality(flaky)
        BY <1>1 DEF Finish
    <2>2. Cardinality(flaky) \in Nat
        BY ExternalFinite, FS_Subset, FS_CardinalityType
    <2> QED BY <2>1, <2>2
  <1>2. CASE ~Finish
    <2>1. faults' = faults \/ faults' = faults + 1
        BY <1>2 DEF CrawlStep, LoadRobots, ReadSitemap, Seed, TakeNext, StartBatch, FetchOne, Absorb
    <2> QED BY <2>1
  <1> QED BY <1>1, <1>2

LEMMA CleanStep ==
    ASSUME CrawlInv, SiteKnown, BfsInv, CrawlStep, spent' = spent, Clean'
    PROVE  (Bfs /\ Over /\ Answered)'
  <1>1. faults = spent
    <2>1. faults <= faults' /\ faults' = spent /\ spent <= faults /\ faults \in Nat /\ spent \in Nat
        BY FaultsGrow DEF BfsInv, Counted, Clean
    <2> QED BY <2>1
  <1>2. faults' = faults /\ phase' \in {"fill", "fetch", "crawled"}
      BY <1>1 DEF Clean
  <1>3. CASE LoadRobots \/ ReadSitemap
      BY <1>2, <1>3 DEF LoadRobots, ReadSitemap
  <1>4. CASE Seed
    <2>1. phase' = "fill"
        BY <1>2, <1>4 DEF Seed
    <2>2. Bfs'
        BY <1>4, <2>1, SeedBfs
    <2> QED BY <2>1, <2>2 DEF Over, Answered
  <1>5. ASSUME phase \in {"fill", "fetch"} PROVE Bfs /\ Over /\ Answered
      BY <1>1, <1>5 DEF BfsInv, Clean
  <1>6. batch \in Seq(Visit)
      BY DEF CrawlInv, Asked
  <1>7. CASE TakeNext
    <2>1. phase = "fill" /\ phase' = "fill"
        BY <1>7 DEF TakeNext
    <2>2. Bfs'
        BY <1>5, <1>7, <2>1, TakeNextBfs
    <2> QED BY <2>1, <2>2 DEF Over, Answered
  <1>8. CASE StartBatch
    <2>1. /\ phase = "fill" /\ phase' = "fetch" /\ answers' = [i \in 1..Len(batch) |-> "none"]
          /\ UNCHANGED <<site, lines, maps, frontier, queued, batch, pages>>
        BY <1>8 DEF StartBatch
    <2>2. Visited' = Visited
        BY <2>1 DEF Visited
    <2>3. Bfs'
        BY <1>5, <2>1, <2>2, BfsStays
    <2>4. answers' \in Seq({"none", "answer"}) /\ Len(answers') = Len(batch)
      <3>1. ASSUME NEW n \in Nat, NEW a, a = [i \in 1..n |-> "none"]
            PROVE  a \in Seq({"none", "answer"}) /\ Len(a) = n
          BY <3>1
      <3>2. Len(batch) \in Nat
          BY <1>6
      <3> QED BY <2>1, <3>1, <3>2
    <2> QED BY <2>1, <2>3, <2>4 DEF Over, Answered
  <1>9. ASSUME NEW i \in 1..Workers, FetchOne(i) PROVE (Bfs /\ Over /\ Answered)'
    <2>1. /\ phase = "fetch" /\ phase' = "fetch" /\ i \in DOMAIN answers
          /\ UNCHANGED <<site, lines, maps, frontier, queued, batch, pages>>
        BY <1>9 DEF FetchOne
    <2>2. faults + 1 # faults
        BY DEF BfsInv, Counted
    <2>3. answers' = [answers EXCEPT ![i] = "answer"]
        BY <1>2, <1>9, <2>2 DEF FetchOne
    <2>4. answers \in Seq({"none", "answer"}) /\ Len(answers) = Len(batch)
        BY <1>5, <2>1 DEF Answered
    <2>5. answers' \in Seq({"none", "answer"}) /\ Len(answers') = Len(batch)
        BY <2>1, <2>3, <2>4
    <2>6. Visited' = Visited
        BY <2>1 DEF Visited
    <2>7. Bfs'
        BY <1>5, <2>1, <2>6, BfsStays
    <2> QED BY <2>1, <2>5, <2>7 DEF Over, Answered
  <1>10. CASE Absorb
    <2>1. /\ phase = "fetch" /\ batch # <<>> /\ "none" \notin ToSet(answers)
          /\ batch' = Tail(batch) /\ answers' = Tail(answers) /\ phase' # "failed"
          /\ phase' \in {"fill", "fetch"}
        BY <1>2, <1>10 DEF Absorb
    <2>2. answers \in Seq({"none", "answer"}) /\ Len(answers) = Len(batch)
        BY <1>5, <2>1 DEF Answered
    <2>3. Len(batch) \in Nat \ {0} /\ Len(batch') = Len(batch) - 1
        BY <1>6, <2>1
    <2>4. answers # <<>> /\ Head(answers) = answers[1] /\ 1 \in 1..Len(answers)
        BY <2>2, <2>3
    <2>5. Head(answers) = "answer"
        BY <2>1, <2>2, <2>4, Members
    <2>6. Bfs'
        BY <1>5, <1>10, <2>1, <2>5, AbsorbBfs
    <2>7. answers' \in Seq({"none", "answer"}) /\ Len(answers') = Len(batch')
        BY <2>1, <2>2, <2>3, <2>4
    <2> QED BY <2>1, <2>6, <2>7 DEF Over, Answered
  <1>11. CASE Finish
    <2>1. /\ phase = "fill" /\ phase' = "crawled" /\ batch = <<>>
          /\ frontier = <<>> \/ Len(pages) >= MaxPages
          /\ UNCHANGED <<site, lines, maps, frontier, queued, batch>>
        BY <1>11 DEF Finish
    <2>2. Visited' = Visited /\ Len(pages') = Len(pages)
        BY <1>11, FinishSame
    <2>3. Bfs'
        BY <1>5, <2>1, <2>2, BfsStays
    <2> QED BY <2>1, <2>2, <2>3 DEF Over, Answered
  <1> QED BY <1>3, <1>4, <1>7, <1>8, <1>9, <1>10, <1>11 DEF CrawlStep

LEMMA StepBfs ==
    ASSUME CrawlInv, SiteKnown, BfsInv, [Next]_vars
    PROVE  BfsInv'
  <1>1. CASE Crawl
    <2>1. CrawlStep /\ auditing' = auditing /\ spent' = spent /\ auditing # "none"
        BY <1>1 DEF Crawl, engineVars
    <2>2. faults' \in Nat /\ faults <= faults' /\ LinksListed'
        BY <2>1, FaultsGrow, PagesListed DEF BfsInv, Counted
    <2>3. Counted'
        BY <2>1, <2>2 DEF BfsInv, Counted
    <2>4. Clean' => (Bfs /\ Over /\ Answered)'
        BY <2>1, CleanStep
    <2> QED BY <2>1, <2>2, <2>3, <2>4 DEF BfsInv
  <1>2. CASE UNCHANGED <<site, crawlVars, auditing, spent>>
    <2>1. UNCHANGED <<site, lines, maps, frontier, queued, batch, pages, answers, phase, faults,
                      auditing, spent>>
        BY <1>2 DEF crawlVars
    <2>2. Visited' = Visited
        BY <2>1 DEF Visited
    <2>3. Clean' => Clean
        BY <2>1 DEF Clean
    <2>4. Bfs => Bfs'
        BY <2>1, <2>2, BfsStays
    <2> QED BY <2>1, <2>3, <2>4 DEF BfsInv, Counted, LinksListed, Over, Answered
  <1>3. ASSUME Counted', LinksListed', phase' \notin {"fill", "fetch", "crawled"},
               auditing' = "none" => phase' = "idle"
        PROVE  BfsInv'
      BY <1>3 DEF BfsInv, Clean
  <1>4. CASE FinishAudit \/ FailAudit
    <2>1. /\ phase' = "idle" /\ UNCHANGED <<faults, spent, pages>>
        BY <1>4 DEF FinishAudit, FailAudit
    <2> QED BY <1>3, <2>1 DEF BfsInv, Counted, LinksListed
  <1>5. ASSUME NEW to \in {"idle", "robots"}, Reset(to), faults' = faults, spent' \in {spent, faults},
               auditing' = "none" => to = "idle"
        PROVE  BfsInv'
    <2>1. pages' = <<>> /\ phase' = to /\ Len(<<>>) = 0
        BY <1>5 DEF Reset
    <2>2. LinksListed'
        BY <2>1 DEF LinksListed
    <2>3. Counted'
        BY <1>5 DEF BfsInv, Counted
    <2> QED BY <1>3, <1>5, <2>1, <2>2, <2>3
  <1>6. CASE Reboot
      BY <1>5, <1>6 DEF Reboot
  <1>7. ASSUME NEW j \in Jobs, BeginAudit(j) PROVE BfsInv'
    <2>1. j # "none"
        BY JobAssumption
    <2> QED BY <1>5, <1>7, <2>1 DEF BeginAudit
  <1>8. ASSUME NEW d \in defects, Fix(d) PROVE BfsInv'
    <2>1. auditing = "none" /\ UNCHANGED <<crawlVars, auditing, spent>>
        BY <1>8 DEF Fix
    <2>2. phase' = "idle" /\ UNCHANGED <<faults, pages, phase>>
        BY <2>1 DEF crawlVars, BfsInv
    <2> QED BY <1>3, <2>1, <2>2 DEF BfsInv, Counted, LinksListed
  <1>9. CASE UNCHANGED vars \/ Quiescent
      BY <1>2, <1>9 DEF Quiescent, vars, engineVars
  <1>10. ASSUME NEW j \in Jobs, Submit(j) \/ Research(j) \/ Store(j) PROVE BfsInv'
      BY <1>2, <1>10 DEF Submit, Research, Store, engineVars
  <1> QED BY <1>1, <1>4, <1>6, <1>7, <1>8, <1>9, <1>10 DEF Next

LEMMA EngineStarts == Init => CrawlInv /\ SiteKnown /\ BfsInv
  <1> SUFFICES ASSUME Init PROVE CrawlInv /\ SiteKnown /\ BfsInv
      OBVIOUS
  <1>1. CrawlInit({SiteOf(defects)}) /\ defects \in FirstDefects
      BY DEF Init
  <1>2. SiteKnown
      BY <1>1 DEF CrawlInit, SiteKnown
  <1>3. /\ pages = <<>> /\ phase = "idle" /\ faults = 0 /\ spent = 0
      BY <1>1 DEF CrawlInit, Init
  <1>4. BfsInv
      BY <1>3 DEF BfsInv, Counted, LinksListed, Clean
  <1> QED BY <1>1, <1>2, <1>4, CrawlInvInit

(* For every site, every shape of its links and sitemaps, every number of  *)
(* workers and every limit: an audit in which no request failed has every  *)
(* page it should have, each at its distance from the start, and what      *)
(* MaxPages cut off is no nearer than what was taken (crawler.py:100-157). *)
THEOREM CrawlsAreComplete == Spec => []EveryPageFound
  <1>1. Init => CrawlInv /\ SiteKnown /\ BfsInv
      BY EngineStarts
  <1>2. CrawlInv /\ SiteKnown /\ BfsInv /\ [Next]_vars => (CrawlInv /\ SiteKnown /\ BfsInv)'
      BY EngineCrawls, StepBfs
  <1>3. CrawlInv /\ SiteKnown /\ BfsInv => EveryPageFound
    <2> SUFFICES ASSUME CrawlInv, BfsInv, phase = "crawled", faults = spent PROVE EveryPageFound
        BY DEF EveryPageFound, CrawlComplete
    <2>1. Bfs /\ Over
        BY DEF BfsInv, Clean
    <2> QED BY <2>1, BfsComplete DEF EveryPageFound
  <1> QED BY <1>1, <1>2, <1>3, PTL DEF Spec

-----------------------------------------------------------------------------
(* Orphan pages.  First, what the loops over the links find: the edges of  *)
(* a report and the link tags that are counted.                            *)

EdgeOf(p, i) == [from |-> p.url, to |-> p.links[i].to, anchor |-> p.links[i].anchor]
EdgesTo(p, n) == {EdgeOf(p, i) : i \in {j \in 1..n : p.links[j].internal}}

PageEdgesAt(acc, k, c) ==
    /\ \E S : acc \in Seq(S)
    /\ ToSet(acc) = c.before \cup EdgesTo(c.page, k)
AllEdgesAt(acc, k, c) ==
    /\ \E S : acc \in Seq(S)
    /\ ToSet(acc) = UNION {EdgesTo(c[j], Len(c[j].links)) : j \in 1..k}
AddEdgeOp(acc, link, d) == AddEdge(acc, d, link)
AddEdgesOp(acc, p, d) == AddEdges(acc, p)
PageEdges == INSTANCE FoldInduction WITH op <- AddEdgeOp, Holds <- PageEdgesAt
AllEdges == INSTANCE FoldInduction WITH op <- AddEdgesOp, Holds <- AllEdgesAt

LEMMA EdgesOfPage ==
    ASSUME NEW p, NEW L, p.links \in Seq(L), NEW acc, NEW B, acc \in Seq(B)
    PROVE  /\ \E S : AddEdges(acc, p) \in Seq(S)
           /\ ToSet(AddEdges(acc, p)) = ToSet(acc) \cup EdgesTo(p, Len(p.links))
  <1> DEFINE c == [page |-> p, before |-> ToSet(acc)]
  <1>1. c.page = p /\ c.before = ToSet(acc)
      OBVIOUS
  <1> HIDE DEF c
  <1>2. PageEdgesAt(acc, 0, c)
      BY <1>1 DEF PageEdgesAt, EdgesTo
  <1>3. ASSUME NEW k \in 0..(Len(p.links) - 1), NEW a, PageEdgesAt(a, k, c)
        PROVE  PageEdgesAt(AddEdgeOp(a, p.links[k + 1], p.url), k + 1, c)
    <2>1. PICK S : a \in Seq(S)
        BY <1>3 DEF PageEdgesAt
    <2>2. \A j : j \in 1..(k + 1) <=> j \in 1..k \/ j = k + 1
        BY <1>3
    <2>3. CASE ~p.links[k + 1].internal
      <3>1. EdgesTo(p, k + 1) = EdgesTo(p, k)
          BY <2>2, <2>3 DEF EdgesTo
      <3>2. AddEdgeOp(a, p.links[k + 1], p.url) = a
          BY <2>3 DEF AddEdgeOp, AddEdge
      <3> QED BY <1>1, <1>3, <3>1, <3>2 DEF PageEdgesAt
    <2>4. CASE p.links[k + 1].internal
      <3> DEFINE e == EdgeOf(p, k + 1)
      <3>1. EdgesTo(p, k + 1) = EdgesTo(p, k) \cup {e}
          BY <2>2, <2>4 DEF EdgesTo
      <3>2. AddEdgeOp(a, p.links[k + 1], p.url) = Append(a, e)
          BY <2>4 DEF AddEdgeOp, AddEdge, EdgeOf
      <3> HIDE DEF e
      <3>3. a \in Seq(S \cup {e})
          BY <2>1
      <3>4. Append(a, e) \in Seq(S \cup {e}) /\ ToSet(Append(a, e)) = ToSet(a) \cup {e}
          BY <3>3, Added
      <3>5. ToSet(Append(a, e)) = c.before \cup EdgesTo(c.page, k + 1)
          BY <1>1, <1>3, <3>1, <3>4 DEF PageEdgesAt
      <3> QED BY <3>2, <3>4, <3>5 DEF PageEdgesAt
    <2> QED BY <2>3, <2>4
  <1>4. PageEdgesAt(PageEdges!Folded(acc, p.links, p.url), Len(p.links), c)
      BY <1>2, <1>3, PageEdges!FoldKeeps
  <1>5. AddEdges(acc, p) = PageEdges!Folded(acc, p.links, p.url)
      BY DEF AddEdges, AddEdgeOp, PageEdges!Folded, FoldLeft, MapThenFoldSet, Max,
             PageEdges!FoldLeft, PageEdges!MapThenFoldSet, PageEdges!Max
  <1> QED BY <1>1, <1>4, <1>5 DEF PageEdgesAt

(* The edges of a report are the internal links of its pages.              *)
LEMMA EdgesAre ==
    ASSUME CrawlInv, LinksListed
    PROVE  /\ \E S : Edges \in Seq(S)
           /\ \A e : e \in ToSet(Edges) <=>
                \E j \in 1..Len(pages) : \E i \in 1..Len(pages[j].links) :
                   pages[j].links[i].internal /\ e = EdgeOf(pages[j], i)
  <1>1. PICK P : pages \in Seq(P)
      BY DEF CrawlInv, PagesTyped
  <1>2. AllEdgesAt(<<>>, 0, pages)
    <2>1. <<>> \in Seq({}) /\ ToSet(<<>>) = {}
        BY DEF ToSet
    <2> QED BY <2>1 DEF AllEdgesAt
  <1>3. ASSUME NEW k \in 0..(Len(pages) - 1), NEW acc, AllEdgesAt(acc, k, pages)
        PROVE  AllEdgesAt(AddEdgesOp(acc, pages[k + 1], 0), k + 1, pages)
    <2>1. k + 1 \in 1..Len(pages)
        BY <1>1
    <2>2. PICK L : pages[k + 1].links \in Seq(L)
        BY <2>1 DEF LinksListed
    <2>3. PICK B : acc \in Seq(B)
        BY <1>3 DEF AllEdgesAt
    <2>4. PICK p, new : p = pages[k + 1] /\ new = AddEdges(acc, p)
        OBVIOUS
    <2>5. /\ \E S : new \in Seq(S)
          /\ ToSet(new) = ToSet(acc) \cup EdgesTo(p, Len(p.links))
        BY <2>2, <2>3, <2>4, EdgesOfPage
    <2>6. \A j : j \in 1..(k + 1) <=> j \in 1..k \/ j = k + 1
        BY <1>3
    <2>7. ToSet(acc) = UNION {EdgesTo(pages[j], Len(pages[j].links)) : j \in 1..k}
        BY <1>3 DEF AllEdgesAt
    <2>8. UNION {EdgesTo(pages[j], Len(pages[j].links)) : j \in 1..(k + 1)}
             = (UNION {EdgesTo(pages[j], Len(pages[j].links)) : j \in 1..k})
                  \cup EdgesTo(p, Len(p.links))
        BY <2>4, <2>6
    <2>9. AddEdgesOp(acc, pages[k + 1], 0) = new
        BY <2>4 DEF AddEdgesOp
    <2> QED BY <2>5, <2>7, <2>8, <2>9 DEF AllEdgesAt
  <1>4. AllEdgesAt(AllEdges!Folded(<<>>, pages, 0), Len(pages), pages)
      BY <1>1, <1>2, <1>3, AllEdges!FoldKeeps
  <1>5. Edges = AllEdges!Folded(<<>>, pages, 0)
      BY DEF Edges, AddEdgesOp, AllEdges!Folded, FoldLeft, MapThenFoldSet, Max,
             AllEdges!FoldLeft, AllEdges!MapThenFoldSet, AllEdges!Max
  <1>6. /\ \E S : Edges \in Seq(S)
        /\ ToSet(Edges) = UNION {EdgesTo(pages[j], Len(pages[j].links)) : j \in 1..Len(pages)}
      BY <1>4, <1>5 DEF AllEdgesAt
  <1> QED BY <1>6 DEF EdgesTo

(* The link tags of the pages that answered well.                          *)
LEMMA TagsAre ==
    ASSUME NEW S, NEW ps \in Seq(S), NEW x
    PROVE  x \in LinksOf({p \in ToSet(ps) : is_ok(p) /\ p.html}) <=>
             \E k \in 1..Len(ps) : /\ is_ok(ps[k]) /\ ps[k].html
                                   /\ \E i \in 1..Len(ps[k].links) :
                                        x = <<ps[k].url, i, ps[k].links[i]>>
  <1> DEFINE F == {p \in ToSet(ps) : is_ok(p) /\ p.html}
             Tags(p) == {<<p.url, i, p.links[i]>> : i \in 1..Len(p.links)}
  <1>1. LinksOf(F) = UNION {Tags(p) : p \in F}
      BY DEF LinksOf, Indices
  <1>2. \A p : p \in F <=> \E k \in 1..Len(ps) : p = ps[k] /\ is_ok(ps[k]) /\ ps[k].html
      BY Members
  <1>3. x \in LinksOf(F) <=> \E k \in 1..Len(ps) : is_ok(ps[k]) /\ ps[k].html /\ x \in Tags(ps[k])
    <2> HIDE DEF F, Tags
    <2> QED BY <1>1, <1>2
  <1> QED BY <1>3

LEMMA TagsFinite ==
    ASSUME CrawlInv, LinksListed
    PROVE  IsFiniteSet(LinksOf(Fetched))
  <1> DEFINE Tags(p) == {<<p.url, i, p.links[i]>> : i \in 1..Len(p.links)}
             Sets == {Tags(p) : p \in Fetched}
             Image == {Tags(pages[k]) : k \in 1..Len(pages)}
  <1>1. PICK S : pages \in Seq(S)
      BY DEF CrawlInv, PagesTyped
  <1>2. Len(pages) \in Nat /\ IsFiniteSet(1..Len(pages))
    <2>1. Len(pages) \in Nat
        BY <1>1
    <2> QED BY <2>1, FS_Interval
  <1>3. IsFiniteSet(Image)
    <2>1. [k \in 1..Len(pages) |-> Tags(pages[k])] \in Surjection(1..Len(pages), Image)
        BY DEF Surjection
    <2> HIDE DEF Image
    <2> QED BY <1>2, <2>1, FS_Surjection
  <1>4. Sets \subseteq Image
      BY <1>1, Members DEF Fetched
  <1>5. ASSUME NEW k \in 1..Len(pages) PROVE IsFiniteSet(Tags(pages[k]))
    <2>1. PICK L : pages[k].links \in Seq(L)
        BY DEF LinksListed
    <2>2. IsFiniteSet(1..Len(pages[k].links))
      <3>1. 1 \in Int /\ Len(pages[k].links) \in Int
          BY <2>1
      <3> QED BY <3>1, FS_Interval
    <2>3. [i \in 1..Len(pages[k].links) |-> <<pages[k].url, i, pages[k].links[i]>>]
             \in Surjection(1..Len(pages[k].links), Tags(pages[k]))
        BY DEF Surjection
    <2> HIDE DEF Tags
    <2> QED BY <2>2, <2>3, FS_Surjection
  <1>6. \A B \in Image : IsFiniteSet(B)
      BY <1>5
  <1>7. LinksOf(Fetched) = UNION Sets
      BY DEF LinksOf, Indices
  <1> HIDE DEF Sets, Image, Tags
  <1>8. IsFiniteSet(Sets) /\ \A B \in Sets : IsFiniteSet(B)
      BY <1>3, <1>4, <1>6, FS_Subset
  <1> QED BY <1>7, <1>8, FS_UNION

(* A count of no link tags is no link tag.                                 *)
LEMMA NoInlinks ==
    ASSUME CrawlInv, LinksListed, NEW u
    PROVE  inlinks(u) = 0 <=>
             \A k \in 1..Len(pages) : is_ok(pages[k]) /\ pages[k].html =>
               \A i \in 1..Len(pages[k].links) :
                 ~(pages[k].links[i].internal /\ Normal[pages[k].links[i].to] = u)
  <1> DEFINE B == {l \in Internal(LinksOf(Fetched)) : Normal[l[3].to] = u}
  <1>1. IsFiniteSet(B)
    <2>1. B \in SUBSET LinksOf(Fetched)
        BY DEF Internal
    <2> QED BY <2>1, TagsFinite, FS_Subset
  <1>2. inlinks(u) = 0 <=> B = {}
    <2>1. inlinks(u) = Cardinality(B)
        BY DEF inlinks
    <2> HIDE DEF B
    <2> QED BY <1>1, <2>1, FS_EmptySet
  <1>3. PICK S : pages \in Seq(S)
      BY DEF CrawlInv, PagesTyped
  <1>4. \A x : x \in B <=>
          \E k \in 1..Len(pages) :
             /\ is_ok(pages[k]) /\ pages[k].html
             /\ \E i \in 1..Len(pages[k].links) :
                  /\ x = <<pages[k].url, i, pages[k].links[i]>>
                  /\ pages[k].links[i].internal /\ Normal[pages[k].links[i].to] = u
    <2> SUFFICES ASSUME NEW x
                 PROVE  x \in B <=>
                          \E k \in 1..Len(pages) :
                             /\ is_ok(pages[k]) /\ pages[k].html
                             /\ \E i \in 1..Len(pages[k].links) :
                                  /\ x = <<pages[k].url, i, pages[k].links[i]>>
                                  /\ pages[k].links[i].internal
                                  /\ Normal[pages[k].links[i].to] = u
        OBVIOUS
    <2>1. x \in LinksOf(Fetched) <=>
            \E k \in 1..Len(pages) : /\ is_ok(pages[k]) /\ pages[k].html
                                     /\ \E i \in 1..Len(pages[k].links) :
                                          x = <<pages[k].url, i, pages[k].links[i]>>
        BY <1>3, TagsAre DEF Fetched
    <2>2. x \in B <=> x \in LinksOf(Fetched) /\ x[3].internal /\ Normal[x[3].to] = u
        BY DEF Internal
    <2> QED BY <2>1, <2>2
  <1> HIDE DEF B
  <1> QED BY <1>2, <1>4

-----------------------------------------------------------------------------
(* What a crawl knows of its pages when it is over.                        *)

PageFields == {"url", "status", "error", "html", "noindex", "links", "inlinks"}
Whole == \A i \in 1..Len(pages) : PageFields \subseteq DOMAIN pages[i]
InlinksKnown ==
    phase = "crawled" =>
        \A i \in 1..Len(pages) : pages[i].inlinks = inlinks(Normal[pages[i].url])
TagInv == Whole /\ InlinksKnown

LEMMA WholePage ==
    ASSUME WellFormed(site), NEW url \in SameSite, NEW depth,
           NEW got \in {site.web[url], Failure(url)}
    PROVE  PageFields \subseteq DOMAIN [got EXCEPT !.depth = depth]
  <1>1. PageFields \subseteq DOMAIN Blank(url)
      BY DEF Blank, PageFields
  <1>2. DOMAIN Failure(url) = DOMAIN Blank(url)
      BY DEF Failure
  <1>3. DOMAIN site.web[url] = DOMAIN Blank(url)
      BY DEF WellFormed
  <1>4. DOMAIN got = DOMAIN Blank(url)
      BY <1>2, <1>3
  <1> QED BY <1>1, <1>4

(* Counting changes nothing but the counts.                                *)
LEMMA CountingKeeps ==
    ASSUME CrawlInv, Whole, Finish, NEW i \in 1..Len(pages)
    PROVE  /\ Len(pages') = Len(pages) /\ DOMAIN pages'[i] = DOMAIN pages[i]
           /\ pages'[i].url = pages[i].url /\ pages'[i].links = pages[i].links
           /\ is_ok(pages'[i]) <=> is_ok(pages[i])
           /\ pages'[i].html = pages[i].html
           /\ pages'[i].inlinks = inlinks(Normal[pages[i].url])
  <1>1. pages'[i] = [pages[i] EXCEPT !.inlinks = inlinks(Normal[pages[i].url])]
      BY DEF Finish, Indices
  <1>2. PICK p, n : p = pages[i] /\ n = inlinks(Normal[p.url]) /\ pages'[i] = [p EXCEPT !.inlinks = n]
      BY <1>1
  <1>3. PageFields \subseteq DOMAIN p
      BY <1>2 DEF Whole
  <1>4. /\ DOMAIN pages'[i] = DOMAIN p /\ pages'[i].inlinks = n
        /\ \A f \in PageFields \ {"inlinks"} : pages'[i][f] = p[f]
      BY <1>2, <1>3 DEF PageFields
  <1>5. /\ pages'[i].url = p.url /\ pages'[i].links = p.links /\ pages'[i].html = p.html
        /\ pages'[i].status = p.status /\ pages'[i].error = p.error
      BY <1>4 DEF PageFields
  <1>6. Len(pages') = Len(pages)
      BY FinishSame
  <1> QED BY <1>2, <1>4, <1>5, <1>6 DEF is_ok

LEMMA FinishCounts ==
    ASSUME CrawlInv, Whole, Finish
    PROVE  TagInv'
  <1>1. PICK S : pages \in Seq(S)
      BY DEF CrawlInv, PagesTyped
  <1>2. PICK Q : pages' \in Seq(Q)
      BY FinishSame DEF PagesTyped
  <1>3. Len(pages') = Len(pages)
      BY FinishSame
  <1>4. LinksOf(Fetched)' = LinksOf(Fetched)
    <2>1. ASSUME NEW x PROVE x \in LinksOf(Fetched)' <=> x \in LinksOf(Fetched)
      <3>1. x \in LinksOf(Fetched) <=>
              \E k \in 1..Len(pages) : /\ is_ok(pages[k]) /\ pages[k].html
                                       /\ \E i \in 1..Len(pages[k].links) :
                                            x = <<pages[k].url, i, pages[k].links[i]>>
          BY <1>1, TagsAre DEF Fetched
      <3>2. x \in LinksOf({p \in ToSet(pages') : is_ok(p) /\ p.html}) <=>
              \E k \in 1..Len(pages') : /\ is_ok(pages'[k]) /\ pages'[k].html
                                        /\ \E i \in 1..Len(pages'[k].links) :
                                             x = <<pages'[k].url, i, pages'[k].links[i]>>
          BY <1>2, TagsAre
      <3>3. LinksOf(Fetched)' = LinksOf({p \in ToSet(pages') : is_ok(p) /\ p.html})
          BY DEF Fetched, LinksOf, Indices
      <3> QED BY <1>3, <3>1, <3>2, <3>3, CountingKeeps
    <2> QED BY <2>1
  <1>5. \A u : inlinks(u)' = inlinks(u)
      BY <1>4 DEF inlinks, Internal
  <1>6. Whole'
      BY <1>3, CountingKeeps DEF Whole
  <1>7. InlinksKnown'
      BY <1>3, <1>5, CountingKeeps DEF InlinksKnown
  <1> QED BY <1>6, <1>7 DEF TagInv

LEMMA CrawlCounts ==
    ASSUME CrawlInv, SiteKnown, TagInv, CrawlStep
    PROVE  TagInv'
  <1>1. PICK S : pages \in Seq(S)
      BY DEF CrawlInv, PagesTyped
  <1>2. CASE pages' = pages /\ phase' # "crawled"
      BY <1>2 DEF TagInv, Whole, InlinksKnown
  <1>3. CASE Absorb
    <2>1. PICK v, got, page :
             /\ v = Head(batch) /\ got \in {site.web[v[1]], Failure(v[1])}
             /\ page = [got EXCEPT !.depth = v[2]] /\ batch # <<>>
             /\ pages' = pages \/ pages' = Append(pages, page)
      <3>1. PICK v, got, page :
               /\ v = Head(batch)
               /\ got = IF Head(answers) = "answer" THEN site.web[v[1]] ELSE Failure(v[1])
               /\ page = [got EXCEPT !.depth = v[2]]
          OBVIOUS
      <3> QED BY <1>3, <3>1 DEF Absorb
    <2>2. v[1] \in SameSite
      <3>1. batch \in Seq(Visit)
          BY DEF CrawlInv, Asked
      <3>2. v \in Visit
          BY <2>1, <3>1, Leaves
      <3> QED BY <3>2 DEF Visit
    <2>3. PageFields \subseteq DOMAIN page
        BY <2>1, <2>2, SiteFacts, WholePage
    <2>4. phase' # "crawled"
        BY <1>3 DEF Absorb
    <2>5. CASE pages' = Append(pages, page)
      <3>1. \A i \in 1..Len(pages') : pages'[i] = page \/ (i \in 1..Len(pages) /\ pages'[i] = pages[i])
          BY <1>1, <2>5
      <3> QED BY <2>3, <2>4, <3>1 DEF TagInv, Whole, InlinksKnown
    <2> QED BY <1>2, <2>1, <2>4, <2>5
  <1>4. CASE Finish
      BY <1>4, FinishCounts DEF TagInv
  <1> QED BY <1>2, <1>3, <1>4 DEF CrawlStep, LoadRobots, ReadSitemap, Seed, TakeNext, StartBatch, FetchOne

LEMMA StepCounts ==
    ASSUME CrawlInv, SiteKnown, TagInv, [Next]_vars
    PROVE  TagInv'
  <1>1. CASE Crawl
      BY <1>1, CrawlCounts DEF Crawl
  <1>2. CASE UNCHANGED <<phase, pages>>
    <2>1. \A u : inlinks(u)' = inlinks(u)
        BY <1>2 DEF inlinks, Internal, LinksOf, Fetched, Indices
    <2> QED BY <1>2, <2>1 DEF TagInv, Whole, InlinksKnown
  <1>3. CASE pages' \in {pages, <<>>} /\ phase' \in {"idle", "robots"}
    <2>1. Len(<<>>) = 0
        OBVIOUS
    <2> QED BY <1>3, <2>1 DEF TagInv, Whole, InlinksKnown
  <1>4. CASE FinishAudit \/ FailAudit \/ Reboot
      BY <1>3, <1>4 DEF FinishAudit, FailAudit, Reboot, Reset
  <1>5. ASSUME NEW j \in Jobs, BeginAudit(j) PROVE TagInv'
      BY <1>3, <1>5 DEF BeginAudit, Reset
  <1>6. ASSUME NEW j \in Jobs, Submit(j) \/ Research(j) \/ Store(j) PROVE TagInv'
      BY <1>2, <1>6 DEF Submit, Research, Store, crawlVars
  <1>7. CASE UNCHANGED vars \/ Quiescent
      BY <1>2, <1>7 DEF Quiescent, vars, crawlVars
  <1>8. ASSUME NEW d \in defects, Fix(d) PROVE TagInv'
      BY <1>2, <1>8 DEF Fix, crawlVars
  <1> QED BY <1>1, <1>4, <1>5, <1>6, <1>7, <1>8 DEF Next

-----------------------------------------------------------------------------
(* The two verdicts.                                                       *)

Few == Cardinality(indexable_pages(Context)) < 3
EngineOrphans == UNION {i.on : i \in {x \in check_orphans(Context) : x.id = "orphan-pages"}}
ServiceOrphans == G!orphans(Graph, Start)

LEMMA IssuesFound ==
    ASSUME NEW id, NEW sev, NEW cat, NEW items
    PROVE  /\ \A i \in Found(id, sev, cat, items) : i.id = id /\ i.on = {x[1] : x \in items}
           /\ Found(id, sev, cat, items) = {} => items = {}
  <1>1. ASSUME NEW i \in Found(id, sev, cat, items)
        PROVE  i.id = id /\ i.on = {x[1] : x \in items}
    <2>1. i = Issue(id, sev, cat, items)
        BY <1>1 DEF Found
    <2>2. Issue(id, sev, cat, items).id = id
        BY DEF Issue
    <2>3. Issue(id, sev, cat, items).on = {x[1] : x \in items}
        BY DEF Issue
    <2> QED BY <2>1, <2>2, <2>3
  <1>2. Found(id, sev, cat, items) = {} => items = {}
      BY DEF Found
  <1> QED BY <1>1, <1>2

LEMMA EngineVerdict ==
    ASSUME NEW u
    PROVE  u \in EngineOrphans <=>
             /\ ~Few
             /\ \E p \in ToSet(pages) :
                  is_indexable(p) /\ p.url # Start /\ p.inlinks = 0 /\ u = p.url
  <1>1. Context.pages = pages /\ Context.start = Start
      BY DEF Context
  <1> DEFINE all == indexable_pages(Context)
             others == {p \in all : p.url # Context.start}
             weak == {p \in others : p.inlinks = 1}
             A == UrlsOf({p \in others : p.inlinks = 0})
             first == Found("orphan-pages", "high", "links", A)
             second == Raised("weak-internal-linking", "medium", "links",
                              10 * Cardinality(weak) > 3 * Cardinality(all), UrlsOf(weak))
  <1>2. check_orphans(Context) = IF Few THEN {} ELSE first \cup second
      BY DEF check_orphans, Few
  <1>3. u \in {x[1] : x \in A} <=>
          \E p \in ToSet(pages) : is_indexable(p) /\ p.url # Start /\ p.inlinks = 0 /\ u = p.url
    <2> DEFINE alone == {p \in others : p.inlinks = 0}
    <2>1. \A p : p \in alone <=>
             p \in ToSet(pages) /\ is_indexable(p) /\ p.url # Start /\ p.inlinks = 0
        BY <1>1 DEF indexable_pages, Pages
    <2>2. A = {<<p.url>> : p \in alone}
        BY DEF UrlsOf
    <2>3. u \in {x[1] : x \in A} <=> \E p \in alone : u = p.url
      <3>1. \A p : <<p.url>>[1] = p.url
          OBVIOUS
      <3> HIDE DEF alone, A
      <3> QED BY <2>2, <3>1
    <2> HIDE DEF alone, A
    <2> QED BY <2>1, <2>3
  <1> HIDE DEF A, weak, all
  <1>4. \A i \in first : i.id = "orphan-pages" /\ i.on = {x[1] : x \in A}
      BY IssuesFound
  <1>5. \A i \in second : i.id # "orphan-pages"
    <2> DEFINE W == UrlsOf(weak)
    <2>1. second \subseteq Found("weak-internal-linking", "medium", "links", W)
        BY DEF Raised
    <2>2. \A i \in Found("weak-internal-linking", "medium", "links", W) :
             i.id = "weak-internal-linking"
      <3> HIDE DEF W
      <3> QED BY IssuesFound
    <2> HIDE DEF second, W
    <2> QED BY <2>1, <2>2
  <1>6. first = {} => A = {}
      BY IssuesFound
  <1> HIDE DEF first, second
  <1>7. CASE Few
      BY <1>2, <1>7 DEF EngineOrphans
  <1>8. CASE ~Few
    <2>1. {x \in check_orphans(Context) : x.id = "orphan-pages"} = first
        BY <1>2, <1>4, <1>5, <1>8
    <2>2. EngineOrphans = UNION {i.on : i \in first}
        BY <2>1 DEF EngineOrphans
    <2>3. u \in EngineOrphans <=> first # {} /\ u \in {x[1] : x \in A}
        BY <1>4, <2>2
    <2>4. u \in {x[1] : x \in A} => first # {}
        BY <1>6
    <2> QED BY <1>3, <1>8, <2>3, <2>4
  <1> QED BY <1>7, <1>8

(* A node of the graph is one of the pages with its spelling.              *)
LEMMA NodeIsPage ==
    ASSUME CrawlInv
    PROVE  /\ DOMAIN Graph.pages = {Node[pages[k].url] : k \in 1..Len(pages)}
           /\ \A n \in DOMAIN Graph.pages :
                \E k \in 1..Len(pages) : /\ Node[pages[k].url] = n
                                         /\ Graph.pages[n].indexable = is_indexable(pages[k])
  <1>1. PICK S : pages \in Seq(S)
      BY DEF CrawlInv, PagesTyped
  <1>2. Len(pages) \in Nat
      BY <1>1
  <1>3. /\ Len(Rows) = Len(pages)
        /\ \A k \in 1..Len(pages) : /\ Rows[k].url = pages[k].url
                                    /\ Rows[k].indexable = is_indexable(pages[k])
    <2>1. PICK r : r = Rows
        OBVIOUS
    <2>2. r = [i \in 1..Len(pages) |->
                 [url |-> pages[i].url, status |-> pages[i].status,
                  indexable |-> is_indexable(pages[i])]]
        BY <2>1 DEF Rows
    <2>3. Len(r) = Len(pages)
        BY <1>2, <2>2
    <2> QED BY <2>1, <2>2, <2>3
  <1> DEFINE urls == {Node[Rows[i].url] : i \in 1..Len(Rows)}
  <1>4. Graph.pages = [u \in urls |-> G!Last(Rows, u)]
      BY DEF Graph, G!build
  <1>5. urls = {Node[pages[k].url] : k \in 1..Len(pages)}
      BY <1>3
  <1>6. ASSUME NEW n \in urls
        PROVE  \E k \in 1..Len(pages) : /\ Node[pages[k].url] = n
                                        /\ G!Last(Rows, n).indexable = is_indexable(pages[k])
    <2> DEFINE N == {i \in 1..Len(Rows) : Node[Rows[i].url] = n}
    <2>1. N \subseteq 1..Len(pages) /\ N # {}
        BY <1>3
    <2>2. G!Last(Rows, n) = Rows[G!Max(N)]
        BY DEF G!Last
    <2>3. G!Max(N) \in N
      <3> DEFINE M == {Len(pages) - i : i \in N}
      <3>1. M \subseteq Nat /\ M # {}
          BY <1>2, <2>1
      <3>2. PICK m \in M : \A y \in M : m <= y
          BY <3>1, Dedup!Smallest
      <3>3. PICK i \in N : m = Len(pages) - i
          BY <3>2
      <3>4. \A k \in N : m <= Len(pages) - k
          BY <3>2
      <3> HIDE DEF M, N
      <3>5. \A k \in N : i >= k
          BY <1>2, <2>1, <3>3, <3>4
      <3> QED BY <3>5 DEF G!Max
    <2> QED BY <1>3, <2>1, <2>2, <2>3
  <1> HIDE DEF urls
  <1>7. DOMAIN Graph.pages = urls /\ \A n \in urls : Graph.pages[n] = G!Last(Rows, n)
      BY <1>4
  <1> QED BY <1>5, <1>6, <1>7

Pointed(n) == \E e \in ToSet(Edges) : Node[e.to] = n /\ Node[e.from] # n

LEMMA CountsPointers ==
    ASSUME CrawlInv, LinksListed, NEW n
    PROVE  G!inlink_count(Graph, n) = 0 <=> ~Pointed(n)
  <1>1. PICK S : Edges \in Seq(S)
      BY EdgesAre
  <1> DEFINE E == {i \in 1..Len(Edges) : Node[Edges[i].from] # Node[Edges[i].to]}
             Drawn(i) == [source |-> Node[Edges[i].from], target |-> Node[Edges[i].to],
                          anchor |-> Edges[i].anchor, at |-> i]
             B == {e.source : e \in {x \in Graph.edges : x.target = n}}
             I == {i \in E : Node[Edges[i].to] = n}
  <1>2. Graph.edges = {Drawn(i) : i \in E}
      BY DEF Graph, G!build
  <1>3. B = {Node[Edges[i].from] : i \in I}
    <2>1. \A i : Drawn(i).source = Node[Edges[i].from] /\ Drawn(i).target = Node[Edges[i].to]
        OBVIOUS
    <2> HIDE DEF Drawn, E
    <2> QED BY <1>2, <2>1
  <1>4. IsFiniteSet(I)
    <2>1. 1 \in Int /\ Len(Edges) \in Int
        BY <1>1
    <2>2. IsFiniteSet(1..Len(Edges))
        BY <2>1, FS_Interval
    <2>3. I \in SUBSET (1..Len(Edges))
        OBVIOUS
    <2> QED BY <2>2, <2>3, FS_Subset
  <1>5. IsFiniteSet(B)
    <2>1. [i \in I |-> Node[Edges[i].from]] \in Surjection(I, {Node[Edges[i].from] : i \in I})
        BY DEF Surjection
    <2> HIDE DEF I, B
    <2> QED BY <1>3, <1>4, <2>1, FS_Surjection
  <1>6. G!inlink_count(Graph, n) = Cardinality(B)
    <2>1. \A g : G!inlink_count(g, n) = Cardinality({e.source : e \in {x \in g.edges : x.target = n}})
      <3>1. \A Q : G!Cardinality(Q) = Cardinality(Q)
          BY DEF Cardinality, G!Cardinality
      <3> QED BY <3>1 DEF G!inlink_count
    <2>2. PICK g : g = Graph
        OBVIOUS
    <2>3. B = {e.source : e \in {x \in g.edges : x.target = n}}
        BY <2>2
    <2> QED BY <2>1, <2>2, <2>3
  <1>7. B = {} <=> I = {}
    <2> HIDE DEF I, B
    <2> QED BY <1>3
  <1>8. I = {} <=> ~Pointed(n)
      BY <1>1, Members DEF Pointed
  <1> HIDE DEF B
  <1> QED BY <1>5, <1>6, <1>7, <1>8, FS_EmptySet

LEMMA ServiceVerdict ==
    ASSUME CrawlInv, LinksListed, NEW n
    PROVE  n \in ServiceOrphans <=>
             /\ n \in DOMAIN Graph.pages /\ Graph.pages[n].indexable
             /\ ~Pointed(n) /\ n # Node[Start]
  <1>1. n \in ServiceOrphans <=>
           /\ n \in DOMAIN Graph.pages /\ Graph.pages[n].indexable
           /\ G!inlink_count(Graph, n) = 0 /\ n # Node[Start]
      BY DEF ServiceOrphans, G!orphans
  <1> QED BY <1>1, CountsPointers

(* A page has a normalised address of its own.                             *)
LEMMA OwnAddress ==
    ASSUME CrawlInv
    PROVE  /\ \A k \in 1..Len(pages) : pages[k].url \in SameSite /\ Normal[pages[k].url] = pages[k].url
           /\ \A i, k \in 1..Len(pages) : pages[i].url = pages[k].url => i = k
           /\ Normal[Start] = Start
  <1>1. Visited \in Seq(Visit) /\ Apart(Visited)
      BY DEF CrawlInv, PagesTyped, Asked
  <1>2. PICK P : pages \in Seq(P)
      BY DEF CrawlInv, PagesTyped
  <1>3. Len(Visited) = Len(pages) /\ \A k \in 1..Len(pages) : Visited[k] = <<pages[k].url, pages[k].depth>>
    <2>1. Len(pages) \in Nat
        BY <1>2
    <2> QED BY <2>1 DEF Visited
  <1>4. ASSUME NEW k \in 1..Len(pages) PROVE pages[k].url \in SameSite
    <2>1. Visited[k] \in Visit
        BY <1>1, <1>3
    <2> QED BY <1>3, <2>1 DEF Visit
  <1>5. \A i, k \in 1..Len(pages) : pages[i].url = pages[k].url => i = k
      BY <1>1, <1>3 DEF Apart
  <1> QED BY <1>4, <1>5, CrawlerAssumption

Addressed == {p.url : p \in ToSet(pages)}
MetAddresses == Addressed \cup {Start} \cup {e.to : e \in ToSet(Edges)}
Into(n) == {e \in ToSet(Edges) : Node[e.to] = n}

(* An orphan of the engine is one of the service, or something joined it   *)
(* with another address, or a page that did not answer well points to it.  *)
LEMMA EngineFirst ==
    ASSUME CrawlInv, LinksListed, InlinksKnown, phase = "crawled", NEW u \in EngineOrphans
    PROVE  \/ Node[u] \in ServiceOrphans
           \/ \E v \in MetAddresses : Node[v] = Node[u] /\ Normal[v] # Normal[u]
           \/ \E e \in Into(Node[u]) : e.from \notin {p.url : p \in Fetched}
  <1> SUFFICES ASSUME \A v \in MetAddresses : Node[v] = Node[u] => Normal[v] = Normal[u],
                      \A e \in Into(Node[u]) : e.from \in {p.url : p \in Fetched}
               PROVE  Node[u] \in ServiceOrphans
      OBVIOUS
  <1>1. PICK P : pages \in Seq(P)
      BY DEF CrawlInv, PagesTyped
  <1>2. PICK k \in 1..Len(pages) :
           is_indexable(pages[k]) /\ u = pages[k].url /\ u # Start /\ pages[k].inlinks = 0
      BY <1>1, EngineVerdict, Members
  <1>3. Normal[u] = u /\ Normal[Start] = Start
      BY <1>2, OwnAddress
  <1>4. \A i \in 1..Len(pages) : pages[i].url \in MetAddresses
      BY <1>1, Members DEF MetAddresses, Addressed
  <1>5. \A i \in 1..Len(pages) : Node[pages[i].url] = Node[u] => i = k
      BY <1>2, <1>3, <1>4, OwnAddress
  <1>6. Node[u] \in DOMAIN Graph.pages /\ Graph.pages[Node[u]].indexable
      BY <1>2, <1>5, NodeIsPage
  <1>7. Node[u] # Node[Start]
      BY <1>2, <1>3 DEF MetAddresses
  <1>8. inlinks(u) = 0
      BY <1>2, <1>3 DEF InlinksKnown
  <1>9. ASSUME NEW e \in ToSet(Edges), Node[e.to] = Node[u] PROVE FALSE
    <2>1. PICK j \in 1..Len(pages) : \E i \in 1..Len(pages[j].links) :
             pages[j].links[i].internal /\ e = EdgeOf(pages[j], i)
        BY EdgesAre
    <2>2. PICK i \in 1..Len(pages[j].links) : pages[j].links[i].internal /\ e = EdgeOf(pages[j], i)
        BY <2>1
    <2>3. e.to = pages[j].links[i].to /\ e.from = pages[j].url
        BY <2>2 DEF EdgeOf
    <2>4. Normal[e.to] = u
        BY <1>3, <1>9 DEF MetAddresses
    <2>5. PICK q \in Fetched : q.url = e.from
        BY <1>9 DEF Into
    <2>6. PICK m \in 1..Len(pages) : pages[m] = q /\ is_ok(q) /\ q.html
        BY <1>1, Members DEF Fetched
    <2>7. m = j
        BY <2>3, <2>5, <2>6, OwnAddress
    <2> QED BY <1>8, <2>2, <2>3, <2>4, <2>6, <2>7, NoInlinks
  <1> QED BY <1>6, <1>7, <1>9, ServiceVerdict DEF Pointed

(* An orphan of the service is one of the engine, unless the site is small, *)
(* a link to it spells its address otherwise, or it links to itself.       *)
LEMMA ServiceFirst ==
    ASSUME CrawlInv, LinksListed, InlinksKnown, phase = "crawled", ~Few,
           NEW n \in ServiceOrphans, n \notin {Node[u] : u \in EngineOrphans}
    PROVE  \/ \E u \in Addressed, v \in MetAddresses :
                Node[u] = n /\ Normal[v] = Normal[u] /\ Node[v] # n
           \/ \E e \in Into(n) : Node[e.from] = n
  <1>1. PICK P : pages \in Seq(P)
      BY DEF CrawlInv, PagesTyped
  <1>2. /\ n \in DOMAIN Graph.pages /\ Graph.pages[n].indexable
        /\ ~Pointed(n) /\ n # Node[Start]
      BY ServiceVerdict
  <1>3. PICK k \in 1..Len(pages) : Node[pages[k].url] = n /\ is_indexable(pages[k])
      BY <1>2, NodeIsPage
  <1> DEFINE u == pages[k].url
  <1>4. u # Start /\ Normal[u] = u /\ pages[k] \in ToSet(pages) /\ u \in Addressed
      BY <1>1, <1>2, <1>3, OwnAddress, Members DEF Addressed
  <1>5. pages[k].inlinks # 0
      BY <1>3, <1>4, EngineVerdict
  <1>6. inlinks(u) # 0
      BY <1>4, <1>5 DEF InlinksKnown
  <1>7. PICK j \in 1..Len(pages) : \E i \in 1..Len(pages[j].links) :
           pages[j].links[i].internal /\ Normal[pages[j].links[i].to] = u
      BY <1>6, NoInlinks
  <1>8. PICK i \in 1..Len(pages[j].links) :
           pages[j].links[i].internal /\ Normal[pages[j].links[i].to] = u
      BY <1>7
  <1>9. PICK e \in ToSet(Edges) : e = EdgeOf(pages[j], i)
      BY <1>8, EdgesAre
  <1>10. Normal[e.to] = Normal[u] /\ e.to \in MetAddresses
      BY <1>4, <1>8, <1>9 DEF EdgeOf, MetAddresses
  <1>11. CASE Node[e.to] # n
      BY <1>3, <1>4, <1>10, <1>11
  <1>12. CASE Node[e.to] = n
      BY <1>2, <1>12 DEF Pointed, Into
  <1> QED BY <1>11, <1>12

(* For every site, every shape of its links, every pair of spellings: the  *)
(* engine's rule and the link service name the same orphan pages, up to    *)
(* what they disagree about on purpose and the addresses that only one of  *)
(* them takes for the same (rules/links.py:22-28,                          *)
(* internal_links/analyze.py:187-193).                                     *)
THEOREM OrphanVerdictsAgree == Spec => []OrphanVerdicts
  <1>1. Init => CrawlInv /\ SiteKnown /\ BfsInv /\ TagInv
    <2> SUFFICES ASSUME Init PROVE CrawlInv /\ SiteKnown /\ BfsInv /\ TagInv
        OBVIOUS
    <2>1. pages = <<>> /\ phase = "idle" /\ Len(<<>>) = 0
        BY DEF Init, CrawlInit
    <2>2. TagInv
        BY <2>1 DEF TagInv, Whole, InlinksKnown
    <2> QED BY <2>2, EngineStarts
  <1>2. CrawlInv /\ SiteKnown /\ BfsInv /\ TagInv /\ [Next]_vars
           => (CrawlInv /\ SiteKnown /\ BfsInv /\ TagInv)'
      BY EngineCrawls, StepBfs, StepCounts
  <1>3. CrawlInv /\ BfsInv /\ TagInv => OrphanVerdicts
    <2> SUFFICES ASSUME CrawlInv, LinksListed, InlinksKnown, phase = "crawled" PROVE OrphanVerdicts
        BY DEF BfsInv, TagInv, OrphanVerdicts
    <2>1. ASSUME NEW u \in EngineOrphans
          PROVE  \/ Node[u] \in ServiceOrphans
                 \/ \E v \in MetAddresses : Node[v] = Node[u] /\ Normal[v] # Normal[u]
                 \/ \E e \in Into(Node[u]) : e.from \notin {p.url : p \in Fetched}
        BY <2>1, EngineFirst
    <2>2. ASSUME NEW n \in ServiceOrphans \ {Node[u] : u \in EngineOrphans}
          PROVE  \/ Few
                 \/ \E u \in Addressed, v \in MetAddresses :
                      Node[u] = n /\ Normal[v] = Normal[u] /\ Node[v] # n
                 \/ \E e \in Into(n) : Node[e.from] = n
        BY <2>2, ServiceFirst
    <2> QED BY <2>1, <2>2
            DEF OrphanVerdicts, EngineOrphans, ServiceOrphans, Few, Addressed, MetAddresses, Into
  <1> QED BY <1>1, <1>2, <1>3, PTL DEF Spec
=============================================================================
