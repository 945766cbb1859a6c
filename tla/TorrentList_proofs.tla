------------------------- MODULE TorrentList_proofs --------------------------
(* Theorems about TorrentList, for every set of hashes and every bound.      *)
EXTENDS TorrentList, SequenceTheorems, TLAPS

LoopFree(s) == \A i, j \in 1..Len(s) : s[i] = s[j] => i = j

\* The types, with what keeps them: a row is only added to an answer that
\* still lacks one, and status() is the last call as long as it is waited for.
PassInv ==
    /\ appPc \in {"reading", "status", "flagging"} => Len(shown) < count
    /\ moved => appPc \in {"status", "flagging"}

Waits(q, pc) ==
    /\ \A i \in 1..Len(q) : q[i].kind = "status" => pc = "status" /\ i = Len(q)
    /\ pc = "status" => q # <<>> /\ q[Len(q)].kind = "status"

WaitInv == Waits(jobs, appPc)

TypeInv == TypeOK /\ PassInv /\ WaitInv

\* How the list and the session differ while the callback is at an alert.
TrackInv ==
    /\ netPc \in {"idle", "raise"} => Elements(list) \ {Invalid} = session
    /\ netPc \in {"added", "inserting"} =>
          (Elements(list) \cup {subject}) \ {Invalid} = session
    /\ netPc = "removed" =>
          /\ subject \in Handles \ session
          /\ Elements(list) \ {Invalid} = session \cup {subject}
    /\ LoopFree(list)

\* What an undisturbed pass has read so far, and waits for.
Undisturbed == /\ appPc \in Passing \cup {"idle"}
               /\ netPc \in {"idle", "added"}
               /\ ~need /\ erased = "no"

Here == Len(shown) + 1

PassSoFar ==
    /\ count = Len(list)
    /\ \A i \in 1..Len(shown) : shown[i] = Line(list[i])
    /\ appPc = "idle" => Len(shown) = count
    /\ appPc \in Waiting => ~moved /\ list[Here] # Invalid
    /\ appPc = "status" => jobs[Len(jobs)].handle = list[Here]
    /\ appPc = "flagging" => row = Line(list[Here])

ShownInv == /\ netPc = "removed" => erased # "no"
            /\ Undisturbed => PassSoFar

Inv == TypeInv /\ TrackInv /\ ShownInv

-----------------------------------------------------------------------------
(* Without                                                                   *)

LEMMA WithoutProperties ==
    ASSUME NEW S, NEW s \in Seq(S), NEW t
    PROVE  /\ Without(s, t) \in Seq(S)
           /\ LoopFree(s) => /\ Elements(Without(s, t)) = Elements(s) \ {t}
                             /\ LoopFree(Without(s, t))
<1>1. CASE t \notin Elements(s)
  BY <1>1 DEF Without, Elements
<1>2. CASE t \in Elements(s)
  <2> DEFINE i == CHOOSE k \in 1..Len(s) : s[k] = t
             n == Len(s) - 1
             w == [j \in 1..n |-> s[IF j < i THEN j ELSE j + 1]]
  <2>1. i \in 1..Len(s) /\ s[i] = t
    BY <1>2 DEF Elements
  <2>2. Len(s) \in Nat /\ n \in Nat /\ \A k \in 1..Len(s) : s[k] \in S
    BY <2>1
  <2>3. Without(s, t) = w
    BY <1>2 DEF Without
  <2> HIDE DEF i
  <2>4. w \in Seq(S)
    <3>1. w \in [1..n -> S]
      BY <2>1, <2>2
    <3> QED BY <3>1, <2>2
  <2>5. Len(w) = n /\ \A j \in 1..n : w[j] = s[IF j < i THEN j ELSE j + 1]
    BY <2>2, <2>4
  <2> HIDE DEF w
  <2>6. LoopFree(s) => LoopFree(w)
    BY <2>1, <2>2, <2>5 DEF LoopFree
  <2>7. ASSUME LoopFree(s), NEW e \in Elements(w) PROVE e \in Elements(s) \ {t}
    <3>1. PICK j \in 1..n : e = w[j]
      BY <2>5 DEF Elements
    <3>2. (IF j < i THEN j ELSE j + 1) \in 1..Len(s) \ {i}
      BY <2>1, <2>2
    <3> QED BY <3>1, <3>2, <2>1, <2>5, <2>7 DEF LoopFree, Elements
  <2>8. ASSUME NEW e \in Elements(s) \ {t} PROVE e \in Elements(w)
    <3>1. PICK k \in 1..Len(s) : e = s[k]
      BY DEF Elements
    <3>2. k # i
      BY <3>1, <2>1
    <3>3. CASE k < i
      <4>1. k \in 1..n /\ w[k] = e
        BY <3>1, <3>3, <2>1, <2>2, <2>5
      <4> QED BY <4>1, <2>5 DEF Elements
    <3>4. CASE k > i
      <4>1. k - 1 \in 1..n /\ w[k - 1] = e
        BY <3>1, <3>4, <2>1, <2>2, <2>5
      <4> QED BY <4>1, <2>5 DEF Elements
    <3> QED BY <3>2, <3>3, <3>4, <2>1
  <2> QED BY <2>3, <2>4, <2>6, <2>7, <2>8
<1> QED BY <1>1, <1>2

LEMMA ConsProperties ==
    ASSUME NEW S, NEW s \in Seq(S), NEW t \in S
    PROVE  /\ <<t>> \o s \in Seq(S)
           /\ Len(<<t>> \o s) = Len(s) + 1
           /\ Elements(<<t>> \o s) = Elements(s) \cup {t}
           /\ LoopFree(s) /\ t \notin Elements(s) => LoopFree(<<t>> \o s)
<1> DEFINE c == <<t>> \o s
<1>1. c \in Seq(S) /\ Len(c) = Len(s) + 1
  OBVIOUS
<1>2. c[1] = t /\ \A i \in 1..Len(s) : c[i + 1] = s[i]
  OBVIOUS
<1>3. \A k \in 1..Len(c) : k = 1 \/ (k - 1 \in 1..Len(s) /\ c[k] = s[k - 1])
  BY <1>1, <1>2
<1> HIDE DEF c
<1>4. Elements(c) = Elements(s) \cup {t}
  <2>1. Elements(c) \subseteq Elements(s) \cup {t}
    BY <1>2, <1>3 DEF Elements
  <2>2. t \in Elements(c)
    BY <1>1, <1>2 DEF Elements
  <2>3. ASSUME NEW i \in 1..Len(s) PROVE s[i] \in Elements(c)
    <3>1. i + 1 \in 1..Len(c) /\ c[i + 1] = s[i]
      BY <1>1, <1>2
    <3> QED BY <3>1 DEF Elements
  <2> QED BY <2>1, <2>2, <2>3 DEF Elements
<1>5. ASSUME LoopFree(s), t \notin Elements(s) PROVE LoopFree(c)
  <2> SUFFICES ASSUME NEW i \in 1..Len(c), NEW j \in 1..Len(c), c[i] = c[j]
               PROVE  i = j
    BY DEF LoopFree
  <2>1. \A k \in 1..Len(s) : s[k] # t
    BY <1>5 DEF Elements
  <2>2. CASE i = 1 \/ j = 1
    BY <1>2, <1>3, <2>1, <2>2
  <2>3. CASE i # 1 /\ j # 1
    <3>1. /\ i - 1 \in 1..Len(s) /\ c[i] = s[i - 1]
          /\ j - 1 \in 1..Len(s) /\ c[j] = s[j - 1]
      BY <1>3, <2>3
    <3>2. i - 1 = j - 1
      BY <1>5, <3>1 DEF LoopFree
    <3> QED BY <3>2
  <2> QED BY <2>2, <2>3
<1> QED BY <1>1, <1>4, <1>5 DEF c

-----------------------------------------------------------------------------
(* Types                                                                     *)

LEMMA InitTypeInv == Init => TypeInv
<1> SUFFICES ASSUME Init PROVE TypeInv
  OBVIOUS
<1> USE DEF Init
<1>1. MaxCalls \in Nat /\ 0 \in 0..MaxCalls
  BY ListAssumption
<1>2. jobs \in Seq(Jobs) /\ list \in Seq(Handles \cup {Invalid}) /\ shown \in Seq(Entries)
  OBVIOUS
<1>3. Len(shown) <= count /\ count \in Nat
  OBVIOUS
<1>4. TypeOK
  BY <1>1, <1>2, <1>3 DEF TypeOK
<1> QED BY <1>4 DEF TypeInv, PassInv, WaitInv, Waits

\* Calls leave at the head of the queue, and status() stays the last one.
LEMMA TailOfJobs ==
    ASSUME NEW q \in Seq(Jobs), q # <<>>, NEW pc, Waits(q, pc)
    PROVE  /\ Tail(q) \in Seq(Jobs)
           /\ Head(q).kind # "status" => Waits(Tail(q), pc)
           /\ Head(q).kind = "status" => Tail(q) = <<>>
<1> DEFINE r == Tail(q)
<1>1. /\ r \in Seq(Jobs) /\ Len(r) = Len(q) - 1
      /\ \A i \in 1..Len(r) : r[i] = q[i + 1]
      /\ Len(q) \in Nat \ {0} /\ Head(q) = q[1]
      /\ Len(r) = 0 => r = <<>>
  OBVIOUS
<1> HIDE DEF r
<1>2. \A i \in 1..Len(r) : r[i].kind = "status" => pc = "status" /\ i = Len(r)
  <2> SUFFICES ASSUME NEW i \in 1..Len(r), r[i].kind = "status"
               PROVE  pc = "status" /\ i = Len(r)
    OBVIOUS
  <2>1. i + 1 \in 1..Len(q) /\ q[i + 1].kind = "status"
    BY <1>1
  <2> QED BY <1>1, <2>1 DEF Waits
<1>3. ASSUME pc = "status", Head(q).kind # "status"
      PROVE  r # <<>> /\ r[Len(r)].kind = "status"
  <2>1. Len(q) # 1 /\ q[Len(q)].kind = "status"
    BY <1>1, <1>3 DEF Waits
  <2>2. Len(r) \in 1..Len(r) /\ Len(r) + 1 = Len(q)
    BY <1>1, <2>1
  <2>3. r[Len(r)] = q[Len(q)]
    BY <1>1, <2>2
  <2> QED BY <2>1, <2>2, <2>3
<1>4. ASSUME Head(q).kind = "status" PROVE r = <<>>
  <2>1. 1 \in 1..Len(q) /\ q[1].kind = "status"
    BY <1>1, <1>4
  <2> QED BY <1>1, <2>1 DEF Waits
<1> QED BY <1>1, <1>2, <1>3, <1>4 DEF Waits, r

LEMMA AppendedJob ==
    ASSUME NEW q \in Seq(Jobs), NEW pc, Waits(q, pc), pc # "status", NEW j \in Jobs
    PROVE  /\ Append(q, j) \in Seq(Jobs)
           /\ j.kind # "status" => Waits(Append(q, j), pc)
           /\ j.kind = "status" => Waits(Append(q, j), "status")
           /\ Append(q, j)[Len(Append(q, j))] = j
<1> DEFINE r == Append(q, j)
<1>1. /\ r \in Seq(Jobs) /\ Len(r) = Len(q) + 1
      /\ \A i \in 1..Len(q) : r[i] = q[i]
      /\ r[Len(r)] = j /\ Len(q) \in Nat /\ r # <<>>
  OBVIOUS
<1> HIDE DEF r
<1>2. \A i \in 1..Len(r) : i \in 1..Len(q) \/ i = Len(r)
  BY <1>1
<1> QED BY <1>1, <1>2 DEF Waits, r

LEMMA AppendedRow ==
    ASSUME shown \in Seq(Entries), count \in Nat, Len(shown) < count,
           NEW e \in Entries, shown' = Append(shown, e)
    PROVE  shown' \in Seq(Entries) /\ Len(shown') = Len(shown) + 1 /\ Len(shown') <= count
OBVIOUS

LEMMA NextTypeInv == TypeInv /\ [Next]_vars => TypeInv'
<1> SUFFICES ASSUME TypeInv, [Next]_vars PROVE TypeInv'
  OBVIOUS
<1> USE DEF TypeInv, TypeOK, PassInv, WaitInv, Waiting, vars, libVars, netVars,
            appVars
<1>j. ASSUME jobs # <<>>
      PROVE  /\ Head(jobs) \in Jobs
             /\ Tail(jobs) \in Seq(Jobs)
             /\ Head(jobs).kind # "status" => Waits(Tail(jobs), appPc)
             /\ Head(jobs).kind = "status" => appPc = "status" /\ Waits(Tail(jobs), "flagging")
  <2>1. Head(jobs) \in Jobs /\ Head(jobs) = jobs[1] /\ 1 \in 1..Len(jobs)
    BY <1>j
  <2>2. Waits(<<>>, "flagging")
    BY DEF Waits
  <2> QED BY <1>j, <2>1, <2>2, TailOfJobs DEF Waits
<1>1. CASE RunAdd
  <2> USE <1>1 DEF RunAdd
  <2>1. Head(jobs).hash \in Hashes
    BY <1>j DEF Jobs
  <2>2. [hash |-> Head(jobs).hash, gen |-> born[Head(jobs).hash] + 1] \in Handles
    BY <2>1 DEF Handles
  <2>3. session' \subseteq Handles /\ subject' \in Handles \cup {Invalid}
    BY <2>2
  <2>4. born' \in [Hashes -> Nat]
    <3>1. born' = born \/ born' = [born EXCEPT ![Head(jobs).hash] = @ + 1]
      OBVIOUS
    <3> QED BY <2>1, <3>1
  <2> QED BY <1>j, <2>3, <2>4
<1>2. CASE RunRemove
  <2> USE <1>2 DEF RunRemove
  <2>1. subject' \in Handles \cup {Invalid} /\ session' \subseteq Handles
    OBVIOUS
  <2>2. erased' \in {"no", "during", "after"} /\ netPc' \in {"idle", "removed"}
    OBVIOUS
  <2> QED BY <1>j, <2>1, <2>2
<1>3. CASE RunPause
  <2> USE <1>3 DEF RunPause
  <2>1. Head(jobs).handle \in Handles
    BY <1>j DEF Jobs
  <2>2. paused' \subseteq Handles
    BY <2>1
  <2> QED BY <1>j, <2>2
<1>4. CASE RunStatus
  <2> USE <1>4 DEF RunStatus
  <2>1. row' \in Answers
    BY <1>j DEF Jobs, Answers
  <2> QED BY <1>j, <2>1
<1>5. CASE FindHandle
  BY <1>5 DEF FindHandle, IsNew, AfterStep
<1>6. CASE InsertHandle
  <2> USE <1>6 DEF InsertHandle, AfterStep
  <2>1. list' \in Seq(Handles \cup {Invalid})
    BY ConsProperties
  <2>2. moved' \in BOOLEAN /\ (moved' => appPc \in {"status", "flagging"})
    BY DEF Written
  <2> QED BY <2>1, <2>2
<1>7. CASE RaiseFlag
  BY <1>7 DEF RaiseFlag, Raised, AfterStep
<1>8. CASE EraseHandle
  <2> USE <1>8 DEF EraseHandle
  <2>1. list' \in Seq(Handles \cup {Invalid})
    BY WithoutProperties
  <2>2. moved' \in BOOLEAN /\ (moved' => appPc \in {"status", "flagging"})
    BY DEF Written
  <2> QED BY <2>1, <2>2
<1>9. ASSUME NEW t \in session, Metadata(t) PROVE TypeInv'
  BY <1>9 DEF Metadata, AfterMetadata
<1>10. ASSUME NEW t \in session, TorrentError(t) PROVE TypeInv'
  BY <1>10 DEF TorrentError
<1>11. CASE NeedUpdate
  BY <1>11 DEF NeedUpdate, Waits
<1>12. CASE Updated
  BY <1>12 DEF Updated, Waits
<1>13. CASE NTorrents
  <2> USE <1>13 DEF NTorrents
  <2>1. count' \in Nat /\ shown' \in Seq(Entries) /\ Len(shown') <= count'
    OBVIOUS
  <2>2. erased' \in {"no", "during", "after"}
    OBVIOUS
  <2> QED BY <2>1, <2>2 DEF Waits
<1>14. CASE QueryBounds
  <2> USE <1>14 DEF QueryBounds
  <2>1. shown' \in Seq(Entries) /\ Len(shown') <= count'
    BY AppendedRow DEF Entries
  <2>2. appPc' = "reading" => Len(shown') < count'
    OBVIOUS
  <2>3. appPc' \in {"checking", "reading"}
    OBVIOUS
  <2> QED BY <2>1, <2>2, <2>3 DEF Waits
<1>15. CASE QueryElement
  <2> USE <1>15 DEF QueryElement, Result
  <2>1. CASE jobs' # jobs
    <3> DEFINE j == [kind |-> "status", handle |-> list[Len(shown) + 1]]
    <3>1. /\ jobs' = Append(jobs, j) /\ appPc' = "status" /\ shown' = shown
          /\ Readable(Len(shown) + 1) /\ list[Len(shown) + 1] # Invalid
      BY <2>1
    <3>2. j \in Jobs
      <4>1. Len(shown) + 1 \in 1..Len(list)
        BY <3>1 DEF Readable
      <4> QED BY <3>1, <4>1 DEF Jobs
    <3>3. jobs' \in Seq(Jobs) /\ Waits(jobs', "status")
      BY <3>1, <3>2, AppendedJob
    <3> QED BY <3>1, <3>3
  <2>2. CASE jobs' = jobs
    <3>1. appPc' = "checking" /\ UNCHANGED jobs /\ \E e \in Entries : shown' = Append(shown, e)
      <4>1. \A j : Append(jobs, j) # jobs
        OBVIOUS
      <4> QED BY <2>2, <4>1 DEF Entries
    <3>2. shown' \in Seq(Entries) /\ Len(shown') <= count'
      BY <3>1, AppendedRow
    <3> QED BY <3>1, <3>2 DEF Waits
  <2> QED BY <2>1, <2>2
<1>16. CASE QueryFlags
  <2> USE <1>16 DEF QueryFlags, Result
  <2>1. shown' \in Seq(Entries) /\ Len(shown') <= count'
    BY AppendedRow DEF Entries
  <2> QED BY <2>1 DEF Waits
<1>17. CASE PassOver
  BY <1>17 DEF PassOver, Waits
<1>18. ASSUME NEW j \in Jobs, j.kind # "status", Call(j) PROVE TypeInv'
  <2> USE <1>18 DEF Call
  <2>1. jobs' \in Seq(Jobs) /\ Waits(jobs', appPc)
    BY AppendedJob
  <2>2. calls' \in 0..MaxCalls
    BY ListAssumption
  <2> QED BY <2>1, <2>2
<1>19. CASE Command
  <2>1. ASSUME NEW h \in Hashes, NEW fails \in BOOLEAN, AddTorrent(h, fails) PROVE TypeInv'
    BY <2>1, <1>18 DEF AddTorrent, Jobs
  <2>2. ASSUME NEW i \in 1..Len(shown), RemoveTorrent(i) PROVE TypeInv'
    <3>1. PICK t \in At(i) : Call([kind |-> "remove", handle |-> t])
      BY <2>2 DEF RemoveTorrent
    <3>2. t \in Handles
      BY <3>1 DEF At
    <3> QED BY <3>1, <3>2, <1>18 DEF Jobs
  <2>3. ASSUME NEW i \in 1..Len(shown), PauseOrResume(i) PROVE TypeInv'
    <3>1. PICK t \in At(i), k \in {"pause", "resume"} : Call([kind |-> k, handle |-> t])
      BY <2>3 DEF PauseOrResume
    <3>2. t \in Handles
      BY <3>1 DEF At
    <3> QED BY <3>1, <3>2, <1>18 DEF Jobs
  <2> QED BY <1>19, <2>1, <2>2, <2>3 DEF Command
<1>20. CASE UNCHANGED vars
  BY <1>20
<1> QED
  BY <1>1, <1>2, <1>3, <1>4, <1>5, <1>6, <1>7, <1>8, <1>9, <1>10, <1>11, <1>12,
     <1>13, <1>14, <1>15, <1>16, <1>17, <1>19, <1>20 DEF Next, Net, Pass

-----------------------------------------------------------------------------
(* The list and the session                                                  *)

LEMMA InitTrackInv == Init => TrackInv
BY DEF Init, TrackInv, Elements, LoopFree

LEMMA NextTrackInv == TypeInv /\ TrackInv /\ [Next]_vars => TrackInv'
<1> SUFFICES ASSUME TypeInv, TrackInv, [Next]_vars PROVE TrackInv'
  OBVIOUS
<1> USE DEF TrackInv, libVars
<1>a. /\ session \subseteq Handles /\ list \in Seq(Handles \cup {Invalid})
      /\ subject \in Handles \cup {Invalid} /\ Invalid \notin Handles
      /\ netPc = "inserting" => subject \notin Elements(list)
  BY ListAssumption DEF TypeInv, TypeOK
<1>u. ASSUME UNCHANGED <<session, list, netPc, subject>> PROVE TrackInv'
  BY <1>u DEF Elements, LoopFree
<1>1. CASE RunAdd
  <2> USE <1>1 DEF RunAdd
  <2>1. UNCHANGED list /\ netPc = "idle" /\ netPc' = "added"
    OBVIOUS
  <2>2. (Elements(list) \cup {subject'}) \ {Invalid} = session'
    <3>1. CASE Head(jobs).fails
      BY <3>1, <2>1
    <3>2. CASE ~Head(jobs).fails /\ session' = session
      <4>1. subject' \in session
        <5> DEFINE new == [hash |-> Head(jobs).hash, gen |-> born[Head(jobs).hash] + 1]
        <5>1. subject' \in session \/ (subject' = new /\ session' = session \cup {new})
          BY <3>2
        <5> QED BY <5>1, <3>2
      <4> QED BY <3>2, <4>1, <2>1, <1>a
    <3>3. CASE ~Head(jobs).fails /\ session' # session
      <4> DEFINE h == Head(jobs).hash
                 new == [hash |-> h, gen |-> born[h] + 1]
      <4>1. subject' = new /\ session' = session \cup {new}
        BY <3>3
      <4>2. new \in Handles
        <5>1. Head(jobs) \in Jobs
          BY DEF TypeInv, TypeOK
        <5>2. h \in Hashes
          BY <5>1 DEF Jobs
        <5> QED BY <5>2 DEF TypeInv, TypeOK, Handles
      <4> QED BY <4>1, <4>2, <2>1, <1>a
    <3> QED BY <3>1, <3>2, <3>3
  <2> QED BY <2>1, <2>2 DEF Elements, LoopFree
<1>2. CASE RunRemove
  <2>1. CASE Head(jobs).handle \in session
    BY <1>2, <2>1, <1>a DEF RunRemove, Elements, LoopFree
  <2>2. CASE Head(jobs).handle \notin session
    BY <1>2, <2>2, <1>u DEF RunRemove
  <2> QED BY <2>1, <2>2
<1>3. CASE FindHandle
  <2> USE <1>3 DEF FindHandle, AfterStep
  <2>1. CASE IsNew
    BY <2>1
  <2>2. CASE ~IsNew
    BY <2>2 DEF IsNew
  <2> QED BY <2>1, <2>2
<1>4. CASE InsertHandle
  <2> USE <1>4 DEF InsertHandle, AfterStep
  <2>1. Elements(list') = Elements(list) \cup {subject} /\ LoopFree(list')
    BY <1>a, ConsProperties
  <2> QED BY <2>1, <1>a
<1>5. CASE EraseHandle
  <2> USE <1>5 DEF EraseHandle
  <2>1. Elements(list') = Elements(list) \ {subject} /\ LoopFree(list')
    BY <1>a, WithoutProperties
  <2> QED BY <2>1, <1>a
<1>6. CASE RaiseFlag
  BY <1>6 DEF RaiseFlag, AfterStep
<1>7. ASSUME NEW t \in session, Metadata(t) PROVE TrackInv'
  BY <1>7 DEF Metadata, AfterMetadata
<1>8. CASE RunPause \/ RunStatus
  BY <1>8, <1>u DEF RunPause, RunStatus, netVars
<1>9. ASSUME NEW t \in session, TorrentError(t) PROVE TrackInv'
  BY <1>9, <1>u DEF TorrentError, netVars
<1>10. CASE Pass
  BY <1>10, <1>u DEF Pass, NeedUpdate, Updated, NTorrents, QueryBounds, QueryElement,
                     QueryFlags, PassOver, netVars, libVars
<1>11. CASE Command
  BY <1>11, <1>u DEF Command, AddTorrent, RemoveTorrent, PauseOrResume, Call, netVars
<1>12. CASE UNCHANGED vars
  BY <1>12, <1>u DEF vars, libVars, netVars
<1> QED
  BY <1>1, <1>2, <1>3, <1>4, <1>5, <1>6, <1>7, <1>8, <1>9, <1>10, <1>11, <1>12 DEF Next, Net

-----------------------------------------------------------------------------
(* What is shown                                                             *)

LEMMA InitShownInv == Init => ShownInv
BY DEF Init, ShownInv, Undisturbed

\* The call that is waited for is the last one, and stays the last one.
LEMMA LastOfTail ==
    ASSUME NEW q \in Seq(Jobs), q # <<>>, q[Len(q)].kind = "status", Head(q).kind # "status"
    PROVE  Tail(q)[Len(Tail(q))] = q[Len(q)]
<1>1. Len(q) \in Nat \ {0} /\ Head(q) = q[1]
  OBVIOUS
<1>2. Len(q) # 1
  BY <1>1
<1>3. Len(Tail(q)) = Len(q) - 1 /\ \A i \in 1..Len(Tail(q)) : Tail(q)[i] = q[i + 1]
  OBVIOUS
<1>4. Len(q) - 1 \in 1..Len(Tail(q)) /\ (Len(q) - 1) + 1 = Len(q)
  BY <1>1, <1>2, <1>3
<1> QED BY <1>3, <1>4

\* A row that is right extends a pass that is right.
LEMMA ExtendedPass ==
    ASSUME TypeInv, PassSoFar, Undisturbed, Len(shown) < count,
           UNCHANGED <<list, named, count>>,
           shown' = Append(shown, Line(list[Here])), appPc' = "checking"
    PROVE  PassSoFar'
<1>1. shown \in Seq(Entries) /\ Len(shown) \in Nat
  BY DEF TypeInv, TypeOK
<1>2. /\ Len(shown') = Len(shown) + 1
      /\ \A i \in 1..Len(shown) : shown'[i] = shown[i]
      /\ shown'[Here] = Line(list[Here])
  BY <1>1 DEF Here
<1>3. \A i \in 1..Len(shown') : i \in 1..Len(shown) \/ i = Here
  BY <1>1, <1>2 DEF Here
<1>4. \A i \in 1..Len(shown') : shown'[i] = Line(list[i])
  BY <1>2, <1>3 DEF PassSoFar
<1> QED BY <1>4 DEF PassSoFar, Line, Waiting

LEMMA NextShownInv == TypeInv /\ ShownInv /\ [Next]_vars => ShownInv'
<1> SUFFICES ASSUME TypeInv, ShownInv, [Next]_vars PROVE ShownInv'
  OBVIOUS
<1> USE DEF ShownInv, libVars, netVars, appVars
<1>t. /\ jobs \in Seq(Jobs) /\ count \in Nat /\ Len(shown) \in Nat
      /\ list \in Seq(Handles \cup {Invalid})
      /\ appPc \in {"reading", "status", "flagging"} => Len(shown) < count
      /\ appPc = "status" => jobs # <<>> /\ jobs[Len(jobs)].kind = "status"
      /\ \A i \in 1..Len(jobs) :
            jobs[i].kind = "status" => appPc = "status" /\ i = Len(jobs)
  BY DEF TypeInv, TypeOK, PassInv, WaitInv, Waits
\* A step of libtorrent that leaves the list, the names and the pass alone.
<1>n. ASSUME UNCHANGED <<list, named, need, appVars>>, Undisturbed' => Undisturbed,
             \/ jobs' = jobs
             \/ jobs # <<>> /\ jobs' = Tail(jobs) /\ Head(jobs).kind # "status"
      PROVE  Undisturbed' => PassSoFar'
  <2> SUFFICES ASSUME Undisturbed' PROVE PassSoFar'
    OBVIOUS
  <2>1. PassSoFar
    BY <1>n
  <2>2. appPc = "status" => jobs'[Len(jobs')] = jobs[Len(jobs)]
    BY <1>n, <1>t, LastOfTail
  <2> QED BY <1>n, <2>1, <2>2 DEF PassSoFar, Line, Here
<1>1. CASE RunAdd
  BY <1>1, <1>n DEF RunAdd, Undisturbed
<1>2. CASE RunRemove
  <2> USE <1>2 DEF RunRemove
  <2>1. netPc' = "removed" => erased' # "no"
    OBVIOUS
  <2>2. Undisturbed' => Undisturbed
    <3>1. erased' = "no" => erased = "no"
      OBVIOUS
    <3> QED BY <3>1 DEF Undisturbed
  <2> QED BY <2>1, <2>2, <1>n
<1>3. CASE RunPause
  BY <1>3, <1>n DEF RunPause, Undisturbed
<1>4. CASE RunStatus
  <2> USE <1>4 DEF RunStatus
  <2>1. netPc' # "removed" /\ (Undisturbed' => Undisturbed /\ PassSoFar)
    <3>1. jobs[1].kind = "status" /\ 1 \in 1..Len(jobs)
      BY <1>t
    <3>2. appPc = "status"
      BY <3>1, <1>t
    <3> QED BY <3>2 DEF Undisturbed, Passing
  <2>2. Head(jobs) = jobs[Len(jobs)] /\ appPc = "status"
    <3>1. 1 \in 1..Len(jobs) /\ Head(jobs) = jobs[1]
      BY <1>t
    <3> QED BY <3>1, <1>t
  <2>3. row' = [handle |-> Head(jobs).handle, named |-> Head(jobs).handle \in named]
    OBVIOUS
  <2> QED BY <2>1, <2>2, <2>3 DEF PassSoFar, Line, Here, Waiting
<1>5. CASE FindHandle
  BY <1>5, <1>n DEF FindHandle, AfterStep, Undisturbed
<1>6. CASE InsertHandle
  BY <1>6 DEF InsertHandle, AfterStep, Undisturbed
<1>7. CASE RaiseFlag
  BY <1>7 DEF RaiseFlag, Raised, AfterStep, Undisturbed
<1>8. CASE EraseHandle
  BY <1>8 DEF EraseHandle, Undisturbed
<1>9. ASSUME NEW t \in session, Metadata(t) PROVE ShownInv'
  BY <1>9 DEF Metadata, AfterMetadata, Undisturbed
<1>10. ASSUME NEW t \in session, TorrentError(t) PROVE ShownInv'
  BY <1>10, <1>n DEF TorrentError, Undisturbed
<1>11. CASE NeedUpdate \/ Updated
  BY <1>11 DEF NeedUpdate, Updated, Undisturbed, Passing
<1>12. CASE NTorrents
  <2> USE <1>12 DEF NTorrents
  <2>1. netPc' = "removed" => erased' # "no"
    OBVIOUS
  <2>2. PassSoFar'
    BY DEF PassSoFar, Waiting
  <2> QED BY <2>1, <2>2
<1>13. CASE QueryBounds
  <2> USE <1>13 DEF QueryBounds
  <2>1. (netPc' = "removed" => erased' # "no") /\ (Undisturbed' => Undisturbed /\ PassSoFar)
    BY DEF Undisturbed, Passing
  <2>2. PassSoFar => UNCHANGED <<shown, named>> /\ appPc' = "reading"
    BY <1>t DEF PassSoFar
  <2> QED BY <2>1, <2>2 DEF PassSoFar, Line, Waiting
<1>14. CASE QueryElement
  <2> USE <1>14 DEF QueryElement, Result
  <2>1. (netPc' = "removed" => erased' # "no") /\ (Undisturbed' => Undisturbed /\ PassSoFar)
    BY DEF Undisturbed, Passing
  <2> SUFFICES ASSUME Undisturbed, PassSoFar PROVE PassSoFar'
    BY <2>1
  <2>2. Readable(Here) /\ Here = Len(shown) + 1
    BY <1>t DEF PassSoFar, Undisturbed, Readable, Here
  <2>3. CASE list[Here] = Invalid
    BY <2>2, <2>3, <1>t, ExtendedPass DEF Line
  <2>4. CASE list[Here] # Invalid
    <3> DEFINE j == [kind |-> "status", handle |-> list[Here]]
    <3>1. jobs' = Append(jobs, j) /\ appPc' = "status" /\ UNCHANGED <<shown, moved>>
      BY <2>2, <2>4
    <3>2. jobs'[Len(jobs')] = j
      BY <3>1, <1>t
    <3>3. ~moved
      BY DEF TypeInv, PassInv
    <3> QED BY <3>1, <3>2, <3>3, <2>4, <2>1 DEF PassSoFar, Line, Here
  <2> QED BY <2>3, <2>4
<1>15. CASE QueryFlags
  <2> USE <1>15 DEF QueryFlags, Result
  <2>1. (netPc' = "removed" => erased' # "no") /\ (Undisturbed' => Undisturbed /\ PassSoFar)
    BY DEF Undisturbed, Passing
  <2> SUFFICES ASSUME Undisturbed, PassSoFar PROVE PassSoFar'
    BY <2>1
  <2>2. Readable(Here) /\ ~moved /\ row = Line(list[Here])
    BY <1>t DEF PassSoFar, Undisturbed, Readable, Here, Waiting
  <2> QED BY <2>2, <1>t, ExtendedPass DEF Here
<1>16. CASE PassOver
  <2> USE <1>16 DEF PassOver
  <2>1. (netPc' = "removed" => erased' # "no") /\ (Undisturbed' => Undisturbed /\ PassSoFar)
    BY DEF Undisturbed, Passing
  <2> QED BY <2>1 DEF PassSoFar, Line, Waiting
<1>17. CASE Command
  <2>1. \E j : Call(j)
    BY <1>17 DEF Command, AddTorrent, RemoveTorrent, PauseOrResume
  <2>2. UNCHANGED <<list, named, need, netPc, erased, appVars>> /\ appPc = "idle"
    BY <2>1 DEF Call
  <2> QED BY <2>2 DEF Undisturbed, PassSoFar, Line, Waiting
<1>18. CASE UNCHANGED vars
  BY <1>18, <1>n DEF vars, Undisturbed
<1> QED
  BY <1>1, <1>2, <1>3, <1>4, <1>5, <1>6, <1>7, <1>8, <1>9, <1>10, <1>11, <1>12,
     <1>13, <1>14, <1>15, <1>16, <1>17, <1>18 DEF Next, Net, Pass

-----------------------------------------------------------------------------
(* Theorems                                                                  *)

\* Inv is inductive.
THEOREM Invariance == Spec => []Inv
<1>1. Init => Inv
  BY InitTypeInv, InitTrackInv, InitShownInv DEF Inv
<1>2. Inv /\ [Next]_vars => Inv'
  BY NextTypeInv, NextTrackInv, NextShownInv DEF Inv
<1> QED BY <1>1, <1>2, PTL DEF Spec

\* The variables of the list, the callback and the pass keep their types.
THEOREM TypeCorrect == Spec => []TypeOK
<1>1. Inv => TypeOK
  BY DEF Inv, TypeInv
<1> QED BY <1>1, Invariance, PTL

\* Between two alerts g_torrent_handles has the torrents of the session.
THEOREM ListIsSession == Spec => []ListTracksSession
<1>1. Inv => ListTracksSession
  BY DEF Inv, TrackInv, ListTracksSession
<1> QED BY <1>1, Invariance, PTL

\* std::find keeps every handle, the invalid one included, from coming twice.
THEOREM HandlesAreUnique == Spec => []NoDuplicateHandles
<1>1. Inv => NoDuplicateHandles
  BY DEF Inv, TrackInv, LoopFree, NoDuplicateHandles
<1> QED BY <1>1, Invariance, PTL

LEMMA InvImpliesShown == Inv => ShownIsList
BY DEF Inv, ShownInv, ShownIsList, Settled, Undisturbed, PassSoFar

\* With no signal pending the application shows what the vector has.
THEOREM ShownIsCurrent == Spec => []ShownIsList
BY InvImpliesShown, Invariance, PTL

\* With no signal pending the handle a command finds at an index is the one
\* of the row that is shown there.
LEMMA HandleAtIndex ==
    ASSUME Inv, Settled, NEW i \in 1..Len(shown), NEW t \in At(i)
    PROVE  /\ shown[i] = [handle |-> t, named |-> t \in named]
           /\ shown[i] \in Answers
<1>1. /\ Len(shown) = Len(list) /\ shown[i] = Line(list[i])
      /\ session \subseteq Handles
  BY InvImpliesShown DEF ShownIsList, Inv, TypeInv, TypeOK
<1>2. Readable(i)
  BY <1>1 DEF Readable, Settled, Inv, TypeInv, TypeOK
<1>3. t = list[i] /\ t # Invalid /\ t \in Handles
  BY <1>1, <1>2, ListAssumption DEF At
<1>4. shown[i] = [handle |-> t, named |-> t \in named]
  BY <1>1, <1>3 DEF Line
<1> QED BY <1>3, <1>4 DEF Answers

\* The call a command by index makes is about the torrent shown there.
LEMMA CommandHits ==
    ASSUME Inv, Settled, NEW i \in 1..Len(shown), RemoveTorrent(i) \/ PauseOrResume(i)
    PROVE  shown[i] \in Answers /\ jobs'[Len(jobs')].handle = shown[i].handle
<1>1. PICK t \in At(i), k \in {"remove", "pause", "resume"} :
          jobs' = Append(jobs, [kind |-> k, handle |-> t])
  <2>1. CASE RemoveTorrent(i)
    <3>1. PICK t \in At(i) : Call([kind |-> "remove", handle |-> t])
      BY <2>1 DEF RemoveTorrent
    <3> QED BY <3>1 DEF Call
  <2>2. CASE PauseOrResume(i)
    <3>1. PICK t \in At(i), k \in {"pause", "resume"} : Call([kind |-> k, handle |-> t])
      BY <2>2 DEF PauseOrResume
    <3> QED BY <3>1 DEF Call
  <2> QED BY <2>1, <2>2
<1> DEFINE j == [kind |-> k, handle |-> t]
<1>2. jobs'[Len(jobs')] = j
  <2>1. jobs \in Seq(Jobs)
    BY DEF Inv, TypeInv, TypeOK
  <2> HIDE DEF j
  <2> QED BY <1>1, <2>1 DEF j
<1>3. shown[i] = [handle |-> t, named |-> t \in named] /\ shown[i] \in Answers
  BY HandleAtIndex
<1> QED BY <1>2, <1>3

\* A command by index reaches the torrent the application shows there.
THEOREM CommandsHit == Spec => CommandsHitWhatIsShown
<1>1. Inv => [\A i \in 1..Len(shown) :
                 Settled /\ (RemoveTorrent(i) \/ PauseOrResume(i)) =>
                     /\ shown[i] \in Answers
                     /\ jobs'[Len(jobs')].handle = shown[i].handle]_vars
  BY CommandHits
<1> QED BY <1>1, Invariance, PTL DEF CommandsHitWhatIsShown

-----------------------------------------------------------------------------
(* Nothing is lost between the flag and the pass                             *)

Seen(t) == \E i \in 1..Len(shown) : shown[i] = Line(t)

\* No addition or name is on its way to the flag.
Caught == /\ appPc = "idle" /\ ~need /\ erased # "during"
          /\ netPc \in {"idle", "added", "removed"}

SeenInv == /\ appPc \in Passing => erased # "after"
           /\ Caught => \A t \in Elements(list) \ {Invalid} : Seen(t)

LEMMA InitSeenInv == Init => SeenInv
BY DEF Init, SeenInv, Caught, Passing

\* A pass that ends undisturbed has read every element.
LEMMA EndOfPass ==
    ASSUME Inv, SeenInv, PassOver, Caught' PROVE \A t \in Elements(list) : Seen(t)
<1>1. Undisturbed
  BY DEF PassOver, netVars, Caught, SeenInv, Undisturbed, Passing, Inv, ShownInv, TypeInv,
         TypeOK
<1>2. Len(shown) = Len(list) /\ \A i \in 1..Len(shown) : shown[i] = Line(list[i])
  BY <1>1 DEF PassOver, Inv, ShownInv, PassSoFar
<1> QED BY <1>2 DEF Elements, Seen

\* Every step preserves SeenInv.
LEMMA NextSeenInv == Inv /\ SeenInv /\ [Next]_vars => SeenInv'
<1> SUFFICES ASSUME Inv, SeenInv, [Next]_vars PROVE SeenInv'
  OBVIOUS
<1> USE DEF libVars, netVars, appVars
\* A step that neither adds an element nor touches what is shown of the rest.
<1>n. ASSUME Elements(list') \subseteq Elements(list), UNCHANGED <<named, shown>>,
             Caught' => Caught, appPc' \in Passing => erased' # "after"
      PROVE  SeenInv'
  BY <1>n DEF SeenInv, Seen, Line
\* A step after which the flag is up, or soon to be, or a pass is going on.
<1>p. ASSUME ~Caught', appPc' \in Passing => erased' # "after" PROVE SeenInv'
  BY <1>p DEF SeenInv
<1>1. CASE RunAdd
  BY <1>1, <1>n DEF RunAdd, Caught, SeenInv
<1>2. CASE RunRemove
  <2>1. Caught' => Caught
    BY <1>2 DEF RunRemove, Caught
  <2>2. appPc' \in Passing => erased' # "after"
    BY <1>2 DEF RunRemove, SeenInv
  <2> QED BY <1>2, <1>n, <2>1, <2>2 DEF RunRemove
<1>3. CASE RunPause
  BY <1>3, <1>n DEF RunPause, Caught, SeenInv
<1>4. CASE RunStatus
  <2>1. appPc = "status"
    <3>1. 1 \in 1..Len(jobs) /\ Head(jobs) = jobs[1]
      BY <1>4 DEF RunStatus, Inv, TypeInv, TypeOK
    <3> QED BY <1>4, <3>1 DEF RunStatus, Inv, TypeInv, WaitInv, Waits
  <2> QED BY <1>4, <1>p, <2>1 DEF RunStatus, Caught, SeenInv, Passing
<1>5. CASE FindHandle
  BY <1>5, <1>n DEF FindHandle, Caught, SeenInv
<1>6. CASE InsertHandle
  BY <1>6, <1>p DEF InsertHandle, AfterStep, Caught, SeenInv
<1>7. CASE RaiseFlag
  BY <1>7, <1>p DEF RaiseFlag, Raised, Caught, SeenInv
<1>8. CASE EraseHandle
  <2>1. Elements(list') \subseteq Elements(list)
    BY <1>8, WithoutProperties DEF EraseHandle, Inv, TypeInv, TypeOK, TrackInv
  <2> QED BY <1>8, <1>n, <2>1 DEF EraseHandle, Caught, SeenInv
<1>9. ASSUME NEW t \in session, Metadata(t) PROVE SeenInv'
  BY <1>9, <1>p DEF Metadata, AfterMetadata, Caught, SeenInv
<1>10. ASSUME NEW t \in session, TorrentError(t) PROVE SeenInv'
  BY <1>10, <1>n DEF TorrentError, Caught, SeenInv
<1>11. CASE NeedUpdate \/ Updated
  BY <1>11, <1>p DEF NeedUpdate, Updated, Caught, Passing
<1>12. CASE NTorrents
  BY <1>12, <1>p DEF NTorrents, Caught
<1>13. CASE QueryBounds \/ QueryElement \/ QueryFlags
  BY <1>13, <1>p DEF QueryBounds, QueryElement, QueryFlags, Result, Caught, SeenInv, Passing
<1>14. CASE PassOver
  <2>1. Caught' => \A t \in Elements(list) : Seen(t)
    BY <1>14, EndOfPass
  <2> QED BY <1>14, <2>1 DEF PassOver, SeenInv, Seen, Line, Passing
<1>15. CASE Command
  <2>1. \E j : Call(j)
    BY <1>15 DEF Command, AddTorrent, RemoveTorrent, PauseOrResume
  <2> QED BY <1>n, <2>1 DEF Call, Caught, SeenInv
<1>16. CASE UNCHANGED vars
  BY <1>16, <1>n DEF vars, Caught, SeenInv
<1> QED
  BY <1>1, <1>2, <1>3, <1>4, <1>5, <1>6, <1>7, <1>8, <1>9, <1>10, <1>11, <1>12,
     <1>13, <1>14, <1>15, <1>16 DEF Next, Net, Pass

LEMMA InvImpliesSeen == Inv /\ SeenInv => NoTorrentUnseen
BY ListAssumption DEF Inv, TypeInv, TypeOK, TrackInv, SeenInv, Caught, Seen, NoTorrentUnseen

\* With the flag down and no insertion on its way to it, every torrent of the
\* session is shown, whatever was removed since the pass.
THEOREM NoneUnseen == Spec => []NoTorrentUnseen
<1>1. Init => SeenInv
  BY InitSeenInv
<1>2. Inv /\ SeenInv /\ [Next]_vars => SeenInv'
  BY NextSeenInv
<1> QED BY <1>1, <1>2, InvImpliesSeen, Invariance, PTL DEF Spec
=============================================================================
