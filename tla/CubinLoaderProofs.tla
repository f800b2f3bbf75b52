--------------------------- MODULE CubinLoaderProofs ---------------------------
(***************************************************************************)
(* Proofs about CubinLoader, for every set of processes and every number   *)
(* of attempts.                                                            *)
(***************************************************************************)
EXTENDS CubinLoader, TLAPS

Places == {"idle", "look", "read", "miss", "get", "sleep", "create", "write", "answered", "down"}

\* The state as far as GivenAsHashed depends on it: nothing is said of the file.
Shape ==
  /\ settings \in [hashed : BOOLEAN, offline : BOOLEAN]
  /\ at \in [Processes -> Places]
  /\ data \in [Processes -> Contents \cup {"absent"}]
  /\ given \in [Processes -> Contents \cup {"nothing yet", "null", "absent"}]

\* What a call is about to write, and gives the library afterwards whether or not
\* the write succeeds, has the hash.
PendingAsHashed ==
  \A p \in Processes : settings.hashed /\ at[p] \in {"create", "write"} => data[p] = "right"

\* The inductive invariant.
Inv == Shape /\ PendingAsHashed /\ GivenAsHashed

LEMMA InitInv == Init => Inv
BY DEF Init, Inv, Shape, PendingAsHashed, GivenAsHashed, Places, Contents

\* The steps that end a call with an answer, of whatever contents, keep the
\* invariant if the answer has the hash where there is one.
LEMMA GivePreserves ==
  ASSUME Inv, NEW p \in Processes, NEW what \in Contents \cup {"null", "absent"},
         settings.hashed => what \in {"null", "right"},
         Give(p, what), UNCHANGED <<settings, data>>
  PROVE  Inv'
<1>1. Shape'
  BY DEF Inv, Shape, Give, Goto, Places
<1>2. PendingAsHashed'
  BY DEF Inv, Shape, PendingAsHashed, Give, Goto
<1>3. GivenAsHashed'
  BY DEF Inv, Shape, GivenAsHashed, Give, Goto
<1> QED
  BY <1>1, <1>2, <1>3 DEF Inv

\* The steps that only move a call on, and not to where it writes.
LEMMA GotoPreserves ==
  ASSUME Inv, NEW p \in Processes, NEW place \in Places \ {"create", "write"},
         Goto(p, place), UNCHANGED <<settings, data, given>>
  PROVE  Inv'
BY DEF Inv, Shape, PendingAsHashed, GivenAsHashed, Goto, Places

\* Every step of a call keeps the invariant.
LEMMA DownloadPreserves ==
  ASSUME Inv, file \in Contents \cup {"absent"}, NEW p \in Processes, DownloadCubin(p)
  PROVE  Inv'
<1>1. CASE LookInCache(p)
  BY <1>1, GotoPreserves DEF LookInCache, Places
<1>2. CASE ReadCached(p)
  <2>1. CASE Accepted(file)
    BY <1>2, <2>1, GivePreserves DEF ReadCached, Accepted
  <2>2. CASE ~Accepted(file)
    BY <1>2, <2>2, GotoPreserves DEF ReadCached, Places
  <2> QED
    BY <2>1, <2>2
<1>3. CASE ReadCachedFails(p)
  BY <1>3, GotoPreserves DEF ReadCachedFails, Places
<1>4. CASE StartDownload(p)
  <2>1. CASE settings.offline
    BY <1>4, <2>1, GivePreserves DEF StartDownload
  <2>2. CASE ~settings.offline
    BY <1>4, <2>2, GotoPreserves DEF StartDownload, Places
  <2> QED
    BY <2>1, <2>2
<1>5. CASE Received(p)
  <2>1. PICK d \in Contents :
          IF Accepted(d)
          THEN Goto(p, "create") /\ data' = [data EXCEPT ![p] = d] /\ UNCHANGED given
          ELSE Give(p, "null") /\ UNCHANGED data
    BY <1>5 DEF Received, Contents
  <2>2. CASE Accepted(d)
    <3>1. /\ at' = [at EXCEPT ![p] = "create"] /\ data' = [data EXCEPT ![p] = d]
          /\ UNCHANGED <<settings, given>>
      BY <1>5, <2>1, <2>2 DEF Received, Goto
    <3>2. Shape'
      BY <3>1 DEF Inv, Shape, Places
    <3>3. PendingAsHashed'
      BY <2>2, <3>1 DEF Inv, Shape, PendingAsHashed, Accepted
    <3>4. GivenAsHashed'
      BY <3>1 DEF Inv, GivenAsHashed
    <3> QED
      BY <3>2, <3>3, <3>4 DEF Inv
  <2>3. CASE ~Accepted(d)
    BY <1>5, <2>1, <2>3, GivePreserves DEF Received
  <2> QED
    BY <2>2, <2>3
<1>6. CASE BodyBroken(p)
  <2>1. CASE attempt[p] < Attempts
    BY <1>6, <2>1 DEF BodyBroken, Inv, Shape, PendingAsHashed, GivenAsHashed
  <2>2. CASE ~(attempt[p] < Attempts)
    BY <1>6, <2>2, GivePreserves DEF BodyBroken
  <2> QED
    BY <2>1, <2>2
<1>7. CASE GetFails(p)
  <2>1. CASE attempt[p] < Attempts
    BY <1>7, <2>1, GotoPreserves DEF GetFails, Places
  <2>2. CASE ~(attempt[p] < Attempts)
    BY <1>7, <2>2, GivePreserves DEF GetFails
  <2> QED
    BY <2>1, <2>2
<1>8. CASE Awake(p)
  BY <1>8, GotoPreserves DEF Awake, Places
<1>9. CASE Create(p)
  BY <1>9 DEF Create, Goto, Inv, Shape, PendingAsHashed, GivenAsHashed, Places
<1>10. ASSUME at[p] \in {"create", "write"}, Give(p, data[p]), UNCHANGED <<settings, data>>
       PROVE  Inv'
  <2>1. data[p] \in Contents \cup {"null", "absent"}
    BY DEF Inv, Shape
  <2>2. settings.hashed => data[p] \in {"null", "right"}
    BY <1>10 DEF Inv, PendingAsHashed
  <2> QED
    BY <1>10, <2>1, <2>2, GivePreserves
<1>11. CASE CreateFails(p)
  BY <1>10, <1>11 DEF CreateFails
<1>12. CASE Write(p)
  BY <1>10, <1>12 DEF Write
<1>13. CASE WriteFails(p)
  BY <1>10, <1>13 DEF WriteFails
<1> QED
  BY <1>1, <1>2, <1>3, <1>4, <1>5, <1>6, <1>7, <1>8, <1>9, <1>11, <1>12, <1>13
  DEF DownloadCubin


LEMMA FilePreserves ==
  ASSUME Inv, file \in Contents \cup {"absent"}, [Next]_vars
  PROVE  file' \in Contents \cup {"absent"}
<1>1. \A p \in Processes : data[p] \in Contents \cup {"absent"}
  BY DEF Inv, Shape
<1>2. ASSUME NEW p \in Processes, DownloadCubin(p)
      PROVE  file' \in Contents \cup {"absent"}
  <2>1. CASE Write(p)
    BY <1>1, <2>1 DEF Write, Contents
  <2>2. CASE Create(p) \/ WriteFails(p)
    BY <2>2 DEF Create, WriteFails, Contents
  <2> QED
    BY <1>2, <2>1, <2>2
    DEF DownloadCubin, LookInCache, ReadCached, ReadCachedFails, StartDownload, Received,
        BodyBroken, GetFails, Awake, CreateFails
<1> QED
  BY <1>2 DEF Next, CubinCallback, Crash, Recovers, vars

LEMMA StepInv ==
  ASSUME Inv, file \in Contents \cup {"absent"}, [Next]_vars
  PROVE  Inv'
<1>1. ASSUME NEW p \in Processes, CubinCallback(p)
      PROVE  Inv'
  BY <1>1 DEF CubinCallback, Goto, Inv, Shape, PendingAsHashed, GivenAsHashed, Places
<1>2. ASSUME NEW p \in Processes, Crash(p)
      PROVE  Inv'
  BY <1>2, GotoPreserves DEF Crash, Places
<1>3. CASE Recovers
  BY <1>3 DEF Recovers, Inv, Shape, PendingAsHashed, GivenAsHashed
<1>4. CASE UNCHANGED vars
  BY <1>4 DEF vars, Inv, Shape, PendingAsHashed, GivenAsHashed
<1> QED
  BY <1>1, <1>2, <1>3, <1>4, DownloadPreserves DEF Next

\* With a hash the library is only ever given the kernel it asked for, however many
\* processes read and rewrite the cached file, fail to, or die half way.
THEOREM OnlyHashedKernelsAreGiven == Spec => []GivenAsHashed
<1> DEFINE FileOK == file \in Contents \cup {"absent"}
<1>1. Init => Inv /\ FileOK
  BY InitInv DEF Init
<1>2. Inv /\ FileOK /\ [Next]_vars => (Inv /\ FileOK)'
  BY StepInv, FilePreserves
<1>3. Inv => GivenAsHashed
  BY DEF Inv
<1> QED
  BY <1>1, <1>2, <1>3, PTL DEF Spec
===============================================================================
