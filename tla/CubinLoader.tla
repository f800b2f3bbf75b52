------------------------------ MODULE CubinLoader ------------------------------
(***************************************************************************)
(* The loader of TensorRT-LLM kernels.  The library asks for a kernel by   *)
(* path and hash; the callback reads it from a cache directory that all    *)
(* processes of a user share, or downloads it and writes it there.  The    *)
(* file is written in place, so another process may read it half written,  *)
(* and a process that dies leaves it so.                                   *)
(***************************************************************************)
EXTENDS Naturals

CONSTANTS Processes, Attempts   \* Attempts: GET requests per call

ASSUME AttemptsAssumption == Attempts \in Nat \ {0}

VARIABLES settings,  \* whether the library names a hash, and downloads are switched off
          server,    \* "flaky", and once it is "well" it stays so
          file,      \* what the cache holds under the path
          at,        \* process -> where its call is
          attempt,   \* process -> requests made
          data,      \* process -> what it downloaded
          given      \* process -> what the library was given

vars == <<settings, server, file, at, attempt, data, given>>

\* Right: has the hash.  Other: a whole response that has not.  Torn: part of a file.
Contents == {"right", "other", "torn"}

Init ==
  /\ settings \in [hashed : BOOLEAN, offline : BOOLEAN]
  /\ server \in {"flaky", "well"}
  /\ file \in Contents \cup {"absent"}
  /\ at = [p \in Processes |-> "idle"]
  /\ attempt = [p \in Processes |-> 0]
  /\ data = [p \in Processes |-> "absent"]
  /\ given = [p \in Processes |-> "nothing yet"]

Goto(p, place) == at' = [at EXCEPT ![p] = place]
Give(p, what) == Goto(p, "answered") /\ given' = [given EXCEPT ![p] = what]

\* Mutant of Accepted: whatever is there is taken.
AcceptedUnseen(d) == TRUE

Accepted(d) == settings.hashed => d = "right"

\* The library calls back for a path, of a thread that may have called before.
CubinCallback(p) ==
  /\ at[p] \in {"idle", "answered", "down"} /\ Goto(p, "look")
  /\ attempt' = [attempt EXCEPT ![p] = 0]
  /\ data' = [data EXCEPT ![p] = "absent"]
  /\ given' = [given EXCEPT ![p] = "nothing yet"]
  /\ UNCHANGED <<settings, server, file>>

LookInCache(p) ==
  /\ at[p] = "look" /\ Goto(p, IF file = "absent" THEN "miss" ELSE "read")
  /\ UNCHANGED <<settings, server, file, attempt, data, given>>

ReadCached(p) ==
  /\ at[p] = "read"
  /\ IF Accepted(file) THEN Give(p, file) ELSE Goto(p, "miss") /\ UNCHANGED given
  /\ UNCHANGED <<settings, server, file, attempt, data>>

ReadCachedFails(p) ==
  /\ at[p] = "read" /\ Goto(p, "miss")
  /\ UNCHANGED <<settings, server, file, attempt, data, given>>

\* Mutant of Counted: a failed request is not counted.
CountedNot(n) == n

Counted(n) == n + 1

StartDownload(p) ==
  /\ at[p] = "miss"
  /\ IF settings.offline THEN Give(p, "null") /\ UNCHANGED attempt
     ELSE /\ Goto(p, "get") /\ UNCHANGED given
          /\ attempt' = [attempt EXCEPT ![p] = 1]
  /\ UNCHANGED <<settings, server, file, data>>

\* A whole response: one without the hash ends the call at once.
Received(p) ==
  /\ at[p] = "get"
  /\ \E d \in IF server = "well" THEN {"right"} ELSE {"right", "other"} :
       IF Accepted(d)
       THEN Goto(p, "create") /\ data' = [data EXCEPT ![p] = d] /\ UNCHANGED given
       ELSE Give(p, "null") /\ UNCHANGED data
  /\ UNCHANGED <<settings, server, file, attempt>>

\* A response that breaks off: the next request follows without a pause.
BodyBroken(p) ==
  /\ at[p] = "get" /\ server = "flaky"
  /\ IF attempt[p] < Attempts
     THEN attempt' = [attempt EXCEPT ![p] = Counted(@)] /\ UNCHANGED <<at, given>>
     ELSE Give(p, "null") /\ UNCHANGED attempt
  /\ UNCHANGED <<settings, server, file, data>>

\* An error or a timeout: 2^attempt seconds pass, but for the last.
GetFails(p) ==
  /\ at[p] = "get" /\ server = "flaky"
  /\ IF attempt[p] < Attempts THEN Goto(p, "sleep") /\ UNCHANGED given ELSE Give(p, "null")
  /\ UNCHANGED <<settings, server, file, attempt, data>>

Awake(p) ==
  /\ at[p] = "sleep" /\ Goto(p, "get")
  /\ attempt' = [attempt EXCEPT ![p] = Counted(@)]
  /\ UNCHANGED <<settings, server, file, data, given>>

\* fs::write: the file is emptied and then filled.
Create(p) ==
  /\ at[p] = "create" /\ Goto(p, "write") /\ file' = "torn"
  /\ UNCHANGED <<settings, server, attempt, data, given>>

\* Two writers of different data may leave a mixture.
Write(p) ==
  /\ at[p] = "write" /\ Give(p, data[p])
  /\ file' \in IF \E q \in Processes \ {p} : at[q] = "write" /\ data[q] # data[p]
               THEN {data[p], "torn"} ELSE {data[p]}
  /\ UNCHANGED <<settings, server, attempt, data>>

\* Directory, file or disk refuse: the result is dropped, the data still given.
CreateFails(p) ==
  /\ at[p] = "create" /\ Give(p, data[p])
  /\ UNCHANGED <<settings, server, file, attempt, data>>

WriteFails(p) ==
  /\ at[p] = "write" /\ Give(p, data[p])
  /\ file' = "torn"
  /\ UNCHANGED <<settings, server, attempt, data>>

\* A process dies; the file stays as it is.
Crash(p) ==
  /\ at[p] # "down" /\ Goto(p, "down")
  /\ UNCHANGED <<settings, server, file, attempt, data, given>>

Recovers == server = "flaky" /\ server' = "well" /\ UNCHANGED <<settings, file, at, attempt, data, given>>

DownloadCubin(p) ==
  \/ LookInCache(p) \/ ReadCached(p) \/ ReadCachedFails(p) \/ StartDownload(p)
  \/ Received(p) \/ BodyBroken(p) \/ GetFails(p) \/ Awake(p)
  \/ Create(p) \/ CreateFails(p) \/ Write(p) \/ WriteFails(p)

Next ==
  \/ \E p \in Processes : CubinCallback(p) \/ DownloadCubin(p) \/ Crash(p)
  \/ Recovers

\* A thread of a live process goes on; every GET ends, by its timeout of 60
\* seconds at the latest.  Nobody has to call, crash or recover.
Spec == Init /\ [][Next]_vars /\ \A p \in Processes : WF_vars(DownloadCubin(p))

-------------------------------------------------------------------------------
\* With a hash the library is only ever given the kernel it asked for, though the
\* cache is read while other processes rewrite it in place, and processes die
\* between emptying the file and filling it.
GivenAsHashed == \A p \in Processes : settings.hashed => given[p] \in {"nothing yet", "null", "right"}

\* Every call is answered unless its process dies.  When the server is well by the
\* time of the call, the answer is a kernel, and with a hash the right one, however
\* the cache was left: a torn file is replaced and never in the way.
EveryCallIsAnswered ==
  \A p \in Processes :
    /\ at[p] = "look" ~> at[p] \in {"answered", "down"}
    /\ (at[p] = "look" /\ server = "well" /\ ~settings.offline)
         ~> (at[p] = "down" \/ given[p] \in (IF settings.hashed THEN {"right"} ELSE Contents))
===============================================================================
