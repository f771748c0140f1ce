------------------------------ MODULE NiDrivers ------------------------------
(***************************************************************************)
(* The NI drivers as the edge uses them (crate nimon-ni): each library is   *)
(* loaded once per process through a LibCache (common.rs) by whichever      *)
(* blocking thread needs it first, and is then used by the system           *)
(* configuration sweep, which keeps a session over sweeps and reopens it    *)
(* (syscfg/safe.rs), the VISA scan, which opens everything anew             *)
(* (visa/safe.rs), or the resets of DAQmx devices (daqmx/safe.rs).          *)
(*                                                                          *)
(* The libraries share nothing, so one of them is in play.  What the driver *)
(* does is external: it may fail any call.  A driver handle is a record of  *)
(* its kind and the session it belongs to.                                  *)
(***************************************************************************)
EXTENDS Integers, Sequences, FiniteSets

CONSTANTS
  Resetters,   \* blocking threads that reset DAQmx devices
  RetryAfter,  \* LOAD_RETRY_INTERVAL, in ticks
  MaxFound     \* bound: resources a driver lists (MAX_RESOURCES in the code)

ASSUME RetryAssumption == RetryAfter \in Nat \ {0}
ASSUME FoundAssumption == MaxFound \in Nat
ASSUME ResettersAssumption == "nobody" \notin Resetters

VARIABLES
  library,    \* the library in play
  installed,  \* its driver is there and loads
  missing,    \* ticks since it was last not there, RetryAfter + 1 for long ago
  loaded,     \* LibCache::ok
  failure,    \* LibCache::failure: its age, NoFailure without one
  attempted,  \* ticks since the last failed load ended, RetryAfter for long ago
  holder,     \* who holds the mutex of LibCache::failure
  at,         \* where each blocking thread is
  session,    \* the sweep's SysCfgSession: NoSession, or its handle (Null)
  open,       \* driver handles that are open
  found,      \* resources the enumeration has collected
  again       \* an enumeration of this sweep has failed

cacheVars == <<library, installed, missing, loaded, failure, attempted, holder>>
sessionVars == <<session, open, found, again>>
niVars == <<cacheVars, at, sessionVars>>

NoFailure == -1
NoSession == -1
Null == 0
Nobody == "nobody"

Threads == CASE library = "syscfg" -> {"sweep"}
             [] library = "visa"   -> {"scan"}
             [] library = "daqmx"  -> Resetters

SessionIds == 1 .. 2
Session(id) == [kind |-> "session", of |-> id]
List(id) == [kind |-> "list", of |-> id]
Child(id, n) == [kind |-> "child", of |-> id, n |-> n]
Children(id) == {h \in open : h.of = id /\ h.kind # "session"}

Goes(t, from, to) == at[t] = from /\ at' = [at EXCEPT ![t] = to]

-----------------------------------------------------------------------------
(* The environment *)

NiInit ==
  /\ library \in {"syscfg", "visa", "daqmx"}
  /\ installed \in BOOLEAN
  /\ missing = IF installed THEN RetryAfter + 1 ELSE 0
  /\ loaded = FALSE /\ failure = NoFailure /\ attempted = RetryAfter
  /\ holder = Nobody
  /\ at = [t \in Threads |-> "idle"]
  /\ session = NoSession /\ open = {} /\ found = 0 /\ again = FALSE

\* The driver is installed, repaired, or removed.
DriverChanges ==
  /\ installed' = ~ installed
  /\ missing' = IF installed THEN 0 ELSE missing
  /\ UNCHANGED <<library, loaded, failure, attempted, holder, at, sessionVars>>

OneTickOlder(age, limit) == IF age \in 0 .. limit - 1 THEN age + 1 ELSE age
NiTick ==
  /\ missing' = IF installed THEN OneTickOlder(missing, RetryAfter + 1) ELSE 0
  /\ failure' = OneTickOlder(failure, RetryAfter)
  /\ attempted' = OneTickOlder(attempted, RetryAfter)
  /\ UNCHANGED <<library, installed, loaded, holder, at, sessionVars>>

-----------------------------------------------------------------------------
(* LibCache::get_or_load *)

\* A job begins.  The sweep that kept its session needs no library.
StartJob(t) ==
  /\ IF session = NoSession THEN Goes(t, "idle", "look") ELSE Goes(t, "idle", "lock session")
  /\ UNCHANGED <<cacheVars, sessionVars>>

\* The first look at `ok` takes no lock.
Look(t) ==
  /\ IF loaded THEN Goes(t, "look", "usable") ELSE Goes(t, "look", "wait")
  /\ UNCHANGED <<cacheVars, sessionVars>>

TakeLock(t) ==
  /\ holder = Nobody /\ holder' = t
  /\ Goes(t, "wait", "check")
  /\ UNCHANGED <<library, installed, missing, loaded, failure, attempted, sessionVars>>

FailureIsFresh == failure # NoFailure /\ failure < RetryAfter

\* Mutant: a failure is remembered for good.
CheckForGood(t) ==
  /\ \/ loaded /\ Goes(t, "check", "usable") /\ holder' = Nobody
     \/ ~ loaded /\ failure # NoFailure /\ Goes(t, "check", "unavailable") /\ holder' = Nobody
     \/ ~ loaded /\ failure = NoFailure /\ Goes(t, "check", "loading") /\ UNCHANGED holder
  /\ UNCHANGED <<library, installed, missing, loaded, failure, attempted, sessionVars>>

\* Mutant: `ok` is not looked at again with the lock held.
CheckOnce(t) ==
  /\ \/ FailureIsFresh /\ Goes(t, "check", "unavailable") /\ holder' = Nobody
     \/ ~ FailureIsFresh /\ Goes(t, "check", "loading") /\ UNCHANGED holder
  /\ UNCHANGED <<library, installed, missing, loaded, failure, attempted, sessionVars>>

\* The second look, with the lock held: another thread may have loaded it, or
\* failed to, while this one waited.
Check(t) ==
  /\ \/ loaded /\ Goes(t, "check", "usable") /\ holder' = Nobody
     \/ ~ loaded /\ FailureIsFresh /\ Goes(t, "check", "unavailable") /\ holder' = Nobody
     \/ ~ loaded /\ ~ FailureIsFresh /\ Goes(t, "check", "loading") /\ UNCHANGED holder
  /\ UNCHANGED <<library, installed, missing, loaded, failure, attempted, sessionVars>>

\* load_first_library tries the candidates, required_symbol its entry points.
Load(t) ==
  /\ \/ /\ installed
        /\ Goes(t, "loading", "usable")
        /\ loaded' = TRUE /\ failure' = NoFailure /\ UNCHANGED attempted
     \/ /\ ~ installed
        /\ Goes(t, "loading", "unavailable")
        /\ failure' = 0 /\ attempted' = 0 /\ UNCHANGED loaded
  /\ holder' = Nobody
  /\ UNCHANGED <<library, installed, missing, sessionVars>>

\* The job reports that the driver is unavailable.
GiveUp(t) ==
  /\ Goes(t, "unavailable", "idle")
  /\ UNCHANGED <<cacheVars, sessionVars>>

-----------------------------------------------------------------------------
(* The sweep: run_sweep_job and SysCfgSession *)

\* open_raw_session may be given this handle; one that comes with an error is closed
\* at once.
Opens(id) == id \in SessionIds /\ Session(id) \notin open

\* SysCfgSession::open.
OpenSession ==
  /\ library = "syscfg"
  /\ \/ /\ Goes("sweep", "usable", "find")
        /\ \E id \in SessionIds : Opens(id) /\ session' = id /\ open' = open \cup {Session(id)}
        /\ again' = FALSE
     \/ /\ Goes("sweep", "usable", "unavailable")
        /\ UNCHANGED <<session, open, again>>
  /\ UNCHANGED <<cacheVars, found>>

\* with_resources: a session left closed by a failed reopening is opened first.
LockSession ==
  /\ IF session = Null THEN Goes("sweep", "lock session", "reopen")
                       ELSE Goes("sweep", "lock session", "find")
  /\ again' = FALSE
  /\ UNCHANGED <<cacheVars, session, open, found>>

\* NISysCfgFindHardware: a list, an empty system (no list), or an error.
FindHardware ==
  /\ \/ Goes("sweep", "find", "next") /\ open' = open \cup {List(session)}
     \/ Goes("sweep", "find", "read") /\ UNCHANGED open
     \/ Goes("sweep", "find", "failed") /\ UNCHANGED open
  /\ found' = 0
  /\ UNCHANGED <<cacheVars, session, again>>

\* NISysCfgNextResource: one more, its end, or an error: then everything collected
\* so far is closed by its guards.
NextResource ==
  /\ \/ /\ found < MaxFound
        /\ Goes("sweep", "next", "next")
        /\ found' = found + 1
        /\ open' = open \cup {Child(session, found + 1)}
     \/ /\ Goes("sweep", "next", "read")
        /\ open' = open \ {List(session)}
        /\ UNCHANGED found
     \/ /\ Goes("sweep", "next", "failed")
        /\ open' = open \ Children(session) /\ found' = 0
  /\ UNCHANGED <<cacheVars, session, again>>

\* Devices and health are read from the resources, which are then dropped, before
\* the lock of the session.
ReadResources ==
  /\ Goes("sweep", "read", "info")
  /\ open' = open \ Children(session) /\ found' = 0
  /\ UNCHANGED <<cacheVars, session, again>>

\* A first enumeration that failed is repeated on a new session; a second fails the
\* sweep, which keeps what session it has.
EnumerationFails ==
  /\ IF again THEN Goes("sweep", "failed", "info") ELSE Goes("sweep", "failed", "reopen")
  /\ again' = TRUE
  /\ UNCHANGED <<cacheVars, session, open, found>>

\* Mutant: the handle is forgotten instead of closed.
Forgotten == open

\* SysCfgSession::close.
Closed == open \ {Session(session)}

\* SysCfgSession::reopen, of an enumeration (`find`) or of system_info.
Reopen(from, to) ==
  /\ \/ /\ Goes("sweep", from, to)
        /\ \E id \in SessionIds :
             /\ id # session /\ Opens(id)
             /\ session' = id /\ open' = Closed \cup {Session(id)}
     \/ /\ Goes("sweep", from, IF to = "find" THEN "info" ELSE "done")
        /\ session' = Null /\ open' = Closed
  /\ UNCHANGED <<cacheVars, found, again>>

ReopenToSweep == Reopen("reopen", "find")

\* system_info, which the job may ask for: properties of the session, and no retry;
\* a session that was left closed is opened for it.
SystemInfo ==
  \/ session = Null /\ Reopen("info", "done")
  \/ Goes("sweep", "info", "done") /\ UNCHANGED <<cacheVars, sessionVars>>

\* The session goes back to the device manager; an edge that stops drops it.
SweepEnds ==
  /\ Goes("sweep", "done", "idle")
  /\ UNCHANGED <<cacheVars, sessionVars>>

DropSession ==
  /\ library = "syscfg" /\ at["sweep"] = "idle" /\ session # NoSession
  /\ session' = NoSession /\ open' = Closed
  /\ UNCHANGED <<cacheVars, at, found, again>>

-----------------------------------------------------------------------------
(* The scan: visa_scan and VisaSession.  The session is a local of the job, 1. *)

\* viOpenDefaultRM.
OpenManager ==
  /\ library = "visa"
  /\ \/ Goes("scan", "usable", "find") /\ open' = open \cup {Session(1)}
     \/ Goes("scan", "usable", "unavailable") /\ UNCHANGED open
  /\ UNCHANGED <<cacheVars, session, found, again>>

\* viFindRsrc and viFindNext: the names are copied and the list closed.
FindResources ==
  /\ library = "visa"
  /\ \/ \E n \in 0 .. MaxFound : found' = n /\ Goes("scan", "find", "probe")
     \/ Goes("scan", "find", "drop") /\ UNCHANGED found
  /\ UNCHANGED <<cacheVars, session, open, again>>

\* probe_instrument: viOpen, the query and viClose, one name after the other; the
\* scan may have been told not to probe.
OpenInstrument ==
  /\ found > 0
  /\ \/ Goes("scan", "probe", "query") /\ open' = open \cup {Child(1, found)}
     \/ Goes("scan", "probe", "probe") /\ UNCHANGED open
  /\ found' = found - 1
  /\ UNCHANGED <<cacheVars, session, again>>

\* Mutant: the instrument's session is left open when it does not answer.
QueryKept ==
  /\ Goes("scan", "query", "probe")
  /\ open' \in {open, open \ Children(1)}
  /\ UNCHANGED <<cacheVars, session, found, again>>

\* *IDN? is answered or times out, and the instrument is closed.
Query ==
  /\ Goes("scan", "query", "probe")
  /\ open' = open \ Children(1)
  /\ UNCHANGED <<cacheVars, session, found, again>>

ProbeEnds ==
  /\ found = 0 /\ Goes("scan", "probe", "drop")
  /\ UNCHANGED <<cacheVars, sessionVars>>

CloseManager ==
  /\ Goes("scan", "drop", "idle")
  /\ open' = open \ {Session(1)} /\ found' = 0
  /\ UNCHANGED <<cacheVars, session, again>>

-----------------------------------------------------------------------------
(* The resets: DAQmxResetDevice and, on an error, the thread's own message *)

ResetDevice(t) ==
  /\ library = "daqmx"
  /\ Goes(t, "usable", "idle")
  /\ UNCHANGED <<cacheVars, sessionVars>>

-----------------------------------------------------------------------------
LibCacheStep(t) == Look(t) \/ TakeLock(t) \/ Check(t) \/ Load(t) \/ GiveUp(t)

SweepStep ==
  /\ library = "syscfg"
  /\ \/ OpenSession \/ LockSession \/ FindHardware \/ NextResource \/ ReadResources
     \/ EnumerationFails \/ ReopenToSweep \/ SystemInfo \/ SweepEnds \/ DropSession

ScanStep ==
  /\ library = "visa"
  /\ \/ OpenManager \/ FindResources \/ OpenInstrument \/ Query \/ ProbeEnds \/ CloseManager

NiNext ==
  \/ DriverChanges \/ NiTick
  \/ \E t \in Threads : StartJob(t) \/ LibCacheStep(t) \/ ResetDevice(t)
  \/ SweepStep \/ ScanStep

NiSpec == NiInit /\ [][NiNext]_niVars

-----------------------------------------------------------------------------
(* Properties *)

Loading == {t \in Threads : at[t] = "loading"}

\* However many threads ask at once, a library is loaded by one at a time, never
\* again once it is there, and after a failure not before its interval is over.
\* Nobody hears that the driver is unavailable when it has been there for that long,
\* so a driver that is installed is used without a restart of the edge.
LoadPolicy ==
  \A t \in Threads : at[t] = "check" =>
    /\ at'[t] = "loading" => Loading = {} /\ ~ loaded /\ attempted >= RetryAfter
    /\ at'[t] = "unavailable" => missing < RetryAfter

\* The driver's handles are closed once, children before their session, and none is
\* left behind: between jobs only the session that is kept is open.
HandlesBalanced ==
  /\ \A h \in open : Session(h.of) \in open
  /\ session \in SessionIds => Session(session) \in open
  /\ Cardinality({h \in open : h.kind = "session"}) <= 1
  /\ (\A t \in Threads : at[t] = "idle") =>
       open = IF session \in SessionIds THEN {Session(session)} ELSE {}

\* Libraries are loaded once, tried again after their interval, and no handle of the
\* drivers is left open or closed twice, at the start and after every step (nimon-ni).
DriversSound == HandlesBalanced /\ [][LoadPolicy /\ HandlesBalanced']_niVars
=============================================================================
