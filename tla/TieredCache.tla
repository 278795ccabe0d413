----------------------------- MODULE TieredCache -----------------------------
(***************************************************************************)
(* One tile in the two-level cache of services/renderer/cache.py (Redis,   *)
(* then a file) and the fetches of it by fetch_wms_image (compositor.py,   *)
(* generate_video.py), which run in several threads and processes over the *)
(* same directory.                                                         *)
(*                                                                         *)
(* Every file of this tile has the pieces 1..Parts; a copy of it says for  *)
(* each piece which body it came from, or None where it has a hole.  Two   *)
(* requests of one URL may be answered with different bodies: a server     *)
(* that is not GIBS is asked without TIME and serves live data.  open in   *)
(* mode "wb" empties the file; each writer then writes its own body at its *)
(* own position, so a write after another's open leaves a hole or a        *)
(* mixture.  A read is taken as a snapshot.  A file with any piece passes  *)
(* the test len(data) > 500.                                               *)
(***************************************************************************)
EXTENDS Naturals

CONSTANTS
  Fetcher,     \* threads that fetch the tile
  RedisUser,   \* those whose process has a Redis client
  None,
  Body,        \* what the server may answer with status 200
  Good,        \* the bodies that the image decoder accepts
  Parts,       \* pieces of a tile
  Tolerant,    \* the decoder accepts a file with holes or a mixture
  MaxFaults    \* bound: failed requests, undecodable bodies, Redis and disk
               \* errors, killed processes

Piece      == 1..Parts
WholeOf(b) == [k \in Piece |-> b]
Whole      == {WholeOf(b) : b \in Body}
Empty      == WholeOf(None)
Copy       == {None} \cup [Piece -> Body \cup {None}]

ASSUME PartsAssumption   == Parts \in Nat \ {0}
ASSUME FetcherAssumption == RedisUser \subseteq Fetcher
ASSUME BodyAssumption    == Good \subseteq Body
ASSUME BoundAssumption   == MaxFaults \in Nat /\ Tolerant \in BOOLEAN
ASSUME NoneAssumption    == None \notin Body \cup [Piece -> Body \cup {None}]

VARIABLES
  file,      \* the copy in the file, None if there is no file
  redis,     \* the Redis value, None if there is none
  pc,        \* per fetcher, its next operation
  val,       \* per fetcher, the cached copy it was given
  body,      \* per fetcher, the answer it is working on
  try,       \* per fetcher, attempt of the request
  done,      \* per fetcher, pieces it has written since it opened the file
  cutOff,    \* a write was broken off since the file was last opened (history)
  mixed,     \* that open met a writer of another body (history)
  exposed,   \* a torn file was read from (history)
  faults

history == <<cutOff, mixed, exposed>>
vars    == <<file, redis, pc, val, body, try, done, history, faults>>

PC      == {"idle", "l1", "l2", "backfill", "decode", "network", "setRedis", "open", "write"}
Fault   == faults < MaxFaults /\ faults' = faults + 1
NoFault == UNCHANGED faults

Init ==
  /\ file    = None
  /\ redis   = None
  /\ pc      = [p \in Fetcher |-> "idle"]
  /\ val     = [p \in Fetcher |-> None]
  /\ body    = [p \in Fetcher |-> None]
  /\ try     = [p \in Fetcher |-> 0]
  /\ done    = [p \in Fetcher |-> {}]
  /\ cutOff  = FALSE
  /\ mixed   = FALSE
  /\ exposed = FALSE
  /\ faults  = 0

Goto(p, l) == pc' = [pc EXCEPT ![p] = l]

(* fetch_wms_image returns, with an image or without. *)
Return(p) == /\ Goto(p, "idle")
             /\ val'  = [val EXCEPT ![p] = None]
             /\ body' = [body EXCEPT ![p] = None]
             /\ try'  = [try EXCEPT ![p] = 0]
             /\ done' = [done EXCEPT ![p] = {}]

(* The loop of attempts, three at most. *)
Attempt(p) == /\ Goto(p, "network")
              /\ val'  = [val EXCEPT ![p] = None]
              /\ body' = [body EXCEPT ![p] = None]
              /\ try'  = [try EXCEPT ![p] = @ + 1]
              /\ done' = [done EXCEPT ![p] = {}]

Retry(p) == (try[p] < 3 /\ Attempt(p)) \/ (try[p] = 3 /\ Return(p))

Fetch(p) ==
  /\ pc[p] = "idle"
  /\ Goto(p, IF p \in RedisUser THEN "l1" ELSE "l2")
  /\ UNCHANGED <<file, redis, val, body, try, done, history, faults>>

-----------------------------------------------------------------------------
(* TieredCache.get                                                         *)

RedisHit(p) ==
  /\ pc[p] = "l1" /\ redis # None
  /\ val' = [val EXCEPT ![p] = redis]
  /\ Goto(p, "decode")
  /\ UNCHANGED <<file, redis, body, try, done, history, faults>>

RedisMiss(p) ==
  /\ pc[p] = "l1"
  /\ \/ redis = None /\ NoFault
     \/ redis # None /\ Fault
  /\ Goto(p, "l2")
  /\ UNCHANGED <<file, redis, val, body, try, done, history>>

Missing == file \in {None, Empty}

FileHit(p) ==
  /\ pc[p] = "l2" /\ ~Missing
  /\ val'     = [val EXCEPT ![p] = file]
  /\ exposed' = (exposed \/ file \notin Whole)
  /\ Goto(p, IF p \in RedisUser THEN "backfill" ELSE "decode")
  /\ UNCHANGED <<file, redis, body, try, done, cutOff, mixed, faults>>

FileMiss(p) ==
  /\ pc[p] = "l2"
  /\ \/ Missing /\ NoFault
     \/ ~Missing /\ Fault
  /\ Attempt(p)
  /\ UNCHANGED <<file, redis, history>>

BackfillAgain(p) ==            \* mutant: the file is read a second time
  /\ pc[p] = "backfill"
  /\ \/ redis' = file /\ NoFault
     \/ UNCHANGED redis /\ Fault
  /\ Goto(p, "decode")
  /\ UNCHANGED <<file, val, body, try, done, history>>

(* What was read from the file goes to Redis before anyone decodes it. *)
Backfill(p) ==
  /\ pc[p] = "backfill"
  /\ \/ redis' = val[p] /\ NoFault
     \/ UNCHANGED redis /\ Fault
  /\ Goto(p, "decode")
  /\ UNCHANGED <<file, val, body, try, done, history>>

Sound        == {WholeOf(b) : b \in Good}
Decodable(c) == c \in Sound \/ (Tolerant /\ c \notin Whole)

DecodeOk(p) ==
  /\ pc[p] = "decode" /\ Decodable(val[p])
  /\ Return(p)
  /\ UNCHANGED <<file, redis, history, faults>>

DecodeFails(p) ==
  /\ pc[p] = "decode" /\ ~Decodable(val[p])
  /\ Attempt(p)
  /\ UNCHANGED <<file, redis, history, faults>>

-----------------------------------------------------------------------------
(* The request to the WMS server and TieredCache.set                       *)

(* status 200 and more than 500 bytes, an image or not *)
RequestOk(p) ==
  /\ pc[p] = "network"
  /\ \E b \in Body : /\ body' = [body EXCEPT ![p] = b]
                     /\ IF b \in Good THEN NoFault ELSE Fault
  /\ Goto(p, IF p \in RedisUser THEN "setRedis" ELSE "open")
  /\ UNCHANGED <<file, redis, val, try, done, history>>

RequestFailsOften(p) ==        \* mutant: a fourth attempt
  /\ pc[p] = "network" /\ Fault
  /\ IF try[p] <= 3 THEN Attempt(p) ELSE Return(p)
  /\ UNCHANGED <<file, redis, history>>

(* a status other than 200, a short body, a timeout *)
RequestFails(p) ==
  /\ pc[p] = "network" /\ Fault
  /\ Retry(p)
  /\ UNCHANGED <<file, redis, history>>

(* an xml or html answer: no retry *)
NotAnImage(p) ==
  /\ pc[p] = "network" /\ Fault
  /\ Return(p)
  /\ UNCHANGED <<file, redis, history>>

SetRedis(p) ==
  /\ pc[p] = "setRedis"
  /\ \/ redis' = WholeOf(body[p]) /\ NoFault
     \/ UNCHANGED redis /\ Fault
  /\ Goto(p, "open")
  /\ UNCHANGED <<file, val, body, try, done, history>>

OpenNew(p) ==                  \* mutant: the file is written only if there is none
  /\ pc[p] = "open"
  /\ IF file = None
     THEN /\ file' = Empty /\ cutOff' = FALSE /\ mixed' = FALSE /\ Goto(p, "write")
          /\ UNCHANGED <<val, body, try, done>>
     ELSE UNCHANGED <<file, cutOff, mixed>> /\ Return(p)
  /\ UNCHANGED <<redis, exposed, faults>>

OpenFile(p) ==
  /\ pc[p] = "open"
  /\ file'   = Empty
  /\ cutOff' = FALSE
  /\ mixed'  = (\E q \in Fetcher : pc[q] = "write" /\ body[q] # body[p])
  /\ Goto(p, "write")
  /\ UNCHANGED <<redis, val, body, try, done, exposed, faults>>

Left(p) == Piece \ done[p]

Write(p) ==
  /\ pc[p] = "write"
  /\ \E k \in Left(p) : /\ \A i \in Left(p) : k <= i
                        /\ file' = [file EXCEPT ![k] = body[p]]
                        /\ done' = [done EXCEPT ![p] = @ \cup {k}]
  /\ UNCHANGED <<redis, pc, val, body, try, history, faults>>

(* Only now is the body decoded.  If it cannot be, the next attempt is     *)
(* made, and what is in the cache stays there.                             *)
DecodeBody(p) == (body[p] \in Good /\ Return(p)) \/ (body[p] \notin Good /\ Retry(p))

CloseEarly(p) ==               \* mutant: closed when the first buffer is written
  /\ pc[p] = "write" /\ done[p] # {}
  /\ DecodeBody(p)
  /\ UNCHANGED <<file, redis, history, faults>>

CloseFile(p) ==
  /\ pc[p] = "write" /\ Left(p) = {}
  /\ DecodeBody(p)
  /\ UNCHANGED <<file, redis, history, faults>>

(* open or write raises: logged, and the body is decoded all the same *)
WriteFails(p) ==
  /\ pc[p] \in {"open", "write"} /\ Fault
  /\ cutOff' = (cutOff \/ pc[p] = "write")
  /\ DecodeBody(p)
  /\ UNCHANGED <<file, redis, mixed, exposed>>

(* The process is killed: an aborted job, a timeout, a crash. *)
Kill(p) ==
  /\ pc[p] # "idle" /\ Fault
  /\ cutOff' = (cutOff \/ pc[p] = "write")
  /\ Return(p)
  /\ UNCHANGED <<file, redis, mixed, exposed>>

(* The time to live of the Redis value (setex) is over. *)
Expire ==
  /\ redis # None
  /\ redis' = None
  /\ UNCHANGED <<file, pc, val, body, try, done, history, faults>>

-----------------------------------------------------------------------------
Get(p)     == RedisHit(p) \/ RedisMiss(p) \/ FileHit(p) \/ FileMiss(p) \/ Backfill(p)
Decode(p)  == DecodeOk(p) \/ DecodeFails(p)
Request(p) == RequestOk(p) \/ RequestFails(p) \/ NotAnImage(p)
Set(p)     == SetRedis(p) \/ OpenFile(p) \/ Write(p) \/ CloseFile(p) \/ WriteFails(p)
Step(p)    == Get(p) \/ Decode(p) \/ Request(p) \/ Set(p)

Next == (\E p \in Fetcher : Fetch(p) \/ Step(p) \/ Kill(p)) \/ Expire

Spec == Init /\ [][Next]_vars

-----------------------------------------------------------------------------
(* Every variable keeps its type. *)
TypeOK ==
  /\ file    \in Copy
  /\ redis   \in Copy
  /\ pc      \in [Fetcher -> PC]
  /\ val     \in [Fetcher -> Copy]
  /\ body    \in [Fetcher -> Body \cup {None}]
  /\ try     \in [Fetcher -> 0..3]
  /\ done    \in [Fetcher -> SUBSET Piece]
  /\ cutOff  \in BOOLEAN
  /\ mixed   \in BOOLEAN
  /\ exposed \in BOOLEAN
  /\ faults  \in Nat

Writes(p)    == pc[p] = "write"
NobodyWrites == \A p \in Fetcher : ~Writes(p)

(* Writers that empty and write the same file at the same time leave it    *)
(* without a hole when the last of them is done, whatever the order of     *)
(* their opens and writes, unless one of them was broken off.  It is then  *)
(* one of the bodies, unless the last open met a writer of another body:   *)
(* only answers that differ, and none that came before that open, can      *)
(* leave a mixture (cache.py:94-99, generate_video.py:71-76).              *)
SettledIsWhole ==
  NobodyWrites /\ ~cutOff /\ file # None =>
    /\ \A k \in Piece : file[k] # None
    /\ ~mixed => file \in Whole

(* Redis, whose value is set at once, holds part of a body or a mixture    *)
(* only after such a file was read and promoted: no other order of get,    *)
(* set and expiry gets one there (cache.py:72-78, 86-91, 101-107).         *)
RedisTornByPromotion == redis \in {None} \cup Whole \/ exposed

(* Threads run, statements return, and a Redis value expires. *)
Fairness == (\A p \in Fetcher : WF_vars(Step(p))) /\ WF_vars(Expire)

FairSpec == Spec /\ Fairness

(* A tile that no decoder takes does not stay, be it torn, mixed or an     *)
(* answer that was no image: if the decoder rejects it, any one fetcher    *)
(* that goes on fetching gets the file rewritten, although reading it      *)
(* promotes the bad copy to Redis, and Redis may answer for it until the   *)
(* value expires (cache.py:55-82, compositor.py:67-104).  Now and then     *)
(* nobody may be writing, and writers of different bodies may not meet for *)
(* ever: fetchers that keep opening the file under each other can leave it *)
(* torn or mixed for good.  Undecodable answers count as faults, so there  *)
(* are finitely many.                                                      *)
KeepsFetching(p) == []<>(pc[p] = "idle") /\ []<>(pc[p] # "idle")

Clash == \E p, q \in Fetcher : Writes(p) /\ Writes(q) /\ body[p] # body[q]

TornHeals ==
  ~Tolerant /\ []<>NobodyWrites /\ <>[]~Clash =>
    \A p \in Fetcher :
      KeepsFetching(p) => (file \notin {None} \cup Sound ~> file \in Sound)

(* cache.py:27-28, "Disk writes use atomic patterns (write-then-read)": a  *)
(* fetch is given whole tiles only.  The code does not do that; no run     *)
(* checks this statement.                                                  *)
HitsAreWhole == \A p \in Fetcher : val[p] \in {None} \cup Whole
=============================================================================
