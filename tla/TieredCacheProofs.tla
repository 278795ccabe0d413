-------------------------- MODULE TieredCacheProofs --------------------------
(***************************************************************************)
(* TypeOK, SettledIsWhole and RedisTornByPromotion of TieredCache hold for *)
(* every number of fetchers and of pieces and for any set of bodies the    *)
(* server may answer with, decodable or not.                               *)
(***************************************************************************)
EXTENDS TieredCache, TLAPS

(* A piece the file lacks is still to be written by someone who opened it, *)
(* unless a write was broken off since the file was last opened.           *)
Promised(k) == file[k] # None \/ \E p \in Fetcher : Writes(p) /\ k \in Left(p)

BeingMadeWhole == cutOff \/ file = None \/ \A k \in Piece : Promised(k)

(* What is in the file and what its writers will add to it is one body,    *)
(* unless the last open met a writer of another one.                       *)
Holds(b) == /\ \A p \in Fetcher : Writes(p) => body[p] = b
            /\ \A k \in Piece : file[k] \in {None, b}

OfOneBody == mixed \/ file = None \/ \E b \in Body : Holds(b)

Fresh == \A p \in Fetcher : ~Writes(p) => done[p] = {}

Opened == \A p \in Fetcher : Writes(p) => file # None

Carries == \A p \in Fetcher : pc[p] \in {"setRedis", "open", "write"} => body[p] \in Body

(* A fetcher outside of its requests has made none. *)
NotTried == \A p \in Fetcher : pc[p] \in {"idle", "l1", "l2", "backfill", "decode"} => try[p] = 0

IInv == TypeOK /\ NotTried /\ Fresh /\ Opened /\ Carries /\ BeingMadeWhole /\ OfOneBody

(* What a fetcher was given is torn or mixed only if such a file was read. *)
TornIsExposed ==
  \/ exposed
  \/ /\ redis \in {None} \cup Whole
     /\ \A p \in Fetcher : val[p] \in {None} \cup Whole

-----------------------------------------------------------------------------
(* Copies *)

LEMMA Copies ==
  /\ Empty \in Copy /\ Empty # None /\ Whole \subseteq Copy
  /\ \A c \in Copy \ {None} : c \in [Piece -> Body \cup {None}]
  /\ None \notin Body
<1>1. Empty \in [Piece -> Body \cup {None}] /\ Whole \subseteq [Piece -> Body \cup {None}]
  BY DEF Empty, WholeOf, Whole
<1> QED
  BY <1>1, NoneAssumption DEF Copy

(* A file with no hole in it and no piece that is not of b is b. *)
LEMMA WholeFile ==
  ASSUME NEW c \in [Piece -> Body \cup {None}], NEW b \in Body,
         \A k \in Piece : c[k] # None /\ c[k] \in {None, b}
  PROVE  c \in Whole
<1>1. c = [k \in Piece |-> b]
  OBVIOUS
<1> QED
  BY <1>1 DEF Whole, WholeOf

-----------------------------------------------------------------------------
(* The invariant holds at the start. *)
LEMMA InitIInv == Init => IInv /\ TornIsExposed
<1> SUFFICES ASSUME Init PROVE IInv /\ TornIsExposed
  OBVIOUS
<1> USE DEF Init
<1>1. TypeOK
  <2>1. cutOff \in BOOLEAN /\ mixed \in BOOLEAN /\ exposed \in BOOLEAN
    OBVIOUS
  <2>2. /\ pc \in [Fetcher -> PC] /\ val \in [Fetcher -> Copy]
        /\ body \in [Fetcher -> Body \cup {None}]
        /\ try \in [Fetcher -> 0..3] /\ done \in [Fetcher -> SUBSET Piece]
    BY DEF PC, Copy
  <2> QED
    BY <2>1, <2>2 DEF TypeOK, Copy
<1>2. NotTried /\ Fresh /\ Opened /\ Carries
  BY DEF NotTried, Fresh, Opened, Carries, Writes
<1>3. BeingMadeWhole /\ OfOneBody
  BY DEF BeingMadeWhole, OfOneBody
<1>4. TornIsExposed
  BY DEF TornIsExposed
<1> QED
  BY <1>1, <1>2, <1>3, <1>4 DEF IInv

-----------------------------------------------------------------------------
(* Types *)

(* The fetcher lets go of what it held, for good or for another attempt.   *)
LetsGo(p) == Return(p) \/ (try[p] < 3 /\ Attempt(p))

LEMMA LettingGo ==
  ASSUME TypeOK, NEW p \in Fetcher, LetsGo(p)
  PROVE  /\ pc' \in [Fetcher -> PC] /\ val' \in [Fetcher -> Copy]
         /\ body' \in [Fetcher -> Body \cup {None}]
         /\ try' \in [Fetcher -> 0..3] /\ done' \in [Fetcher -> SUBSET Piece]
         /\ pc'[p] \in {"idle", "network"} /\ done'[p] = {}
         /\ val'[p] = None
         /\ \A q \in Fetcher \ {p} : /\ pc'[q] = pc[q] /\ done'[q] = done[q]
                                     /\ body'[q] = body[q] /\ val'[q] = val[q]
<1> USE DEF TypeOK, LetsGo, Return, Attempt, Goto
<1>1. pc' \in [Fetcher -> PC] /\ pc'[p] \in {"idle", "network"}
  BY DEF PC
<1>2. val' \in [Fetcher -> Copy] /\ body' \in [Fetcher -> Body \cup {None}]
  BY DEF Copy
<1>3. try' \in [Fetcher -> 0..3]
  OBVIOUS
<1>4. done' \in [Fetcher -> SUBSET Piece]
  OBVIOUS
<1> QED
  BY <1>1, <1>2, <1>3, <1>4

LEMMA RetryLetsGo ==
  ASSUME NEW p \in Fetcher, Retry(p) \/ DecodeBody(p)
  PROVE  LetsGo(p)
BY DEF Retry, DecodeBody, LetsGo

LEMMA NextNotTried == TypeOK /\ NotTried /\ [Next]_vars => NotTried'
<1> SUFFICES ASSUME TypeOK, NotTried, [Next]_vars PROVE NotTried'
  OBVIOUS
<1> USE DEF TypeOK, NotTried, Goto
<1>1. ASSUME NEW p \in Fetcher, Return(p) \/ Attempt(p)
      PROVE  NotTried'
  BY <1>1 DEF Return, Attempt
<1>2. ASSUME NEW p \in Fetcher, Fetch(p) \/ Step(p) \/ Kill(p), ~Return(p), ~Attempt(p)
      PROVE  NotTried'
  BY <1>2 DEF Fetch, Step, Kill, Get, Decode, Request, Set, RedisHit, RedisMiss, FileHit,
    FileMiss, Backfill, DecodeOk, DecodeFails, RequestOk, RequestFails, NotAnImage, SetRedis,
    OpenFile, Write, CloseFile, WriteFails, Retry, DecodeBody
<1>3. CASE Expire \/ UNCHANGED vars
  BY <1>3 DEF Expire, vars
<1> QED
  BY <1>1, <1>2, <1>3 DEF Next

(* The steps that let go are these, and nothing else changes but faults,   *)
(* and cutOff where a write is broken off.                                 *)
LetGoStep(p) ==
  \/ FileMiss(p) \/ DecodeOk(p) \/ DecodeFails(p) \/ RequestFails(p) \/ NotAnImage(p)
  \/ CloseFile(p) \/ WriteFails(p) \/ Kill(p)

LEMMA LetGoSteps ==
  ASSUME IInv, NEW p \in Fetcher, LetGoStep(p)
  PROVE  /\ LetsGo(p)
         /\ UNCHANGED <<file, redis, mixed, exposed>>
         /\ faults' \in Nat
         /\ cutOff' = cutOff \/ (cutOff' /\ Writes(p))
<1>0. faults \in Nat /\ cutOff \in BOOLEAN
  BY DEF IInv, TypeOK
<1> USE DEF history, Fault, NoFault, Writes
<1>1. CASE FileMiss(p) \/ DecodeFails(p)
  <2>1. try[p] < 3
    BY <1>1 DEF FileMiss, DecodeFails, NotTried, IInv
  <2> QED
    BY <1>0, <1>1, <2>1 DEF FileMiss, DecodeFails, LetsGo
<1>2. CASE DecodeOk(p) \/ NotAnImage(p)
  BY <1>0, <1>2 DEF DecodeOk, NotAnImage, LetsGo
<1>3. CASE RequestFails(p) \/ CloseFile(p)
  BY <1>0, <1>3, RetryLetsGo DEF RequestFails, CloseFile
<1>4. CASE WriteFails(p) \/ Kill(p)
  <2>1. LetsGo(p)
    BY <1>4, RetryLetsGo DEF WriteFails, Kill, LetsGo
  <2>2. UNCHANGED <<file, redis, mixed, exposed>> /\ faults' = faults + 1
        /\ cutOff' = (cutOff \/ pc[p] = "write")
    BY <1>4 DEF WriteFails, Kill
  <2>3. cutOff' = cutOff \/ (cutOff' /\ Writes(p))
    BY <1>0, <2>2
  <2>4. faults' \in Nat
    BY <1>0, <2>2
  <2> QED
    BY <2>1, <2>2, <2>3, <2>4
<1> QED
  BY <1>1, <1>2, <1>3, <1>4 DEF LetGoStep

LEMMA LetGoTypes ==
  ASSUME IInv, NEW p \in Fetcher, LetGoStep(p)
  PROVE  TypeOK'
<1>1. /\ LetsGo(p) /\ UNCHANGED <<file, redis, mixed, exposed>> /\ faults' \in Nat
      /\ cutOff' \in BOOLEAN
  BY LetGoSteps DEF IInv, TypeOK
<1> QED
  BY <1>1, LettingGo DEF IInv, TypeOK

(* The other steps of a fetcher. *)
LEMMA OnwardTypes ==
  ASSUME IInv, NEW p \in Fetcher,
         \/ Fetch(p) \/ RedisHit(p) \/ RedisMiss(p) \/ FileHit(p) \/ Backfill(p)
         \/ RequestOk(p) \/ SetRedis(p) \/ OpenFile(p) \/ Write(p)
  PROVE  TypeOK'
<1> USE BoundAssumption DEF IInv, TypeOK, PC, Goto, Fault, NoFault, history
<1>1. CASE Fetch(p)
  BY <1>1 DEF Fetch
<1>2. CASE RedisHit(p)
  BY <1>2 DEF RedisHit
<1>3. CASE RedisMiss(p)
  BY <1>3 DEF RedisMiss
<1>4. CASE FileHit(p)
  <2>1. exposed' \in BOOLEAN
    BY <1>4 DEF FileHit
  <2> QED
    BY <1>4, <2>1 DEF FileHit
<1>5. CASE Backfill(p)
  BY <1>5 DEF Backfill
<1>6. CASE RequestOk(p)
  BY <1>6 DEF RequestOk
<1>7. CASE SetRedis(p)
  <2>1. WholeOf(body[p]) \in Copy
    BY <1>7, Copies DEF SetRedis, Carries, Whole
  <2> QED
    BY <1>7, <2>1 DEF SetRedis
<1>8. CASE OpenFile(p)
  <2>1. file' \in Copy
    BY <1>8, Copies DEF OpenFile
  <2>2. mixed' \in BOOLEAN /\ cutOff' \in BOOLEAN
    BY <1>8 DEF OpenFile
  <2> QED
    BY <1>8, <2>1, <2>2 DEF OpenFile
<1>9. CASE Write(p)
  <2>1. PICK k \in Left(p) : /\ file' = [file EXCEPT ![k] = body[p]]
                            /\ done' = [done EXCEPT ![p] = @ \cup {k}]
    BY <1>9 DEF Write
  <2>2. file \in [Piece -> Body \cup {None}] /\ body[p] \in Body
    BY <1>9, Copies DEF Write, Opened, Writes, Carries
  <2>3. file' \in Copy
    BY <2>1, <2>2 DEF Copy
  <2>4. done' \in [Fetcher -> SUBSET Piece]
    BY <2>1 DEF Left
  <2> QED
    BY <1>9, <2>3, <2>4 DEF Write
<1> QED
  BY <1>1, <1>2, <1>3, <1>4, <1>5, <1>6, <1>7, <1>8, <1>9

-----------------------------------------------------------------------------
(* Who writes what                                                         *)

(* Steps that leave the file alone, of a fetcher that does not write after *)
(* it: it did not write before, or has written all it had.                 *)
LEMMA Bystander ==
  ASSUME IInv, TypeOK', NotTried', UNCHANGED <<file, mixed>>,
         NEW p \in Fetcher, ~Writes(p)', done'[p] = {},
         pc'[p] \in {"setRedis", "open"} => body'[p] \in Body,
         cutOff' \/ (cutOff' = cutOff /\ (Writes(p) => Left(p) = {})),
         \A q \in Fetcher \ {p} : pc'[q] = pc[q] /\ done'[q] = done[q] /\ body'[q] = body[q]
  PROVE  IInv'
<1> USE DEF Writes
<1>1. Fresh' /\ Opened' /\ Carries'
  BY DEF IInv, Fresh, Opened, Carries
<1>2. ASSUME NEW k \in Piece, Promised(k), ~cutOff' PROVE Promised(k)'
  BY <1>2 DEF Promised, Left
<1>3. BeingMadeWhole'
  BY <1>2 DEF IInv, BeingMadeWhole, Piece
<1>4. ASSUME NEW b \in Body, Holds(b) PROVE Holds(b)'
  BY <1>4 DEF Holds, Piece
<1>5. OfOneBody'
  BY <1>4 DEF IInv, OfOneBody
<1> QED
  BY <1>1, <1>3, <1>5 DEF IInv

LEMMA LetGoKeeps ==
  ASSUME IInv, NotTried', NEW p \in Fetcher, LetGoStep(p)
  PROVE  IInv'
<1>1. TypeOK' /\ LetsGo(p) /\ UNCHANGED <<file, mixed>>
  BY LetGoSteps, LetGoTypes
<1>2. /\ pc'[p] \in {"idle", "network"} /\ done'[p] = {}
      /\ \A q \in Fetcher \ {p} : /\ pc'[q] = pc[q] /\ done'[q] = done[q]
                                  /\ body'[q] = body[q]
  BY <1>1, LettingGo DEF IInv
<1>3. cutOff' \/ (cutOff' = cutOff /\ (Writes(p) => Left(p) = {}))
  <2>1. CASE CloseFile(p)
    BY <2>1 DEF CloseFile, history
  <2>2. CASE WriteFails(p) \/ Kill(p)
    BY <2>2 DEF WriteFails, Kill, Writes, IInv, TypeOK
  <2>3. CASE ~CloseFile(p) /\ ~WriteFails(p) /\ ~Kill(p)
    BY <2>3 DEF LetGoStep, FileMiss, DecodeOk, DecodeFails, RequestFails, NotAnImage, history,
      Writes
  <2> QED
    BY <2>1, <2>2, <2>3
<1> QED
  BY <1>1, <1>2, <1>3, Bystander DEF Writes

LEMMA OpenKeeps ==
  ASSUME IInv, TypeOK', NotTried', NEW p \in Fetcher, OpenFile(p)
  PROVE  IInv'
<1>1. /\ Writes(p)' /\ file' = Empty /\ done' = done /\ body' = body /\ body[p] \in Body
      /\ \A q \in Fetcher \ {p} : pc'[q] = pc[q]
      /\ done[p] = {}
  BY DEF OpenFile, Goto, IInv, TypeOK, Fresh, Carries, Writes
<1>2. Fresh' /\ Opened' /\ Carries'
  BY <1>1, Copies DEF IInv, Fresh, Opened, Carries, Writes
<1>3. \A k \in Piece : Promised(k)'
  BY <1>1 DEF Promised, Left, Piece
<1>4. ~mixed' => Holds(body[p])'
  <2> SUFFICES ASSUME ~mixed' PROVE Holds(body[p])'
    OBVIOUS
  <2>1. \A q \in Fetcher : Writes(q)' => body'[q] = body[p]
    BY <1>1 DEF OpenFile, Writes
  <2>2. \A k \in Piece : file'[k] \in {None, body[p]}
    BY <1>1 DEF Empty, WholeOf
  <2> QED
    BY <1>1, <2>1, <2>2 DEF Holds, Piece
<1>5. OfOneBody'
  BY <1>1, <1>4 DEF OfOneBody
<1> QED
  BY <1>2, <1>3, <1>5 DEF IInv, BeingMadeWhole, Piece

LEMMA WriteKeeps ==
  ASSUME IInv, TypeOK', NotTried', NEW p \in Fetcher, Write(p)
  PROVE  IInv'
<1>1. PICK k \in Left(p) : /\ file' = [file EXCEPT ![k] = body[p]]
                          /\ done' = [done EXCEPT ![p] = @ \cup {k}]
  BY DEF Write
<1>2. /\ Writes(p) /\ UNCHANGED <<pc, body, cutOff, mixed>> /\ k \in Piece
      /\ body[p] \in Body /\ body[p] # None
      /\ file \in [Piece -> Body \cup {None}]
  BY Copies DEF Write, IInv, TypeOK, Opened, Carries, Writes, Left, history
<1>3. file' \in [Piece -> Body \cup {None}] /\ file' # None /\ file # None
  <2>1. file' \in [Piece -> Body \cup {None}]
    BY <1>1, <1>2
  <2> QED
    BY <1>2, <2>1, NoneAssumption
<1>4. Fresh' /\ Opened' /\ Carries'
  BY <1>1, <1>2, <1>3 DEF IInv, Fresh, Opened, Carries, TypeOK, Writes
<1>5. ASSUME NEW m \in Piece, Promised(m) PROVE Promised(m)'
  <2>1. CASE file'[m] # None
    BY <2>1 DEF Promised
  <2>2. CASE file'[m] = None
    <3>1. m # k /\ file[m] = None
      BY <1>1, <1>2, <1>5, <2>2
    <3>2. PICK q \in Fetcher : Writes(q) /\ m \in Left(q)
      BY <1>5, <3>1 DEF Promised
    <3>3. m \notin done'[q]
      BY <1>1, <3>1, <3>2 DEF Left, IInv, TypeOK
    <3> QED
      BY <1>2, <3>2, <3>3 DEF Promised, Left, Writes, Piece
  <2> QED
    BY <2>1, <2>2
<1>6. BeingMadeWhole'
  BY <1>2, <1>3, <1>5 DEF IInv, BeingMadeWhole, Piece
<1>7. ASSUME NEW b \in Body, Holds(b) PROVE Holds(b)'
  BY <1>1, <1>2, <1>7 DEF Holds, Writes, Piece
<1>8. OfOneBody'
  BY <1>2, <1>3, <1>7 DEF IInv, OfOneBody
<1> QED
  BY <1>4, <1>6, <1>8 DEF IInv

(* The steps before the file is opened. *)
LEMMA BeforeOpenKeeps ==
  ASSUME IInv, TypeOK', NotTried', NEW p \in Fetcher,
         \/ Fetch(p) \/ RedisHit(p) \/ RedisMiss(p) \/ FileHit(p) \/ Backfill(p)
         \/ RequestOk(p) \/ SetRedis(p)
  PROVE  IInv'
<1> USE DEF Fetch, RedisHit, RedisMiss, FileHit, Backfill, RequestOk, SetRedis, Goto, history
<1>1. ~Writes(p) /\ UNCHANGED <<file, mixed, cutOff, done>> /\ done[p] = {}
  BY DEF Writes, IInv, Fresh
<1>2. /\ pc' \in [Fetcher -> PC] /\ \A q \in Fetcher \ {p} : pc'[q] = pc[q]
      /\ pc'[p] # "write"
  BY DEF IInv, TypeOK
<1>3. CASE RequestOk(p)
  <2>1. body'[p] \in Body /\ \A q \in Fetcher \ {p} : body'[q] = body[q]
    BY <1>3 DEF IInv, TypeOK
  <2> QED
    BY <1>1, <1>2, <2>1, Bystander DEF Writes
<1>4. CASE ~RequestOk(p)
  <2>1. body' = body /\ (pc'[p] \in {"setRedis", "open"} => body[p] \in Body)
    BY <1>4 DEF IInv, TypeOK, Carries
  <2> QED
    BY <1>1, <1>2, <2>1, Bystander DEF Writes
<1> QED
  BY <1>3, <1>4

LEMMA NextIInv == IInv /\ [Next]_vars => IInv'
<1> SUFFICES ASSUME IInv, [Next]_vars PROVE IInv'
  OBVIOUS
<1>0. NotTried'
  BY NextNotTried DEF IInv
<1>1. ASSUME NEW p \in Fetcher, LetGoStep(p) PROVE IInv'
  BY <1>0, <1>1, LetGoKeeps
<1>2. ASSUME NEW p \in Fetcher, OpenFile(p) \/ Write(p) PROVE IInv'
  BY <1>0, <1>2, OnwardTypes, OpenKeeps, WriteKeeps
<1>3. ASSUME NEW p \in Fetcher,
             \/ Fetch(p) \/ RedisHit(p) \/ RedisMiss(p) \/ FileHit(p) \/ Backfill(p)
             \/ RequestOk(p) \/ SetRedis(p)
      PROVE  IInv'
  BY <1>0, <1>3, OnwardTypes, BeforeOpenKeeps
<1>4. CASE Expire \/ UNCHANGED vars
  <2>1. UNCHANGED <<file, pc, val, body, try, done, cutOff, mixed, exposed, faults>>
        /\ redis' \in Copy
    BY <1>4 DEF Expire, vars, history, IInv, TypeOK, Copy
  <2>2. TypeOK'
    BY <2>1 DEF IInv, TypeOK
  <2> QED
    BY <1>0, <2>1, <2>2 DEF IInv, Fresh, Opened, Carries, BeingMadeWhole, OfOneBody, Promised,
      Holds, Writes, Left, Piece
<1> QED
  BY <1>1, <1>2, <1>3, <1>4 DEF Next, Step, Get, Decode, Request, Set, LetGoStep

LEMMA NextTornIsExposed == IInv /\ TornIsExposed /\ [Next]_vars => TornIsExposed'
<1> SUFFICES ASSUME IInv, TornIsExposed, [Next]_vars, ~exposed' PROVE TornIsExposed'
  BY DEF TornIsExposed
<1> USE DEF Goto, history
<1>1. ASSUME NEW p \in Fetcher, LetGoStep(p)
      PROVE  TornIsExposed'
  BY <1>1, LetGoSteps, LettingGo DEF TornIsExposed, IInv
<1>2. ASSUME NEW p \in Fetcher,
             Fetch(p) \/ RedisMiss(p) \/ RequestOk(p) \/ OpenFile(p) \/ Write(p)
      PROVE  TornIsExposed'
  BY <1>2 DEF Fetch, RedisMiss, RequestOk, OpenFile, Write, TornIsExposed
<1>3. ASSUME NEW p \in Fetcher, RedisHit(p) \/ Backfill(p)
      PROVE  TornIsExposed'
  BY <1>3 DEF RedisHit, Backfill, TornIsExposed, IInv, TypeOK
<1>4. ASSUME NEW p \in Fetcher, FileHit(p)
      PROVE  TornIsExposed'
  BY <1>4 DEF FileHit, TornIsExposed, IInv, TypeOK
<1>5. ASSUME NEW p \in Fetcher, SetRedis(p)
      PROVE  TornIsExposed'
  <2>1. WholeOf(body[p]) \in Whole
    BY <1>5 DEF SetRedis, IInv, Carries, Whole
  <2> QED
    BY <1>5, <2>1 DEF SetRedis, TornIsExposed
<1>6. CASE Expire \/ UNCHANGED vars
  BY <1>6 DEF Expire, vars, TornIsExposed
<1> QED
  BY <1>1, <1>2, <1>3, <1>4, <1>5, <1>6 DEF Next, Step, Get, Decode, Request, Set, LetGoStep

-----------------------------------------------------------------------------
LEMMA Invariance == Spec => [](IInv /\ TornIsExposed)
<1>1. IInv /\ TornIsExposed /\ [Next]_vars => (IInv /\ TornIsExposed)'
  BY NextIInv, NextTornIsExposed
<1> QED
  BY InitIInv, <1>1, PTL DEF Spec

(* Every variable of the cache model keeps its type, and no fetch makes a  *)
(* fourth attempt.                                                         *)
THEOREM TypesHold == Spec => []TypeOK
<1>1. IInv => TypeOK
  BY DEF IInv
<1> QED
  BY <1>1, Invariance, PTL

(* However many fetchers empty and write the tile's file at once, and      *)
(* whatever they were answered, it has no hole when none of them is at it  *)
(* any more, unless a write was broken off, and is one of the answers      *)
(* unless the last open met a writer of another one (cache.py:94-99).      *)
THEOREM FileSettlesWhole == Spec => []SettledIsWhole
<1>1. IInv => SettledIsWhole
  <2> SUFFICES ASSUME IInv, NobodyWrites, ~cutOff, file # None
               PROVE  /\ \A k \in Piece : file[k] # None
                      /\ ~mixed => file \in Whole
    BY DEF SettledIsWhole
  <2>1. \A k \in Piece : file[k] # None
    BY DEF IInv, BeingMadeWhole, Promised, NobodyWrites
  <2>2. file \in [Piece -> Body \cup {None}]
    BY Copies DEF IInv, TypeOK
  <2>3. ASSUME ~mixed PROVE file \in Whole
    <3>1. PICK b \in Body : Holds(b)
      BY <2>3 DEF IInv, OfOneBody
    <3> QED
      BY <2>1, <2>2, <3>1, WholeFile DEF Holds
  <2> QED
    BY <2>1, <2>3
<1> QED
  BY <1>1, Invariance, PTL

(* Redis holds part of a body or a mixture only after such a file was read *)
(* (cache.py:72-78, 101-107).                                              *)
THEOREM RedisIsTornByPromotion == Spec => []RedisTornByPromotion
<1>1. TornIsExposed => RedisTornByPromotion
  BY DEF TornIsExposed, RedisTornByPromotion
<1> QED
  BY <1>1, Invariance, PTL
=============================================================================
