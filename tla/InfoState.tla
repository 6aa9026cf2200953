----------------------------- MODULE InfoState -----------------------------
(***************************************************************************)
(* pm123/core/infostate.*: the lock-free state machine that decides which  *)
(* thread may load which kind of information about an object.              *)
(*                                                                         *)
(* A loader is a thread with an InfoState::Update object, What its member  *)
(* What.  A client requests or invalidates information.  Each access to    *)
(* one of the atomic bit vectors is one step, so a call with several of    *)
(* them is interleaved with all others; call[t] is the call t is in.  The  *)
(* vector Available is left out: nothing ever sets a bit of it.            *)
(***************************************************************************)
EXTENDS Naturals, FiniteSets

CONSTANTS
  Flags,      (* the kinds of information                                  *)
  Loaders,    (* threads that hold an Update                               *)
  Clients     (* threads that call Request, Invalidate and Cache           *)

ASSUME RolesAssumption == Loaders \cap Clients = {}

VARIABLES
  Valid, Confirmed,              (* reliability                            *)
  ReqLow, ReqHigh, InService,    (* request state                          *)
  What,                          (* What[l]: flags the Update of l holds   *)
  call,                          (* call[t]: where t is, with which flags  *)
  (* History variables, no step depends on them: *)
  lost,      (* lost[l]: flags of What[l] invalidated since l began them   *)
  torn,      (* flags invalidated in service and held ever since           *)
  owed,      (* flags requested and not confirmed since                    *)
  spoiled    (* flags invalidated while an EndUpdate was at them           *)

words   == <<Valid, Confirmed, ReqLow, ReqHigh, InService>>
history == <<lost, torn, owed, spoiled>>
vars    == <<words, What, call, history>>

Threads == Loaders \cup Clients

Labels == {"idle", "readlow", "readhigh", "begin", "confirm", "droplow",
           "drophigh", "request", "reset", "resetvalid", "resetconfirmed",
           "cache"}

Idle == [at |-> "idle", arg |-> {}]

At(t, label)          == call[t].at = label
Goto(t, label, flags) == call' = [call EXCEPT ![t] = [at |-> label, arg |-> flags]]
Return(t)             == call' = [call EXCEPT ![t] = Idle]

Requested == ReqLow \cup ReqHigh

(***************************************************************************)
(* Operators named ...Mutant are faulty variants of the operator that      *)
(* follows them.  No specification uses them: each shows that a property   *)
(* notices the fault.                                                      *)
(***************************************************************************)

(***************************************************************************)
(* Update: constructor or Reset, Extend, Commit, Rollback and destructor.  *)
(***************************************************************************)

\* GetRequest: normal priority looks at ReqHigh, low priority at both words,
\* in an order the compiler chooses.
GetRequest(l) ==
  /\ At(l, "idle")
  /\ What[l] = {}
  /\ \/ Goto(l, "begin", ReqHigh)
     \/ Goto(l, "readlow", ReqHigh)
     \/ Goto(l, "readhigh", ReqLow)
  /\ UNCHANGED <<words, What, history>>

GetRequestRest(l) ==
  /\ \/ At(l, "readlow")  /\ Goto(l, "begin", call[l].arg \cup ReqLow)
     \/ At(l, "readhigh") /\ Goto(l, "begin", call[l].arg \cup ReqHigh)
  /\ UNCHANGED <<words, What, history>>

\* The update is given what is in service already.
BeginMutant(l, flags) ==
  /\ InService' = InService \cup flags
  /\ What' = [What EXCEPT ![l] = @ \cup flags]
  /\ lost' = [lost EXCEPT ![l] = @ \ flags]
  /\ Return(l)
  /\ UNCHANGED <<Valid, Confirmed, ReqLow, ReqHigh, torn, owed, spoiled>>

\* BeginUpdate: the flags that were not in service are the caller's.
Begin(l, flags) ==
  LET got == flags \ InService
  IN  /\ InService' = InService \cup got
      /\ What' = [What EXCEPT ![l] = @ \cup got]
      /\ lost' = [lost EXCEPT ![l] = @ \ got]
      /\ Return(l)
      /\ UNCHANGED <<Valid, Confirmed, ReqLow, ReqHigh, torn, owed, spoiled>>

BeginUpdate(l) == At(l, "begin") /\ Begin(l, call[l].arg)

\* Extend asks for flags whether or not they are requested.
Extend(l, flags) == At(l, "idle") /\ Begin(l, flags)

\* The flags are given up without being taken out of service.
ReleaseMutant(l, flags) ==
  /\ What' = [What EXCEPT ![l] = @ \ flags]
  /\ lost' = [lost EXCEPT ![l] = @ \ flags]
  /\ torn' = {f \in torn : f \notin flags \/ \E k \in Loaders \ {l} : f \in What[k]}
  /\ UNCHANGED InService

\* Flags leave the Update of l, by Commit or Rollback.
Release(l, flags) ==
  /\ InService' = InService \ flags
  /\ What' = [What EXCEPT ![l] = @ \ flags]
  /\ lost' = [lost EXCEPT ![l] = @ \ flags]
  /\ torn' = {f \in torn : f \notin flags \/ \E k \in Loaders \ {l} : f \in What[k]}

\* EndUpdate goes on though it took nothing out of service.
CommitMutant(l, flags) ==
  /\ At(l, "idle")
  /\ flags # {} /\ flags \subseteq What[l]
  /\ Release(l, flags)
  /\ Goto(l, "confirm", flags \cap InService)
  /\ UNCHANGED <<Valid, Confirmed, ReqLow, ReqHigh, owed, spoiled>>

\* Commit calls EndUpdate, which takes the flags out of service and goes on
\* with those that still were in it.
Commit(l, flags) ==
  /\ At(l, "idle")
  /\ flags # {} /\ flags \subseteq What[l]
  /\ Release(l, flags)
  /\ LET ret == flags \cap InService
     IN  IF ret = {} THEN UNCHANGED call ELSE Goto(l, "confirm", ret)
  /\ UNCHANGED <<Valid, Confirmed, ReqLow, ReqHigh, owed, spoiled>>

EndUpdateConfirm(l) ==
  /\ At(l, "confirm")
  /\ Confirmed' = Confirmed \cup call[l].arg
  /\ Goto(l, "droplow", call[l].arg)
  /\ owed' = owed \ call[l].arg
  /\ spoiled' = spoiled \ call[l].arg
  /\ UNCHANGED <<Valid, ReqLow, ReqHigh, InService, What, lost, torn>>

EndUpdateDropLow(l) ==
  /\ At(l, "droplow")
  /\ ReqLow' = ReqLow \ call[l].arg
  /\ Goto(l, "drophigh", call[l].arg)
  /\ UNCHANGED <<Valid, Confirmed, ReqHigh, InService, What, history>>

EndUpdateDropHigh(l) ==
  /\ At(l, "drophigh")
  /\ ReqHigh' = ReqHigh \ call[l].arg
  /\ Return(l)
  /\ UNCHANGED <<Valid, Confirmed, ReqLow, InService, What, history>>

\* CancelUpdate revokes the request as well.
RollbackMutant(l, flags) ==
  /\ At(l, "idle")
  /\ flags # {} /\ flags \subseteq What[l]
  /\ Release(l, flags)
  /\ ReqLow' = ReqLow \ flags
  /\ ReqHigh' = ReqHigh \ flags
  /\ UNCHANGED <<Valid, Confirmed, call, owed, spoiled>>

\* Rollback, and the destructor: CancelUpdate leaves the request standing.
Rollback(l, flags) ==
  /\ At(l, "idle")
  /\ flags # {} /\ flags \subseteq What[l]
  /\ Release(l, flags)
  /\ UNCHANGED <<Valid, Confirmed, ReqLow, ReqHigh, call, owed, spoiled>>

(***************************************************************************)
(* Request.                                                                *)
(***************************************************************************)

\* Flags that some EndUpdate has confirmed and will drop the request of.
Dropping == {f \in Flags : \E l \in Loaders :
               call[l].at \in {"droplow", "drophigh"} /\ f \in call[l].arg}

\* From here on the flags are owed to a client.
Owe(flags) ==
  /\ owed' = owed \cup (flags \ Confirmed)
  /\ spoiled' = spoiled \ (flags \ Dropping)

RequestHigh(c, flags) ==
  /\ At(c, "idle")
  /\ ReqHigh' = ReqHigh \cup flags
  /\ Owe(flags)
  /\ UNCHANGED <<Valid, Confirmed, ReqLow, InService, What, call, lost, torn>>

\* At low priority a request at high priority counts as well; that is looked
\* at before the rest is set.
RequestLow(c, flags) ==
  /\ At(c, "idle")
  /\ Owe(flags \cap ReqHigh)
  /\ Goto(c, "request", flags \ ReqHigh)
  /\ UNCHANGED <<words, What, lost, torn>>

RequestLowSet(c) ==
  /\ At(c, "request")
  /\ ReqLow' = ReqLow \cup call[c].arg
  /\ Owe(call[c].arg)
  /\ Return(c)
  /\ UNCHANGED <<Valid, Confirmed, ReqHigh, InService, What, lost, torn>>

(***************************************************************************)
(* Invalidate: out of service first, then Valid and Confirmed in an order  *)
(* the compiler chooses.                                                   *)
(***************************************************************************)

Invalidate(c, flags) ==
  /\ At(c, "idle")
  /\ InService' = InService \ flags
  /\ lost' = [l \in Loaders |-> lost[l] \cup (flags \cap What[l])]
  /\ torn' = torn \cup {f \in flags : \E l \in Loaders : f \in What[l]}
  /\ Goto(c, "reset", flags)
  /\ UNCHANGED <<Valid, Confirmed, ReqLow, ReqHigh, What, owed, spoiled>>

ResetValid(c) ==
  /\ Valid' = Valid \ call[c].arg
  /\ UNCHANGED <<Confirmed, ReqLow, ReqHigh, InService, What, history>>

ResetConfirmed(c) ==
  /\ Confirmed' = Confirmed \ call[c].arg
  /\ spoiled' = spoiled \cup (call[c].arg \cap Dropping)
  /\ UNCHANGED <<Valid, ReqLow, ReqHigh, InService, What, lost, torn, owed>>

InvalidateReset(c) ==
  \/ At(c, "reset")          /\ ResetValid(c)     /\ Goto(c, "resetconfirmed", call[c].arg)
  \/ At(c, "reset")          /\ ResetConfirmed(c) /\ Goto(c, "resetvalid", call[c].arg)
  \/ At(c, "resetvalid")     /\ ResetValid(c)     /\ Return(c)
  \/ At(c, "resetconfirmed") /\ ResetConfirmed(c) /\ Return(c)

(***************************************************************************)
(* Cache marks information as cached that is not confirmed yet.            *)
(***************************************************************************)

Cache(c, flags) ==
  /\ At(c, "idle")
  /\ Goto(c, "cache", flags \ Confirmed)
  /\ UNCHANGED <<words, What, history>>

CacheSet(c) ==
  /\ At(c, "cache")
  /\ Valid' = Valid \cup call[c].arg
  /\ Return(c)
  /\ UNCHANGED <<Confirmed, ReqLow, ReqHigh, InService, What, history>>

(***************************************************************************)
(* Specification.                                                          *)
(***************************************************************************)

Init ==
  /\ Valid = {} /\ Confirmed = {}
  /\ ReqLow = {} /\ ReqHigh = {} /\ InService = {}
  /\ What = [l \in Loaders |-> {}]
  /\ call = [t \in Threads |-> Idle]
  /\ lost = [l \in Loaders |-> {}]
  /\ torn = {} /\ owed = {} /\ spoiled = {}

Load(l) ==
  \/ GetRequest(l)
  \/ GetRequestRest(l)
  \/ BeginUpdate(l)
  \/ \E flags \in (SUBSET Flags) \ {{}} :
       Extend(l, flags) \/ Commit(l, flags) \/ Rollback(l, flags)
  \/ EndUpdateConfirm(l)
  \/ EndUpdateDropLow(l)
  \/ EndUpdateDropHigh(l)

Use(c) ==
  \/ \E flags \in (SUBSET Flags) \ {{}} :
       \/ RequestHigh(c, flags)
       \/ RequestLow(c, flags)
       \/ Invalidate(c, flags)
       \/ Cache(c, flags)
  \/ RequestLowSet(c)
  \/ InvalidateReset(c)
  \/ CacheSet(c)

Next == (\E l \in Loaders : Load(l)) \/ (\E c \in Clients : Use(c))

Spec == Init /\ [][Next]_vars

(***************************************************************************)
(* Properties.                                                             *)
(***************************************************************************)

\* EndUpdate goes on only with something to confirm.
TypeOK ==
  /\ Valid \in SUBSET Flags /\ Confirmed \in SUBSET Flags
  /\ ReqLow \in SUBSET Flags /\ ReqHigh \in SUBSET Flags
  /\ InService \in SUBSET Flags
  /\ What \in [Loaders -> SUBSET Flags]
  /\ call \in [Threads -> [at : Labels, arg : SUBSET Flags]]
  /\ lost \in [Loaders -> SUBSET Flags]
  /\ \A l \in Loaders : At(l, "confirm") => call[l].arg # {}
  /\ torn \in SUBSET Flags /\ owed \in SUBSET Flags /\ spoiled \in SUBSET Flags

\* A flag in service is backed by a loader that began it after the last time it
\* was invalidated.  So nothing stays in service for good when its loader is
\* gone, and with one loader only EndUpdate tells whether it was invalidated.
Backed == \A f \in InService : \E l \in Loaders : f \in What[l] \ lost[l]

\* BeginUpdate gives a flag to one loader at a time, as long as no Invalidate
\* takes it away from a loader that is still at it.
Exclusive ==
  \A f \in Flags \ torn : \A k, l \in Loaders :
    f \in What[k] /\ f \in What[l] => k = l

\* What was requested and is not confirmed yet stays requested, whatever is
\* committed or cancelled meanwhile, unless an Invalidate comes between the two
\* halves of an EndUpdate.
RequestKept == owed \ spoiled \subseteq Requested
=============================================================================
