----------------------------- MODULE CoreProofs ------------------------------
(***************************************************************************)
(* Machine-checked proofs about Core, for any number of application        *)
(* threads, inits, sessions and captures.                                  *)
(*                                                                         *)
(* The argument: the count of every options is one per thread that holds   *)
(* it and one for g_options (CountInv); a thread holds one at known places *)
(* only, and the options of the init under way are in nobody's hands       *)
(* before it publishes them (PlaceInv).  A session is in one options or in *)
(* the hands of one thread that took it out, never in two places, and its  *)
(* terminal update is sent by whoever takes it from there (SessionInv): so *)
(* it ends once, with the errors counted until then.  The watchdog lives   *)
(* only between the end of an init and the join of the next close or init  *)
(* (DogInv), so that none of it is left when the options go.               *)
(***************************************************************************)
EXTENDS Core, FiniteSetTheorems, TLAPS

(***************************************************************************)
(* The inductive invariant, part by part.                                  *)
(***************************************************************************)
Capturing == {"prepare", "look", "add", "release"}
Holding == Capturing \cup {"releaseStart", "releaseEnd", "telemetry"}
Ending == {"sendStart", "sendEnd"}
AppPlaces == {"idle", "releaseStart", "releaseEnd", "new"} \cup Capturing \cup Ending
DogPlaces == {"gone", "loop"} \cup Capturing
Opening == {"initStop", "initJoin", "initLock"}
OwnerPlaces == {"idle", "close", "telemetry", "stop", "join", "lock", "shutdown", "null",
                "closed", "startup", "finish"} \cup Opening
Session == [errors : Nat, init : BOOLEAN, first : Nat, later : Nat, final : Nat,
            reported : Nat]

TypeInv ==
  /\ lock \in {"free", Owner}
  /\ inits \in 0 .. MaxInits /\ captures \in 0 .. MaxCaptures
  /\ options \in 0 .. inits
  /\ refs \in [Gens -> Int]
  /\ sessions \in Seq(Session)
  /\ session \in [Gens -> 0 .. Len(sessions)]
  /\ opt \in [Threads -> 0 .. inits] /\ ended \in [Threads -> 0 .. Len(sessions)]
  /\ pc \in [Threads -> AppPlaces \cup DogPlaces \cup OwnerPlaces]
  /\ \A t \in Apps : pc[t] \in AppPlaces
  /\ pc[Dog] \in DogPlaces /\ pc[Owner] \in OwnerPlaces
  /\ op \in {"none", "init", "close"}
  /\ active \in BOOLEAN /\ running \in BOOLEAN /\ crashed \in BOOLEAN

\* Where a thread holds a reference to options and a session of its own.
HoldInv ==
  \A t \in Threads :
    /\ opt[t] # 0 <=> pc[t] \in Holding
    /\ ended[t] # 0 => pc[t] \in Ending

\* The options of the init under way are nobody's yet, and follow no others.
OwnerInv ==
  /\ pc[Owner] \in Opening \cup {"startup", "finish"} => op = "init"
  /\ op = "init" => inits # 0
  /\ op = "init" /\ pc[Owner] # "finish" => options # inits /\ \A t \in Threads : opt[t] # inits
  /\ pc[Owner] \in {"shutdown", "null"} => options # 0
  /\ pc[Owner] \in {"closed", "startup"} => options = 0
  /\ pc[Owner] = "finish" => options = inits

PlaceInv == HoldInv /\ OwnerInv

\* The references of the options of every init.
Holders(g) == {t \in Threads : opt[t] = g}
CountInv == \A g \in Gens : refs[g] = Cardinality(Holders(g)) + (IF g = options THEN 1 ELSE 0)

\* There is no watchdog but between the end of an init and the join of the close
\* or init after it.
DogInv ==
  /\ ~running => pc[Dog] = "gone"
  /\ pc[Owner] \in {"lock", "shutdown", "null", "closed", "startup", "finish"} => ~running
  /\ options = 0 => ~running

\* A session belongs to the options that it runs in or to the thread that ends
\* it, and has not been reported then.
Owned(s) == (\E g \in Gens : session[g] = s) \/ (\E t \in Threads : ended[t] = s)
SessionInv ==
  /\ file = session
  /\ \A g, h \in Gens : session[g] # 0 /\ session[g] = session[h] => g = h
  /\ \A t, u \in Threads : ended[t] # 0 /\ ended[t] = ended[u] => t = u
  /\ \A g \in Gens, t \in Threads : session[g] # 0 => session[g] # ended[t]
  /\ \A s \in 1 .. Len(sessions) : Owned(s) => sessions[s].final = 0

\* One session, by itself.
SoundSession(u) ==
  /\ u.final <= 1
  /\ u.final = 0 => u.reported = 0
  /\ u.final = 1 => u.reported = u.errors
  /\ u.init => u.first = 0 /\ u.later = 0
  /\ ~u.init => u.first = 1
SessionsInv == \A s \in 1 .. Len(sessions) : SoundSession(sessions[s])

\* Whoever is about to start a session has room for it.
RoomInv == Len(sessions) + Cardinality(Starting) <= MaxSessions

IInv == TypeInv /\ PlaceInv /\ CountInv /\ DogInv /\ SessionInv /\ SessionsInv /\ RoomInv

USE CoreAssumption DEF Threads, Owner, Dog, Gens, sdk, state, threads, watchdog, vars, At, Goto

(***************************************************************************)
(* Counting threads.                                                       *)
(***************************************************************************)
LEMMA FiniteThreads ==
  /\ IsFiniteSet(Threads)
  /\ \A S \in SUBSET Threads :
       IsFiniteSet(S) /\ Cardinality(S) \in Nat /\ Cardinality(S) <= Cardinality(Threads)
  <1>1. IsFiniteSet({Owner}) /\ IsFiniteSet({Dog})
    BY FS_Singleton, Zenon
  <1>2. IsFiniteSet(Threads)
    <2>1. Threads = (Apps \cup {Owner}) \cup {Dog}
      OBVIOUS
    <2> QED  BY <1>1, <2>1, FS_Union, Zenon
  <1> QED  BY <1>2, FS_Subset, FS_CardinalityType

\* One holder more.
LEMMA CountIn ==
  ASSUME NEW S \in SUBSET Threads, NEW t \in Threads \ S
  PROVE  Cardinality(S \cup {t}) = Cardinality(S) + 1
  BY FiniteThreads, FS_AddElement

\* One holder less.
LEMMA CountOut ==
  ASSUME NEW S \in SUBSET Threads, NEW t \in S
  PROVE  Cardinality(S \ {t}) = Cardinality(S) - 1
  BY FiniteThreads, FS_RemoveElement

\* sentry__options_getref counts the thread among the holders.
LEMMA GetRefCounts ==
  ASSUME TypeInv, CountInv, NEW t \in Threads, opt[t] = 0, GetRef(t), options' = options
  PROVE  CountInv' /\ refs' \in [Gens -> Int] /\ opt' \in [Threads -> 0 .. inits]
  <1>1. CASE options = 0
    BY <1>1 DEF TypeInv, CountInv, GetRef, Holders
  <1>2. CASE options # 0
    <2>0. /\ options \in Gens /\ refs' = [refs EXCEPT ![options] = @ + 1]
          /\ opt' = [opt EXCEPT ![t] = options]
      BY <1>2 DEF TypeInv, GetRef, Incref
    <2>1. Holders(options)' = Holders(options) \cup {t} /\ t \notin Holders(options)
      BY <1>2, <2>0, Zenon DEF TypeInv, Holders
    <2>2. \A g \in Gens : g # options => Holders(g)' = Holders(g)
      BY <2>0 DEF TypeInv, Holders
    <2>3. /\ Cardinality(Holders(options)') = Cardinality(Holders(options)) + 1
          /\ Cardinality(Holders(options)) \in Nat
      BY <2>1, CountIn, FiniteThreads, Zenon DEF Holders
    <2>4. refs' \in [Gens -> Int] /\ opt' \in [Threads -> 0 .. inits]
      BY <2>0 DEF TypeInv
    <2> QED  BY <2>0, <2>2, <2>3, <2>4, Zenon DEF TypeInv, CountInv
  <1> QED  BY <1>1, <1>2

\* sentry_options_free takes it out again.
LEMMA ReleaseCounts ==
  ASSUME TypeInv, CountInv, NEW t \in Threads, opt[t] # 0, Release(t), options' = options
  PROVE  CountInv' /\ refs' \in [Gens -> Int] /\ opt' \in [Threads -> 0 .. inits]
  <1>0. PICK g \in Gens : g = opt[t]
    BY DEF TypeInv
  <1>1. refs' = [refs EXCEPT ![g] = @ - 1] /\ opt' = [opt EXCEPT ![t] = 0]
    BY <1>0 DEF Release
  <1>2. Holders(g)' = Holders(g) \ {t} /\ t \in Holders(g)
    BY <1>0, <1>1, Zenon DEF TypeInv, Holders
  <1>3. \A h \in Gens : h # g => Holders(h)' = Holders(h)
    BY <1>0, <1>1 DEF TypeInv, Holders
  <1>4. /\ Cardinality(Holders(g)') = Cardinality(Holders(g)) - 1
        /\ Cardinality(Holders(g)) \in Nat
    BY <1>2, CountOut, FiniteThreads DEF Holders
  <1>5. refs' \in [Gens -> Int] /\ opt' \in [Threads -> 0 .. inits]
    BY <1>1 DEF TypeInv
  <1>6. ASSUME NEW h \in Gens
        PROVE  refs'[h] = Cardinality(Holders(h)') + (IF h = options' THEN 1 ELSE 0)
    <2>1. refs[h] = Cardinality(Holders(h)) + (IF h = options THEN 1 ELSE 0)
      BY DEF CountInv
    <2>2. CASE h = g
      BY <1>1, <1>4, <2>1, <2>2 DEF TypeInv
    <2>3. CASE h # g
      BY <1>1, <1>3, <2>1, <2>3, Zenon DEF TypeInv
    <2> QED  BY <2>2, <2>3
  <1> QED  BY <1>5, <1>6 DEF CountInv

\* A step that moves no reference leaves the counts exact.
LEMMA SameCounts ==
  ASSUME CountInv, UNCHANGED <<refs, opt, options>>
  PROVE  CountInv'
  <1>1. \A g \in Gens : Holders(g)' = Holders(g)
    BY DEF Holders
  <1> QED  BY <1>1 DEF CountInv

\* A step that begins no session and no capture leaves room for the rest.
LEMMA SameRoom ==
  ASSUME TypeInv, RoomInv, Len(sessions') = Len(sessions),
         \A t \in Apps : pc'[t] \in {"sendStart", "releaseStart", "new"}
                           <=> pc[t] \in {"sendStart", "releaseStart", "new"}
  PROVE  RoomInv'
  <1>1. Starting' = Starting
    BY DEF Starting
  <1> QED  BY <1>1 DEF RoomInv

\* A thread that is no longer about to start a session leaves its room.
LEMMA LeavesRoom ==
  ASSUME TypeInv, NEW t \in Apps, pc[t] = "new", pc' = [pc EXCEPT ![t] = "idle"]
  PROVE  Cardinality(Starting') = Cardinality(Starting) - 1 /\ Cardinality(Starting) \in Nat
  <1>1. Starting' = Starting \ {t} /\ t \in Starting
    BY DEF TypeInv, Starting
  <1> QED  BY <1>1, CountOut, FiniteThreads, Zenon DEF Starting

(***************************************************************************)
(* Sessions.                                                               *)
(***************************************************************************)
LEMMA FinalFields ==
  ASSUME NEW u \in Session, NEW a \in Nat, NEW b \in Nat
  PROVE  [u EXCEPT !.final = a, !.reported = b] \in Session
  BY Zenon DEF Session

\* What sentry__envelope_add_session, sentry__record_errors_on_current_session
\* and sentry__capture_session make of a session.
LEMMA SoundUpdates ==
  ASSUME NEW u \in Session, SoundSession(u)
  PROVE  /\ Updated(u) \in Session /\ SoundSession(Updated(u)) /\ Updated(u).final = u.final
         /\ u.final = 0 =>
              /\ [u EXCEPT !.errors = @ + 1] \in Session
              /\ SoundSession([u EXCEPT !.errors = @ + 1])
              /\ [u EXCEPT !.errors = @ + 1].final = 0
              /\ Finished(u) \in Session /\ SoundSession(Finished(u))
  <1>0. /\ u.errors \in Nat /\ u.first \in Nat /\ u.later \in Nat /\ u.final \in Nat
        /\ u.reported \in Nat /\ u.init \in BOOLEAN
    BY DEF Session
  <1>1. Updated(u) \in Session
    <2>1. PICK a, b \in Nat :
            a = (IF u.init THEN u.first + 1 ELSE u.first) /\ b = (IF u.init THEN u.later ELSE u.later + 1)
      BY <1>0
    <2>2. Updated(u) = [u EXCEPT !.first = a, !.later = b, !.init = FALSE]
      BY <2>1 DEF Updated
    <2>3. [u EXCEPT !.first = a, !.later = b, !.init = FALSE] \in Session
      BY Zenon DEF Session
    <2> QED  BY <2>2, <2>3
  <1>2. /\ Updated(u).final = u.final /\ Updated(u).reported = u.reported
        /\ Updated(u).errors = u.errors /\ Updated(u).init = FALSE
        /\ u.init => Updated(u).first = u.first + 1
        /\ ~u.init => Updated(u).first = u.first
    BY DEF Session, Updated
  <1>3. SoundSession(Updated(u))
    BY <1>0, <1>2 DEF SoundSession
  <1>4. ASSUME u.final = 0
        PROVE  /\ [u EXCEPT !.errors = @ + 1] \in Session
               /\ SoundSession([u EXCEPT !.errors = @ + 1])
               /\ [u EXCEPT !.errors = @ + 1].final = 0
    BY <1>4 DEF Session, SoundSession
  <1>5. ASSUME u.final = 0
        PROVE  Finished(u) \in Session /\ SoundSession(Finished(u))
    <2>1. Finished(u) = [u EXCEPT !.final = u.final + 1, !.reported = u.reported + u.errors]
      BY DEF Finished
    <2>2. /\ Finished(u).final = 1 /\ Finished(u).reported = u.errors
          /\ Finished(u).errors = u.errors /\ Finished(u).init = u.init
          /\ Finished(u).first = u.first /\ Finished(u).later = u.later
      BY <1>5, <2>1 DEF Session, SoundSession
    <2>3. u.final + 1 \in Nat /\ u.reported + u.errors \in Nat
      BY <1>0
    <2>4. Finished(u) \in Session
      BY <2>1, <2>3, FinalFields, ZenonT(60)
    <2> QED  BY <1>0, <2>2, <2>4 DEF SoundSession
  <1> QED  BY <1>1, <1>2, <1>3, <1>4, <1>5

\* One session is replaced by a sound one.
LEMMA OneSession ==
  ASSUME TypeInv, SessionsInv, NEW k \in 1 .. Len(sessions), NEW u \in Session,
         SoundSession(u), sessions' = [sessions EXCEPT ![k] = u]
  PROVE  /\ sessions' \in Seq(Session) /\ Len(sessions') = Len(sessions) /\ SessionsInv'
         /\ sessions'[k] = u
         /\ \A s \in 1 .. Len(sessions) : s # k => sessions'[s] = sessions[s]
  BY DEF TypeInv, SessionsInv

\* A change of the sessions that keeps whose they are and which are over.
LEMMA SameSessions ==
  ASSUME SessionInv, UNCHANGED <<session, file, ended>>, Len(sessions') = Len(sessions),
         \A s \in 1 .. Len(sessions) : sessions'[s].final = sessions[s].final
  PROVE  SessionInv'
  BY Zenon DEF SessionInv, Owned

\* sentry__end_session_internal moves the session from the options to the caller.
LEMMA EndInternalSessions ==
  ASSUME TypeInv, SessionInv, NEW t \in Threads, ended[t] = 0, EndInternal(t),
         sessions' = sessions
  PROVE  /\ session' \in [Gens -> 0 .. Len(sessions)] /\ ended' \in [Threads -> 0 .. Len(sessions)]
         /\ \A u \in Threads : u # t => ended'[u] = ended[u]
         /\ SessionInv'
  <1>1. CASE options = 0
    BY <1>1 DEF TypeInv, SessionInv, Owned, EndInternal
  <1>2. CASE options # 0
    <2>0. PICK g \in Gens : g = options
      BY <1>2 DEF TypeInv
    <2>1. /\ session' = [session EXCEPT ![g] = 0] /\ ended' = [ended EXCEPT ![t] = session[g]]
          /\ file' = [file EXCEPT ![g] = 0]
      BY <1>2, <2>0 DEF EndInternal, Detached, Cleared
    <2>2. session' \in [Gens -> 0 .. Len(sessions)] /\ ended' \in [Threads -> 0 .. Len(sessions)]
      BY <2>1, Zenon DEF TypeInv
    <2>3. \A h \in Gens : session'[h] = IF h = g THEN 0 ELSE session[h]
      BY <2>1 DEF TypeInv
    <2>4. \A u \in Threads : ended'[u] = IF u = t THEN session[g] ELSE ended[u]
      BY <2>1 DEF TypeInv
    <2>5. file' = session'
      BY <2>1 DEF SessionInv
    <2>6. \A s : s # 0 /\ Owned(s)' => Owned(s)
      BY <2>3, <2>4 DEF Owned
    <2>7. \A s \in 1 .. Len(sessions) : Owned(s)' => sessions[s].final = 0
      BY <2>6 DEF TypeInv, SessionInv
    <2>8. \A h, k \in Gens : session'[h] # 0 /\ session'[h] = session'[k] => h = k
      BY <2>3 DEF SessionInv
    <2>9. \A u, v \in Threads : ended'[u] # 0 /\ ended'[u] = ended'[v] => u = v
      BY <2>4 DEF SessionInv
    <2>10. \A h \in Gens, u \in Threads : session'[h] # 0 => session'[h] # ended'[u]
      BY <2>3, <2>4 DEF SessionInv
    <2> QED  BY <2>2, <2>4, <2>5, <2>7, <2>8, <2>9, <2>10, Zenon DEF SessionInv
  <1> QED  BY <1>1, <1>2

\* A new session is nobody else's.
LEMMA StartInSessions ==
  ASSUME TypeInv, SessionInv, SessionsInv, NEW g \in Gens, StartIn(g), ended' = ended
  PROVE  /\ sessions' \in Seq(Session) /\ Len(sessions') = Len(sessions) + 1
         /\ session' \in [Gens -> 0 .. Len(sessions')]
         /\ ended' \in [Threads -> 0 .. Len(sessions')]
         /\ SessionInv' /\ SessionsInv'
  <1> DEFINE n == Len(sessions) + 1
  <1>0. Len(sessions) \in Nat /\ NewSession \in Session /\ SoundSession(NewSession)
        /\ NewSession.final = 0
    BY DEF TypeInv, NewSession, Session, SoundSession
  <1>1. /\ sessions' \in Seq(Session) /\ Len(sessions') = n
        /\ sessions'[n] = NewSession
        /\ \A s \in 1 .. Len(sessions) : sessions'[s] = sessions[s]
    BY <1>0 DEF TypeInv, StartIn
  <1>2. /\ session' = [session EXCEPT ![g] = n]
        /\ \A h \in Gens : session'[h] = IF h = g THEN n ELSE session[h]
    BY DEF TypeInv, StartIn
  <1>3. session' \in [Gens -> 0 .. Len(sessions')] /\ ended' \in [Threads -> 0 .. Len(sessions')]
    BY <1>0, <1>1, <1>2 DEF TypeInv
  <1>4. file' = session'
    BY DEF SessionInv, StartIn
  <1>5. (\A h \in Gens : session[h] # n) /\ \A t \in Threads : ended[t] # n
    BY <1>0 DEF TypeInv
  <1>6. SessionsInv'
    BY <1>0, <1>1 DEF SessionsInv
  <1>7. \A s \in 1 .. Len(sessions) : Owned(s)' => Owned(s)
    BY <1>0, <1>2 DEF Owned
  <1>8. \A s \in 1 .. Len(sessions') : Owned(s)' => sessions'[s].final = 0
    BY <1>0, <1>1, <1>7 DEF SessionInv
  <1>9. \A h, k \in Gens : session'[h] # 0 /\ session'[h] = session'[k] => h = k
    BY <1>2, <1>5 DEF SessionInv
  <1>10. \A h \in Gens, t \in Threads : session'[h] # 0 => session'[h] # ended'[t]
    BY <1>2, <1>5 DEF SessionInv
  <1> QED  BY <1>1, <1>3, <1>4, <1>6, <1>8, <1>9, <1>10, Zenon DEF SessionInv

\* sentry__capture_session reports a session that nobody has any more.
LEMMA FinishedSessions ==
  ASSUME TypeInv, SessionInv, SessionsInv, NEW k \in 1 .. Len(sessions), Owned(k),
         sessions' = [sessions EXCEPT ![k] = Finished(@)], ~Owned(k)',
         \A s : s # 0 /\ Owned(s)' => Owned(s)
  PROVE  /\ sessions' \in Seq(Session) /\ Len(sessions') = Len(sessions) /\ SessionsInv'
         /\ \A s \in 1 .. Len(sessions') : Owned(s)' => sessions'[s].final = 0
  <1>1. sessions[k] \in Session /\ SoundSession(sessions[k]) /\ sessions[k].final = 0
    BY DEF TypeInv, SessionInv, SessionsInv
  <1>2. Finished(sessions[k]) \in Session /\ SoundSession(Finished(sessions[k]))
    BY <1>1, SoundUpdates, Zenon
  <1>3. sessions' = [sessions EXCEPT ![k] = Finished(sessions[k])]
    OBVIOUS
  <1>4. PICK u \in Session : u = Finished(sessions[k])
    BY <1>2
  <1>5. /\ sessions' \in Seq(Session) /\ Len(sessions') = Len(sessions) /\ SessionsInv'
        /\ \A s \in 1 .. Len(sessions) : s # k => sessions'[s] = sessions[s]
    BY <1>2, <1>3, <1>4, OneSession, Zenon
  <1> QED  BY <1>5 DEF SessionInv

\* A thread that moves where it holds neither options nor a session.
LEMMA SameHold ==
  ASSUME TypeInv, HoldInv, NEW t \in Threads, NEW l, pc' = [pc EXCEPT ![t] = l],
         UNCHANGED <<opt, ended>>, {pc[t], l} \cap (Holding \cup Ending) = {}
  PROVE  HoldInv'
  BY Zenon DEF TypeInv, HoldInv

USE DEF Holding, AppPlaces, DogPlaces, OwnerPlaces, Capturing, Ending, Opening

\* The racy read of options->session.
LEMMA LookStep ==
  ASSUME IInv, NEW t \in Threads, Look(t)
  PROVE  IInv'
  <1> USE DEF IInv, Look
  <1>1. TypeInv'
    BY Zenon DEF TypeInv
  <1>2. PlaceInv'
    BY Zenon DEF TypeInv, PlaceInv, HoldInv, OwnerInv
  <1>3. CountInv'
    BY SameCounts
  <1>4. DogInv'
    BY Zenon DEF TypeInv, PlaceInv, HoldInv, OwnerInv, DogInv
  <1>5. SessionInv'
    BY SameSessions
  <1>6. SessionsInv'
    BY DEF SessionsInv
  <1>7. RoomInv'
    BY SameRoom, Zenon DEF TypeInv
  <1> QED  BY <1>1, <1>2, <1>3, <1>4, <1>5, <1>6, <1>7

\* sentry__capture_event takes a reference of the options there are.
LEMMA CaptureBeginStep ==
  ASSUME IInv, NEW t \in Threads, CaptureBegin(t)
  PROVE  IInv'
  <1> USE DEF IInv, CaptureBegin, Home
  <1>0. opt[t] = 0 /\ t # Owner
    BY Zenon DEF TypeInv, PlaceInv, HoldInv, OwnerInv
  <1>1. TypeInv'
    <2>1. refs' \in [Gens -> Int] /\ opt' \in [Threads -> 0 .. inits]
      BY <1>0, GetRefCounts, Zenon
    <2>2. captures' \in 0 .. MaxCaptures
      BY DEF TypeInv
    <2> QED  BY <1>0, <2>1, <2>2, Zenon DEF TypeInv
  <1>2. PlaceInv'
    <2>1. \A u \in Threads : opt'[u] = IF u = t THEN options ELSE opt[u]
      BY <1>0 DEF TypeInv, GetRef
    <2>2. \A u \in Threads : u # t => pc'[u] = pc[u]
      BY DEF TypeInv
    <2>3. pc'[t] = IF options = 0 THEN Home(t) ELSE "prepare"
      BY DEF TypeInv
    <2>4. HoldInv'
      <3>1. (opt[t] # 0 <=> pc[t] \in Holding)' /\ (ended[t] # 0 => pc[t] \in Ending)'
        BY <1>0, <2>1, <2>3, ZenonT(60) DEF TypeInv, PlaceInv, HoldInv
      <3> QED  BY <2>1, <2>2, <3>1 DEF PlaceInv, HoldInv
    <2>5. OwnerInv'
      BY <1>0, <2>1, <2>2, <2>3 DEF TypeInv, PlaceInv, OwnerInv
    <2> QED  BY <2>4, <2>5 DEF PlaceInv
  <1>3. CountInv'
    BY <1>0, GetRefCounts
  <1>4. DogInv'
    BY Zenon DEF TypeInv, PlaceInv, HoldInv, OwnerInv, DogInv
  <1>5. SessionInv'
    BY SameSessions
  <1>6. SessionsInv'
    BY DEF SessionsInv
  <1>7. RoomInv'
    BY SameRoom, Zenon DEF TypeInv
  <1> QED  BY <1>1, <1>2, <1>3, <1>4, <1>5, <1>6, <1>7

\* It gives the reference back.
LEMMA CaptureEndStep ==
  ASSUME IInv, NEW t \in Threads, CaptureEnd(t)
  PROVE  IInv'
  <1> USE DEF IInv, CaptureEnd, Home
  <1>0. opt[t] # 0 /\ t # Owner
    BY Zenon DEF TypeInv, PlaceInv, HoldInv, OwnerInv
  <1>1. TypeInv'
    <2>1. refs' \in [Gens -> Int] /\ opt' \in [Threads -> 0 .. inits]
      BY <1>0, ReleaseCounts, Zenon DEF TypeInv
    <2>2. /\ pc' \in [Threads -> AppPlaces \cup DogPlaces \cup OwnerPlaces]
          /\ \A u \in Apps : pc'[u] \in AppPlaces
          /\ pc'[Dog] \in DogPlaces /\ pc'[Owner] \in OwnerPlaces
      BY <1>0 DEF TypeInv, AppPlaces, DogPlaces, OwnerPlaces
    <2> QED  BY <2>1, <2>2, Zenon DEF TypeInv
  <1>2. PlaceInv'
    BY <1>0, Zenon DEF TypeInv, PlaceInv, HoldInv, OwnerInv, Release
  <1>3. CountInv'
    BY <1>0, ReleaseCounts
  <1>4. DogInv'
    BY Zenon DEF TypeInv, PlaceInv, HoldInv, OwnerInv, DogInv
  <1>5. SessionInv'
    BY SameSessions
  <1>6. SessionsInv'
    BY DEF SessionsInv
  <1>7. RoomInv'
    BY SameRoom, Zenon DEF TypeInv
  <1> QED  BY <1>1, <1>2, <1>3, <1>4, <1>5, <1>6, <1>7

\* The close takes a reference while it shuts the telemetry down.
LEMMA CloseTelemetryStep ==
  ASSUME IInv, CloseTelemetry
  PROVE  IInv'
  <1> USE DEF IInv, CloseTelemetry
  <1>0. opt[Owner] = 0
    BY Zenon DEF TypeInv, PlaceInv, HoldInv, OwnerInv
  <1>1. TypeInv'
    BY <1>0, GetRefCounts, Zenon DEF TypeInv
  <1>2. PlaceInv'
    BY <1>0 DEF TypeInv, PlaceInv, HoldInv, OwnerInv, GetRef, Incref
  <1>3. CountInv'
    BY <1>0, GetRefCounts
  <1>4. DogInv'
    BY Zenon DEF TypeInv, PlaceInv, HoldInv, OwnerInv, DogInv
  <1>5. SessionInv'
    BY SameSessions
  <1>6. SessionsInv'
    BY DEF SessionsInv
  <1>7. RoomInv'
    BY SameRoom, Zenon DEF TypeInv
  <1> QED  BY <1>1, <1>2, <1>3, <1>4, <1>5, <1>6, <1>7

\* It gives that one back.
LEMMA CloseTelemetryDoneStep ==
  ASSUME IInv, CloseTelemetryDone
  PROVE  IInv'
  <1> USE DEF IInv, CloseTelemetryDone
  <1>0. opt[Owner] # 0
    BY Zenon DEF TypeInv, PlaceInv, HoldInv, OwnerInv
  <1>1. TypeInv'
    BY <1>0, ReleaseCounts, Zenon DEF TypeInv
  <1>2. PlaceInv'
    BY <1>0, Zenon DEF TypeInv, PlaceInv, HoldInv, OwnerInv, Release
  <1>3. CountInv'
    BY <1>0, ReleaseCounts
  <1>4. DogInv'
    BY Zenon DEF TypeInv, PlaceInv, HoldInv, OwnerInv, DogInv
  <1>5. SessionInv'
    BY SameSessions
  <1>6. SessionsInv'
    BY DEF SessionsInv
  <1>7. RoomInv'
    BY SameRoom, Zenon DEF TypeInv
  <1> QED  BY <1>1, <1>2, <1>3, <1>4, <1>5, <1>6, <1>7

\* The reference taken to send the session is given back.
LEMMA SentSessionStep ==
  ASSUME IInv, NEW t \in Apps, SentSession(t)
  PROVE  IInv'
  <1> USE DEF IInv, SentSession
  <1>0. opt[t] # 0
    BY Zenon DEF TypeInv, PlaceInv, HoldInv, OwnerInv
  <1>1. TypeInv'
    BY <1>0, ReleaseCounts, ZenonT(60) DEF TypeInv
  <1>2. PlaceInv'
    BY <1>0, ZenonT(60) DEF TypeInv, PlaceInv, HoldInv, OwnerInv, Release
  <1>3. CountInv'
    BY <1>0, ReleaseCounts
  <1>4. DogInv'
    BY Zenon DEF TypeInv, PlaceInv, HoldInv, OwnerInv, DogInv
  <1>5. SessionInv'
    BY SameSessions
  <1>6. SessionsInv'
    BY DEF SessionsInv
  <1>7. RoomInv'
    BY SameRoom, Zenon DEF TypeInv
  <1> QED  BY <1>1, <1>2, <1>3, <1>4, <1>5, <1>6, <1>7

\* The watchdog leaves when it is told to.
LEMMA WatchdogExitStep ==
  ASSUME IInv, WatchdogExit
  PROVE  IInv'
  <1> USE DEF IInv, WatchdogExit
  <1>1. TypeInv'
    BY Zenon DEF TypeInv
  <1>2. PlaceInv'
    BY Zenon DEF TypeInv, PlaceInv, HoldInv, OwnerInv
  <1>3. CountInv'
    BY SameCounts
  <1>4. DogInv'
    BY Zenon DEF TypeInv, PlaceInv, HoldInv, OwnerInv, DogInv
  <1>5. SessionInv'
    BY SameSessions
  <1>6. SessionsInv'
    BY DEF SessionsInv
  <1>7. RoomInv'
    BY SameRoom, Zenon DEF TypeInv
  <1> QED  BY <1>1, <1>2, <1>3, <1>4, <1>5, <1>6, <1>7

\* sentry_close or sentry_init tells the watchdog to leave.
LEMMA StopStep ==
  ASSUME IInv, Stop
  PROVE  IInv'
  <1> USE DEF IInv, Stop, MonitorStop, After
  <1>0. PICK l \in {"initStop", "stop"}, n \in {"initJoin", "initLock", "join", "lock"} :
          /\ pc[Owner] = l /\ pc' = [pc EXCEPT ![Owner] = n]
          /\ n \in {"initLock", "lock"} => ~running
          /\ UNCHANGED <<opt, ended>>
          /\ l = "initStop" <=> n \in {"initJoin", "initLock"}
    OBVIOUS
  <1>1. TypeInv'
    BY <1>0, ZenonT(60) DEF TypeInv
  <1>2. PlaceInv'
    <2>1. HoldInv'
      <3> HIDE DEF Stop
      <3>1. {l, n} \cap (Holding \cup Ending) = {}
        OBVIOUS
      <3> QED  BY <1>0, <3>1, SameHold, Zenon DEF PlaceInv
    <2>2. OwnerInv'
      BY <1>0 DEF TypeInv, PlaceInv, OwnerInv
    <2> QED  BY <2>1, <2>2 DEF PlaceInv
  <1>3. CountInv'
    BY SameCounts
  <1>4. DogInv'
    BY DEF TypeInv, PlaceInv, HoldInv, OwnerInv, DogInv
  <1>5. SessionInv'
    BY SameSessions
  <1>6. SessionsInv'
    BY DEF SessionsInv
  <1>7. RoomInv'
    BY SameRoom DEF TypeInv
  <1> QED  BY <1>1, <1>2, <1>3, <1>4, <1>5, <1>6, <1>7

\* It joins the watchdog, which is gone then.
LEMMA JoinStep ==
  ASSUME IInv, Join
  PROVE  IInv'
  <1> USE DEF IInv, Join, Joinable, After
  <1>0. PICK l \in {"initJoin", "join"} : pc[Owner] = l /\ pc' = [pc EXCEPT ![Owner] = After(l)]
    BY Zenon
  <1>1. TypeInv'
    BY <1>0, ZenonT(60) DEF TypeInv
  <1>2. PlaceInv'
    <2>1. HoldInv'
      BY <1>0, SameHold, ZenonT(60) DEF PlaceInv
    <2>2. OwnerInv'
      BY <1>0 DEF TypeInv, PlaceInv, OwnerInv
    <2> QED  BY <2>1, <2>2 DEF PlaceInv
  <1>3. CountInv'
    BY SameCounts
  <1>4. DogInv'
    BY Zenon DEF TypeInv, PlaceInv, HoldInv, OwnerInv, DogInv
  <1>5. SessionInv'
    BY SameSessions
  <1>6. SessionsInv'
    BY DEF SessionsInv
  <1>7. RoomInv'
    BY SameRoom, Zenon DEF TypeInv
  <1> QED  BY <1>1, <1>2, <1>3, <1>4, <1>5, <1>6, <1>7

\* sentry_init takes the lock and goes on to close what is there.
LEMMA InitLockStep ==
  ASSUME IInv, InitLock
  PROVE  IInv'
  <1> USE DEF IInv, InitLock, Free
  <1>1. TypeInv'
    BY Zenon DEF TypeInv
  <1>2. PlaceInv'
    BY Zenon DEF TypeInv, PlaceInv, HoldInv, OwnerInv
  <1>3. CountInv'
    BY SameCounts
  <1>4. DogInv'
    BY Zenon DEF TypeInv, PlaceInv, HoldInv, OwnerInv, DogInv
  <1>5. SessionInv'
    BY SameSessions
  <1>6. SessionsInv'
    BY Zenon DEF SessionsInv
  <1>7. RoomInv'
    BY SameRoom, Zenon DEF TypeInv
  <1> QED  BY <1>1, <1>2, <1>3, <1>4, <1>5, <1>6, <1>7

\* sentry_close is called.
LEMMA CloseCallStep ==
  ASSUME IInv, CloseCall
  PROVE  IInv'
  <1> USE DEF IInv, CloseCall
  <1>1. TypeInv'
    BY Zenon DEF TypeInv
  <1>2. PlaceInv'
    BY Zenon DEF TypeInv, PlaceInv, HoldInv, OwnerInv
  <1>3. CountInv'
    BY SameCounts
  <1>4. DogInv'
    BY Zenon DEF TypeInv, PlaceInv, HoldInv, OwnerInv, DogInv
  <1>5. SessionInv'
    BY SameSessions
  <1>6. SessionsInv'
    BY DEF SessionsInv
  <1>7. RoomInv'
    BY SameRoom, Zenon DEF TypeInv
  <1> QED  BY <1>1, <1>2, <1>3, <1>4, <1>5, <1>6, <1>7

\* It takes the lock and looks whether there are options.
LEMMA CloseLockStep ==
  ASSUME IInv, CloseLock
  PROVE  IInv'
  <1> USE DEF IInv, CloseLock, Free
  <1>1. TypeInv'
    BY Zenon DEF TypeInv
  <1>2. PlaceInv'
    BY Zenon DEF TypeInv, PlaceInv, HoldInv, OwnerInv
  <1>3. CountInv'
    BY SameCounts
  <1>4. DogInv'
    BY Zenon DEF TypeInv, PlaceInv, HoldInv, OwnerInv, DogInv
  <1>5. SessionInv'
    BY SameSessions
  <1>6. SessionsInv'
    BY DEF SessionsInv
  <1>7. RoomInv'
    BY SameRoom, Zenon DEF TypeInv
  <1> QED  BY <1>1, <1>2, <1>3, <1>4, <1>5, <1>6, <1>7

\* The close inside an init goes on to start up; one by itself returns.
LEMMA ClosedStep ==
  ASSUME IInv, Closed
  PROVE  IInv'
  <1> USE DEF IInv, Closed
  <1>1. TypeInv'
    BY DEF TypeInv
  <1>2. PlaceInv'
    BY DEF TypeInv, PlaceInv, HoldInv, OwnerInv
  <1>3. CountInv'
    BY SameCounts
  <1>4. DogInv'
    BY DEF TypeInv, PlaceInv, HoldInv, OwnerInv, DogInv
  <1>5. SessionInv'
    BY SameSessions
  <1>6. SessionsInv'
    BY DEF SessionsInv
  <1>7. RoomInv'
    BY SameRoom DEF TypeInv
  <1> QED  BY <1>1, <1>2, <1>3, <1>4, <1>5, <1>6, <1>7

\* An init that cannot set up its run, transport or backend publishes nothing.
LEMMA InitFailStep ==
  ASSUME IInv, InitFail
  PROVE  IInv'
  <1> USE DEF IInv, InitFail
  <1>1. TypeInv'
    BY Zenon DEF TypeInv
  <1>2. PlaceInv'
    BY Zenon DEF TypeInv, PlaceInv, HoldInv, OwnerInv
  <1>3. CountInv'
    BY SameCounts
  <1>4. DogInv'
    BY Zenon DEF TypeInv, PlaceInv, HoldInv, OwnerInv, DogInv
  <1>5. SessionInv'
    BY SameSessions, Zenon
  <1>6. SessionsInv'
    BY DEF SessionsInv
  <1>7. RoomInv'
    BY SameRoom, Zenon DEF TypeInv
  <1> QED  BY <1>1, <1>2, <1>3, <1>4, <1>5, <1>6, <1>7, Zenon

\* sentry_init is called; it first stops the watchdog.
LEMMA InitCallStep ==
  ASSUME IInv, InitCall
  PROVE  IInv'
  <1> USE DEF IInv, InitCall
  <1>1. TypeInv'
    <2>1. inits' \in 0 .. MaxInits /\ options' \in 0 .. inits' /\ opt' \in [Threads -> 0 .. inits']
      BY DEF TypeInv
    <2> QED  BY <2>1, Zenon DEF TypeInv
  <1>2. PlaceInv'
    <2>1. inits \in Nat /\ inits' = inits + 1 /\ options <= inits
          /\ \A t \in Threads : opt[t] \in 0 .. inits
      BY DEF TypeInv
    <2>2. options # inits' /\ \A t \in Threads : opt[t] # inits'
      BY <2>1
    <2>3. HoldInv'
      BY <2>1, <2>2, Zenon DEF TypeInv, PlaceInv, HoldInv
    <2>4. OwnerInv'
      BY <2>1, <2>2 DEF TypeInv, PlaceInv, OwnerInv
    <2> QED  BY <2>3, <2>4 DEF PlaceInv
  <1>3. CountInv'
    BY SameCounts
  <1>4. DogInv'
    BY Zenon DEF TypeInv, PlaceInv, HoldInv, OwnerInv, DogInv
  <1>5. SessionInv'
    BY SameSessions, Zenon
  <1>6. SessionsInv'
    BY Zenon DEF SessionsInv
  <1>7. RoomInv'
    BY SameRoom, Zenon DEF TypeInv
  <1> QED  BY <1>1, <1>2, <1>3, <1>4, <1>5, <1>6, <1>7, Zenon

(***************************************************************************)
(* Steps that change sessions.                                             *)
(***************************************************************************)
\* An error counts on a session that runs, so it is not over.
LEMMA RecordErrorSessions ==
  ASSUME TypeInv, SessionInv, SessionsInv, RecordError \/ UNCHANGED sessions,
         UNCHANGED <<session, file, ended>>
  PROVE  /\ sessions' \in Seq(Session) /\ Len(sessions') = Len(sessions)
         /\ SessionInv' /\ SessionsInv'
  <1>1. CASE UNCHANGED sessions
    BY <1>1, SameSessions, Zenon DEF TypeInv, SessionsInv
  <1>2. CASE ~UNCHANGED sessions
    <2>1. Recorded /\ sessions' = [sessions EXCEPT ![session[options]].errors = @ + 1]
      BY <1>2 DEF RecordError
    <2>2. PICK k \in 1 .. Len(sessions) : k = session[options]
      BY <2>1 DEF Recorded, TypeInv
    <2>3. /\ sessions[k] \in Session /\ SoundSession(sessions[k]) /\ sessions[k].final = 0
      BY <2>1, <2>2 DEF TypeInv, SessionInv, SessionsInv, Owned, Recorded
    <2>4. PICK u \in Session : u = [sessions[k] EXCEPT !.errors = @ + 1]
      BY <2>3, SoundUpdates, Zenon
    <2>5. SoundSession(u) /\ u.final = 0
      BY <2>3, <2>4, SoundUpdates, Zenon
    <2>6. sessions' = [sessions EXCEPT ![k] = u]
      BY <2>1, <2>2, <2>4, Zenon DEF TypeInv
    <2>7. /\ sessions' \in Seq(Session) /\ Len(sessions') = Len(sessions) /\ SessionsInv'
          /\ sessions'[k] = u
          /\ \A s \in 1 .. Len(sessions) : s # k => sessions'[s] = sessions[s]
      BY <2>5, <2>6, OneSession, Zenon
    <2> QED  BY <2>3, <2>5, <2>7, SameSessions, Zenon
  <1> QED  BY <1>1, <1>2

\* An error counts on the current session.
LEMMA PrepareStep ==
  ASSUME IInv, NEW t \in Threads, Prepare(t)
  PROVE  IInv'
  <1> USE DEF IInv, Prepare
  <1>0. /\ sessions' \in Seq(Session) /\ Len(sessions') = Len(sessions)
        /\ SessionInv' /\ SessionsInv'
    BY RecordErrorSessions, Zenon
  <1>10. PICK l \in {"look", "release"} : pc[t] = "prepare" /\ pc' = [pc EXCEPT ![t] = l] /\ t # Owner
    BY Zenon DEF TypeInv
  <1>1. TypeInv'
    BY <1>0, <1>10, Zenon DEF TypeInv
  <1>2. PlaceInv'
    BY <1>10, Zenon DEF TypeInv, PlaceInv, HoldInv, OwnerInv
  <1>3. CountInv'
    BY SameCounts, Zenon
  <1>4. DogInv'
    BY Zenon DEF TypeInv, DogInv
  <1>5. RoomInv'
    BY <1>0, SameRoom, Zenon DEF TypeInv
  <1> QED  BY <1>0, <1>1, <1>2, <1>3, <1>4, <1>5, Zenon

\* A capture adds the update of the session, with the init flag once.
LEMMA AddSessionStep ==
  ASSUME IInv, NEW t \in Threads, AddSession(t)
  PROVE  IInv'
  <1> USE DEF IInv, AddSession
  <1>0. /\ sessions' \in Seq(Session) /\ Len(sessions') = Len(sessions)
        /\ SessionInv' /\ SessionsInv'
    <2>1. CASE UNCHANGED sessions
      BY <2>1, SameSessions, Zenon DEF TypeInv, SessionsInv
    <2>2. CASE ~UNCHANGED sessions
      <3>0. options \in Gens /\ session[options] \in 1 .. Len(sessions)
        BY <2>2 DEF TypeInv
      <3>1. PICK k \in 1 .. Len(sessions) : sessions' = [sessions EXCEPT ![k] = Updated(@)]
        BY <2>2, <3>0, Zenon
      <3>2. sessions[k] \in Session /\ SoundSession(sessions[k])
        BY DEF TypeInv, SessionsInv
      <3>3. PICK u \in Session : u = Updated(sessions[k])
        BY <3>2, SoundUpdates, Zenon
      <3>4. SoundSession(u) /\ u.final = sessions[k].final
        BY <3>2, <3>3, SoundUpdates, Zenon
      <3>5. sessions' = [sessions EXCEPT ![k] = u]
        BY <3>1, <3>3, Zenon
      <3>6. /\ sessions' \in Seq(Session) /\ Len(sessions') = Len(sessions) /\ SessionsInv'
            /\ sessions'[k] = u
            /\ \A s \in 1 .. Len(sessions) : s # k => sessions'[s] = sessions[s]
        BY <3>4, <3>5, OneSession, Zenon
      <3> QED  BY <3>4, <3>6, SameSessions, Zenon
    <2> QED  BY <2>1, <2>2, Zenon
  <1>10. /\ pc[t] = "add" /\ t # Owner /\ crashed' \in BOOLEAN
         /\ pc' = pc \/ pc' = [pc EXCEPT ![t] = "release"]
    BY Zenon DEF TypeInv
  <1>1. TypeInv'
    <2>1. /\ pc' \in [Threads -> AppPlaces \cup DogPlaces \cup OwnerPlaces]
          /\ \A u \in Apps : pc'[u] \in AppPlaces
          /\ pc'[Dog] \in DogPlaces /\ pc'[Owner] \in OwnerPlaces
      <3>1. CASE pc' = pc
        BY <3>1, Zenon DEF TypeInv
      <3>2. CASE pc' = [pc EXCEPT ![t] = "release"]
        BY <1>10, <3>2, Zenon DEF TypeInv
      <3> QED  BY <1>10, <3>1, <3>2, Zenon
    <2> QED  BY <1>0, <1>10, <2>1, Zenon DEF TypeInv
  <1>2. PlaceInv'
    BY <1>10, ZenonT(60) DEF TypeInv, PlaceInv, HoldInv, OwnerInv
  <1>3. CountInv'
    BY SameCounts, Zenon
  <1>4. DogInv'
    BY DEF TypeInv, DogInv
  <1>5. RoomInv'
    BY <1>0, <1>10, SameRoom, Zenon DEF TypeInv
  <1> QED  BY <1>0, <1>1, <1>2, <1>3, <1>4, <1>5, Zenon

\* sentry_start_session first takes the current session out of the options.
LEMMA StartCallStep ==
  ASSUME IInv, NEW t \in Apps, StartCall(t)
  PROVE  IInv'
  <1> USE DEF IInv, StartCall
  <1>0. ended[t] = 0 /\ opt[t] = 0
    BY Zenon DEF TypeInv, PlaceInv, HoldInv
  <1>1. /\ session' \in [Gens -> 0 .. Len(sessions)] /\ ended' \in [Threads -> 0 .. Len(sessions)]
        /\ \A u \in Threads : u # t => ended'[u] = ended[u]
        /\ SessionInv'
    BY <1>0, EndInternalSessions, Zenon
  <1>2. TypeInv'
    BY <1>1, Zenon DEF TypeInv
  <1>3. PlaceInv'
    BY <1>0, <1>1, Zenon DEF TypeInv, PlaceInv, HoldInv, OwnerInv
  <1>4. CountInv'
    BY SameCounts, Zenon
  <1>5. DogInv'
    BY Zenon DEF TypeInv, DogInv
  <1>6. SessionsInv'
    BY Zenon DEF SessionsInv
  <1>7. RoomInv'
    <2>1. Starting' = Starting \cup {t} /\ t \notin Starting
      BY DEF TypeInv, Starting
    <2>2. Cardinality(Starting') = Cardinality(Starting) + 1 /\ Cardinality(Starting) \in Nat
      BY <2>1, CountIn, FiniteThreads, Zenon DEF Starting
    <2> QED  BY <2>2 DEF TypeInv, Room, RoomInv
  <1> QED  BY <1>1, <1>2, <1>3, <1>4, <1>5, <1>6, <1>7, Zenon

\* sentry_end_session takes the session out of the options.
LEMMA EndCallStep ==
  ASSUME IInv, NEW t \in Apps, EndCall(t)
  PROVE  IInv'
  <1> USE DEF IInv, EndCall
  <1>0. ended[t] = 0 /\ opt[t] = 0
    BY Zenon DEF TypeInv, PlaceInv, HoldInv
  <1>1. /\ session' \in [Gens -> 0 .. Len(sessions)] /\ ended' \in [Threads -> 0 .. Len(sessions)]
        /\ \A u \in Threads : u # t => ended'[u] = ended[u]
        /\ SessionInv'
    BY <1>0, EndInternalSessions, Zenon
  <1>2. TypeInv'
    BY <1>1, Zenon DEF TypeInv
  <1>3. PlaceInv'
    BY <1>0, <1>1 DEF TypeInv, PlaceInv, HoldInv, OwnerInv
  <1>4. CountInv'
    BY SameCounts, Zenon
  <1>5. DogInv'
    BY Zenon DEF TypeInv, DogInv
  <1>6. SessionsInv'
    BY Zenon DEF SessionsInv
  <1>7. RoomInv'
    BY SameRoom, Zenon DEF TypeInv
  <1> QED  BY <1>1, <1>2, <1>3, <1>4, <1>5, <1>6, <1>7, Zenon

\* The session taken out is reported, by its one owner.
LEMMA SendSessionStep ==
  ASSUME IInv, NEW t \in Apps, SendSession(t)
  PROVE  IInv'
  <1> USE DEF IInv, SendSession
  <1>0. opt[t] = 0 /\ ended' = [ended EXCEPT ![t] = 0] /\ UNCHANGED <<session, file, options>>
    BY Zenon DEF TypeInv, PlaceInv, HoldInv
  <1>10. PICK l \in {"new", "idle", "releaseStart", "releaseEnd"} : pc' = [pc EXCEPT ![t] = l]
    BY Zenon
  <1>1. /\ \A u \in Threads : ended'[u] = IF u = t THEN 0 ELSE ended[u]
        /\ ended' \in [Threads -> 0 .. Len(sessions)]
        /\ \A s : s # 0 /\ Owned(s)' => Owned(s)
    BY <1>0 DEF TypeInv, Owned
  <1>2. CountInv' /\ refs' \in [Gens -> Int] /\ opt' \in [Threads -> 0 .. inits]
    <2>1. CASE ended[t] = 0
      BY <1>0, <2>1, SameCounts, Zenon DEF TypeInv
    <2>2. CASE ended[t] # 0
      BY <1>0, <2>2, GetRefCounts, Zenon
    <2> QED  BY <2>1, <2>2, Zenon
  <1>3. /\ sessions' \in Seq(Session) /\ Len(sessions') = Len(sessions) /\ SessionsInv'
        /\ \A s \in 1 .. Len(sessions') : Owned(s)' => sessions'[s].final = 0
    <2>1. CASE ended[t] = 0 \/ options = 0
      <3>1. sessions' = sessions
        BY <2>1, Zenon
      <3> QED  BY <1>1, <3>1 DEF TypeInv, SessionInv, SessionsInv
    <2>2. CASE ended[t] # 0 /\ options # 0
      <3>1. PICK k \in 1 .. Len(sessions) : k = ended[t]
        BY <2>2 DEF TypeInv
      <3>2. sessions' = [sessions EXCEPT ![k] = Finished(@)] /\ Owned(k)
        BY <2>2, <3>1, Zenon DEF Owned
      <3>3. ~Owned(k)'
        BY <1>0, <1>1, <2>2, <3>1 DEF Owned, SessionInv
      <3> QED  BY <1>1, <3>2, <3>3, FinishedSessions, ZenonT(60)
    <2> QED  BY <2>1, <2>2, Zenon
  <1>4. SessionInv'
    BY <1>0, <1>1, <1>3 DEF SessionInv
  <1>5. TypeInv'
    BY <1>1, <1>2, <1>3, <1>10, ZenonT(60) DEF TypeInv
  <1>6. PlaceInv'
    <2>1. \A u \in Threads : u # t => opt'[u] = opt[u] /\ pc'[u] = pc[u]
      BY DEF TypeInv, GetRef
    <2>2. opt'[t] = IF ended[t] = 0 THEN 0 ELSE options
      BY <1>0 DEF TypeInv, GetRef
    <2>3. HoldInv'
      BY <1>1, <2>1, <2>2 DEF TypeInv, PlaceInv, HoldInv
    <2>4. OwnerInv'
      <3>1. pc'[Owner] = pc[Owner] /\ \A u \in Threads : opt'[u] \in {opt[u], options}
        BY <2>1, <2>2, <1>0, Zenon
      <3> QED  BY <1>0, <3>1, Zenon DEF PlaceInv, OwnerInv
    <2> QED  BY <2>3, <2>4, Zenon DEF PlaceInv
  <1>7. DogInv'
    BY Zenon DEF TypeInv, DogInv
  <1>8. RoomInv'
    BY <1>3, SameRoom, ZenonT(60) DEF TypeInv
  <1> QED  BY <1>2, <1>3, <1>4, <1>5, <1>6, <1>7, <1>8, Zenon

\* A new session is stored in the options.
LEMMA StartSessionStep ==
  ASSUME IInv, NEW t \in Apps, StartSession(t)
  PROVE  IInv'
  <1> USE DEF IInv, StartSession
  <1>0. /\ sessions' \in Seq(Session) /\ Len(sessions') \in {Len(sessions), Len(sessions) + 1}
        /\ session' \in [Gens -> 0 .. Len(sessions')]
        /\ ended' \in [Threads -> 0 .. Len(sessions')]
        /\ SessionInv' /\ SessionsInv'
    <2>1. CASE options = 0
      BY <2>1, SameSessions, Zenon DEF TypeInv, SessionsInv
    <2>2. CASE options # 0
      <3>1. options \in Gens
        BY <2>2 DEF TypeInv
      <3> QED  BY <2>2, <3>1, StartInSessions, Zenon
    <2> QED  BY <2>1, <2>2, Zenon
  <1>1. TypeInv'
    BY <1>0, Zenon DEF TypeInv
  <1>2. PlaceInv'
    BY Zenon DEF TypeInv, PlaceInv, HoldInv, OwnerInv
  <1>3. CountInv'
    BY SameCounts, Zenon
  <1>4. DogInv'
    BY Zenon DEF TypeInv, DogInv
  <1>5. RoomInv'
    <2>1. Len(sessions) \in Nat /\ MaxSessions \in Nat
      BY DEF TypeInv
    <2>2. Cardinality(Starting') = Cardinality(Starting) - 1 /\ Cardinality(Starting) \in Nat
      BY LeavesRoom, ZenonT(60)
    <2> QED  BY <1>0, <2>1, <2>2 DEF RoomInv
  <1> QED  BY <1>0, <1>1, <1>2, <1>3, <1>4, <1>5, Zenon

\* sentry_close ends the session of the options.
LEMMA CloseShutdownStep ==
  ASSUME IInv, CloseShutdown
  PROVE  IInv'
  <1> USE DEF IInv, CloseShutdown
  <1>0. PICK g \in Gens : g = options
    BY DEF TypeInv, PlaceInv, OwnerInv
  <1>1. /\ session' = [session EXCEPT ![g] = 0] /\ file' = [file EXCEPT ![g] = 0]
        /\ ended' = ended
    BY <1>0, Zenon DEF Detached, Cleared
  <1>2. /\ \A h \in Gens : session'[h] = IF h = g THEN 0 ELSE session[h]
        /\ session' \in [Gens -> 0 .. Len(sessions)]
        /\ \A s : s # 0 /\ Owned(s)' => Owned(s)
    BY <1>1 DEF TypeInv, Owned
  <1>3. /\ sessions' \in Seq(Session) /\ Len(sessions') = Len(sessions) /\ SessionsInv'
        /\ \A s \in 1 .. Len(sessions') : Owned(s)' => sessions'[s].final = 0
    <2>1. CASE session[g] = 0
      <3>1. sessions' = sessions
        BY <1>0, <2>1, Zenon DEF CloseEnd
      <3> QED  BY <1>2, <3>1 DEF TypeInv, SessionInv, SessionsInv
    <2>2. CASE session[g] # 0
      <3>1. PICK k \in 1 .. Len(sessions) : k = session[g]
        BY <2>2 DEF TypeInv
      <3>2. sessions' = [sessions EXCEPT ![k] = Finished(@)] /\ Owned(k)
        BY <1>0, <2>2, <3>1, Zenon DEF Owned, CloseEnd
      <3>3. ~Owned(k)'
        BY <1>1, <1>2, <2>2, <3>1 DEF Owned, SessionInv
      <3> QED  BY <1>2, <3>2, <3>3, FinishedSessions, ZenonT(60)
    <2> QED  BY <2>1, <2>2, Zenon
  <1>4. SessionInv'
    BY <1>1, <1>2, <1>3 DEF SessionInv
  <1>5. TypeInv'
    BY <1>1, <1>2, <1>3, Zenon DEF TypeInv
  <1>6. PlaceInv'
    BY <1>1, ZenonT(60) DEF TypeInv, PlaceInv, HoldInv, OwnerInv
  <1>7. CountInv'
    BY SameCounts, Zenon
  <1>8. DogInv'
    BY Zenon DEF TypeInv, DogInv
  <1>9. RoomInv'
    BY <1>3, SameRoom, Zenon DEF TypeInv
  <1> QED  BY <1>3, <1>4, <1>5, <1>6, <1>7, <1>8, <1>9, Zenon

\* It takes the options away and gives up the reference of g_options.
LEMMA CloseOptionsStep ==
  ASSUME IInv, CloseOptions
  PROVE  IInv'
  <1> USE DEF IInv, CloseOptions
  <1>0. PICK g \in Gens : g = options
    BY DEF TypeInv, PlaceInv, OwnerInv
  <1>1. TypeInv'
    BY <1>0 DEF TypeInv
  <1>2. PlaceInv'
    BY Zenon DEF TypeInv, PlaceInv, HoldInv, OwnerInv
  <1>3. CountInv'
    <2>1. \A h \in Gens : Holders(h)' = Holders(h) /\ Cardinality(Holders(h)) \in Nat
      BY FiniteThreads, Zenon DEF Holders
    <2>2. refs' = [refs EXCEPT ![g] = @ - 1]
      BY <1>0, Zenon
    <2> QED  BY <1>0, <2>1, <2>2 DEF TypeInv, CountInv
  <1>4. DogInv'
    BY Zenon DEF TypeInv, DogInv
  <1>5. SessionInv'
    BY SameSessions, Zenon
  <1>6. SessionsInv'
    BY Zenon DEF SessionsInv
  <1>7. RoomInv'
    BY SameRoom, Zenon DEF TypeInv
  <1> QED  BY <1>1, <1>2, <1>3, <1>4, <1>5, <1>6, <1>7, Zenon

\* sentry_init publishes its options, with one reference.
LEMMA InitOptionsStep ==
  ASSUME IInv, InitOptions
  PROVE  IInv'
  <1> USE DEF IInv, InitOptions
  <1>0. inits \in Gens /\ options = 0 /\ \A t \in Threads : opt[t] # inits
    BY DEF TypeInv, PlaceInv, OwnerInv
  <1>1. TypeInv'
    BY <1>0 DEF TypeInv
  <1>2. PlaceInv'
    BY <1>0, Zenon DEF TypeInv, PlaceInv, HoldInv, OwnerInv
  <1>3. CountInv'
    <2>1. \A h \in Gens : Holders(h)' = Holders(h) /\ Cardinality(Holders(h)) \in Nat
      BY FiniteThreads, Zenon DEF Holders
    <2>2. Cardinality(Holders(inits)) = 0
      <3>1. Holders(inits) = {}
        BY <1>0, Zenon DEF Holders
      <3> QED  BY <3>1, FS_EmptySet, Zenon
    <2> QED  BY <1>0, <2>1, <2>2 DEF TypeInv, CountInv
  <1>4. DogInv'
    BY <1>0, Zenon DEF TypeInv, DogInv
  <1>5. SessionInv'
    BY SameSessions, Zenon
  <1>6. SessionsInv'
    BY Zenon DEF SessionsInv
  <1>7. RoomInv'
    BY SameRoom, Zenon DEF TypeInv
  <1> QED  BY <1>1, <1>2, <1>3, <1>4, <1>5, <1>6, <1>7, Zenon

\* It may start a session and the watchdog, and returns.
LEMMA InitFinishStep ==
  ASSUME IInv, InitFinish
  PROVE  IInv'
  <1> USE DEF IInv, InitFinish
  <1>0. options \in Gens /\ options = inits
    BY DEF TypeInv, PlaceInv, OwnerInv
  <1>10. /\ pc[Owner] = "finish" /\ pc'[Owner] = "idle" /\ pc'[Dog] \in {pc[Dog], "loop"}
         /\ \A t \in Apps : pc'[t] = pc[t]
         /\ pc' \in [Threads -> AppPlaces \cup DogPlaces \cup OwnerPlaces]
    BY DEF TypeInv
  <1>1. /\ sessions' \in Seq(Session)
        /\ session' \in [Gens -> 0 .. Len(sessions')]
        /\ ended' \in [Threads -> 0 .. Len(sessions')]
        /\ Len(sessions') = Len(sessions) \/ (Room /\ Len(sessions') = Len(sessions) + 1)
        /\ SessionInv' /\ SessionsInv'
    <2>1. CASE UNCHANGED state
      BY <2>1, SameSessions, Zenon DEF TypeInv, SessionsInv
    <2>2. CASE Room /\ StartIn(options)
      BY <1>0, <2>2, StartInSessions, Zenon
    <2> QED  BY <2>1, <2>2, Zenon
  <1>2. TypeInv'
    BY <1>1, <1>10, Zenon DEF TypeInv
  <1>3. PlaceInv'
    <2>1. pc[Dog] \in {"gone", "loop"}
      BY <1>10, Zenon DEF TypeInv, DogInv
    <2>2. \A t \in Threads : t \in Apps \/ t = Owner \/ t = Dog
      BY Zenon
    <2>3. HoldInv'
      BY <1>10, <2>1, <2>2, Zenon DEF PlaceInv, HoldInv
    <2>4. OwnerInv'
      BY <1>0, <1>10, Zenon DEF PlaceInv, OwnerInv
    <2> QED  BY <2>3, <2>4, Zenon DEF PlaceInv
  <1>4. CountInv'
    BY SameCounts, Zenon
  <1>5. DogInv'
    BY <1>0, Zenon DEF TypeInv, PlaceInv, OwnerInv, DogInv
  <1>6. RoomInv'
    <2>1. Starting' = Starting
      BY Zenon DEF TypeInv, Starting
    <2>2. Cardinality(Starting) \in Nat /\ Len(sessions) \in Nat
      BY FiniteThreads DEF Starting, TypeInv
    <2> QED  BY <1>1, <2>1, <2>2 DEF RoomInv, Room
  <1> QED  BY <1>1, <1>2, <1>3, <1>4, <1>5, <1>6, Zenon

(***************************************************************************)
(* The theorems.                                                           *)
(***************************************************************************)
LEMMA CoreInit == Init => IInv
  <1> SUFFICES ASSUME Init PROVE IInv
    OBVIOUS
  <1> USE DEF Init
  <1>1. TypeInv /\ PlaceInv /\ DogInv /\ SessionInv /\ SessionsInv
    <2>1. TypeInv
      <3>1. sessions \in Seq(Session) /\ Len(sessions) = 0
        OBVIOUS
      <3>2. /\ pc \in [Threads -> AppPlaces \cup DogPlaces \cup OwnerPlaces]
            /\ \A t \in Apps : pc[t] \in AppPlaces
            /\ pc[Dog] \in DogPlaces /\ pc[Owner] \in OwnerPlaces
        BY Zenon
      <3>3. /\ session \in [Gens -> 0 .. 0] /\ opt \in [Threads -> 0 .. 0]
            /\ ended \in [Threads -> 0 .. 0] /\ refs \in [Gens -> Int]
        OBVIOUS
      <3>4. /\ lock \in {"free", Owner} /\ inits = 0 /\ captures = 0 /\ options = 0
            /\ op \in {"none", "init", "close"}
            /\ active \in BOOLEAN /\ running \in BOOLEAN /\ crashed \in BOOLEAN
        BY Zenon
      <3> HIDE DEF Init
      <3> QED  BY <3>1, <3>2, <3>3, <3>4 DEF TypeInv
    <2>2. PlaceInv /\ DogInv
      BY Zenon DEF PlaceInv, HoldInv, OwnerInv, DogInv
    <2>3. SessionInv /\ SessionsInv
      BY DEF SessionInv, SessionsInv
    <2> QED  BY <2>1, <2>2, <2>3, Zenon
  <1>2. CountInv
    <2>1. ASSUME NEW g \in Gens PROVE Cardinality(Holders(g)) = 0
      <3>1. Holders(g) = {}
        BY DEF Holders
      <3> QED  BY <3>1, FS_EmptySet, Zenon
    <2> QED  BY <2>1 DEF CountInv
  <1>3. RoomInv
    <2>1. Starting = {}
      BY Zenon DEF Starting
    <2> QED  BY <2>1, FS_EmptySet DEF RoomInv
  <1> QED  BY <1>1, <1>2, <1>3, Zenon DEF IInv

\* Every step keeps the invariant.
LEMMA CoreNext ==
  ASSUME IInv, [Next]_vars
  PROVE  IInv'
  <1>1. ASSUME NEW t \in Threads, CaptureBegin(t) \/ Capture(t)
        PROVE  IInv'
    BY <1>1, CaptureBeginStep, PrepareStep, LookStep, AddSessionStep, CaptureEndStep, Zenon
       DEF Capture
  <1>2. ASSUME NEW t \in Apps, StartCall(t) \/ EndCall(t) \/ SessionStep(t)
        PROVE  IInv'
    BY <1>2, StartCallStep, EndCallStep, SendSessionStep, SentSessionStep, StartSessionStep, Zenon
       DEF SessionStep
  <1>3. CASE WatchdogExit \/ InitCall \/ CloseCall
    BY <1>3, WatchdogExitStep, InitCallStep, CloseCallStep, Zenon
  <1>4. CASE OwnerStep
    BY <1>4, StopStep, JoinStep, InitLockStep, CloseTelemetryStep, CloseTelemetryDoneStep,
       CloseLockStep, CloseShutdownStep, CloseOptionsStep, ClosedStep, InitFailStep,
       InitOptionsStep, InitFinishStep, Zenon DEF OwnerStep
  <1>5. CASE UNCHANGED vars
    <2>1. TypeInv'
      BY <1>5 DEF IInv, TypeInv
    <2>2. PlaceInv' /\ DogInv'
      BY <1>5, Zenon DEF IInv, PlaceInv, HoldInv, OwnerInv, DogInv
    <2>3. SessionsInv'
      BY <1>5, Zenon DEF IInv, SessionsInv
    <2>4. CountInv' /\ SessionInv' /\ RoomInv'
      BY <1>5, SameCounts, SameSessions, SameRoom, Zenon DEF IInv
    <2> QED  BY <2>1, <2>2, <2>3, <2>4, Zenon DEF IInv
  <1> QED  BY <1>1, <1>2, <1>3, <1>4, <1>5, Zenon DEF Next

\* The invariant holds in every reachable state.
THEOREM CoreInvariant == Spec => []IInv
  <1>1. Init => IInv
    BY CoreInit
  <1>2. IInv /\ [Next]_vars => IInv'
    BY CoreNext, Zenon
  <1> QED  BY <1>1, <1>2, PTL DEF Spec

\* The invariant implies what is promised.
LEMMA InvSafe ==
  ASSUME IInv
  PROVE  LifeCycleSafe
  <1> USE DEF IInv
  <1>1. \A g \in Gens : /\ Cardinality(Holders(g)) \in Nat
                        /\ Cardinality(Holders(g)) <= Cardinality(Threads)
    BY FiniteThreads, Zenon DEF Holders
  <1>2. Cardinality(Threads) \in Nat
    BY FiniteThreads, Zenon
  <1>3. Cardinality(Starting) \in Nat /\ Len(sessions) \in Nat
    BY FiniteThreads DEF Starting, TypeInv
  <1>4. OptionsCounted
    <2>0. \A g \in Gens : refs[g] \in 0 .. Cardinality(Threads) + 1
      BY <1>1, <1>2 DEF CountInv
    <2>1. refs \in [Gens -> 0 .. Cardinality(Threads) + 1]
      BY <2>0, Zenon DEF TypeInv
    <2>2. Len(sessions) <= MaxSessions
      BY <1>3 DEF RoomInv
    <2>3. {session, file} \subseteq [Gens -> 0 .. Len(sessions)]
      BY Zenon DEF TypeInv, SessionInv
    <2>4. TypeOK
      BY <2>1, <2>2, <2>3, Zenon DEF TypeInv, TypeOK
    <2> QED  BY <2>4, Zenon DEF OptionsCounted, CountInv, Holders
  <1>5. ReportedOnce
    <2>1. ASSUME NEW s \in 1 .. Len(sessions)
          PROVE  sessions[s].final <= 1 /\ (Owned(s) => sessions[s].final = 0)
      BY Zenon DEF SessionInv, SessionsInv, SoundSession
    <2> QED  BY <2>1 DEF SessionInv, Owned, ReportedOnce
  <1>6. InitFirst
    <2>1. ASSUME NEW s \in 1 .. Len(sessions)
          PROVE  /\ sessions[s].first <= 1 /\ (sessions[s].later > 0 => sessions[s].first = 1)
                 /\ sessions[s].final = 1 => sessions[s].reported = sessions[s].errors
      <3>1. sessions[s] \in Session /\ SoundSession(sessions[s])
        BY DEF TypeInv, SessionsInv
      <3> QED  BY <3>1 DEF Session, SoundSession
    <2> QED  BY <2>1, Zenon DEF InitFirst
  <1>7. WatchdogStopped
    BY Zenon DEF DogInv, WatchdogStopped
  <1> QED  BY <1>4, <1>5, <1>6, <1>7 DEF LifeCycleSafe

\* However captures, sessions, the watchdog, sentry_close and re-inits overlap,
\* and for any number of threads: the options are counted exactly and freed once,
\* a session is reported at most once and with all its errors, its first update
\* and no other carries the init flag, and no watchdog outlives its options.
THEOREM CoreLifeCycleSafe == Spec => []LifeCycleSafe
  <1>1. IInv => LifeCycleSafe
    BY InvSafe
  <1> QED  BY <1>1, CoreInvariant, PTL
=============================================================================
