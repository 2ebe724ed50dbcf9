------------------------ MODULE AgentThreadsProofs ------------------------
(***************************************************************************)
(* Four invariants and an action property of AgentThreads for every number *)
(* of windows, threads, inputs, tool calls, prunes, failures and crashes:  *)
(* no thread is left Processing between messages, a call the user took     *)
(* back never runs, a prompt on the screen can be answered until it is,    *)
(* conversations stay what they were, in memory and in the database, and   *)
(* /redo does not take them back.                                          *)
(*                                                                         *)
(* Turns do not matter for the first three, so their inductive invariants  *)
(* only ask sessions to have the right shape and say nothing of what they  *)
(* hold.  The fourth follows the turns through every list that keeps them: *)
(* threads, undo stacks, rows, the writers at work and what was hydrated.  *)
(* The property of /redo adds how old the entries of the undo stacks are.  *)
(***************************************************************************)
EXTENDS AgentThreads, SiftLemmas

ThreadFields == {"st", "turns", "pend"}
SessionFields == {"there", "th", "auto", "stale"}
HandlerFields == {"pc", "ext", "s", "t", "hist", "in", "save", "calls", "iter", "texec"}

\* A session as far as the proofs look into it.
SessionOK(sn) ==
    /\ SessionFields \subseteq DOMAIN sn
    /\ sn.there \subseteq Thr
    /\ sn.th = [t \in Thr |-> sn.th[t]]
    /\ \A t \in Thr : ThreadFields \subseteq DOMAIN sn.th[t]

Shape == ses = [s \in Sess |-> ses[s]] /\ \A s \in Sess : SessionOK(ses[s])

InTurn == h.pc \in {"loop", "tools"}

HandlerOK ==
    /\ cur \in Sess \cup {NoSess}
    /\ HandlerFields \subseteq DOMAIN h
    /\ h.pc \in PC
    /\ h.pc \notin {"idle", "hydrate", "resolve"} => h.s \in Sess
    /\ h.pc \in {"hydrate", "insert"} => Parse[h.ext] \in Thr
    /\ h.pc \in {"mapthread", "undomgr", "dispatch", "loop", "tools"} => h.t \in Thr

\* Only the thread of the turn in hand is Processing.
OnlyTurn ==
    \A s \in Sess, t \in Thr :
        ses[s].th[t].st = "Processing" => InTurn /\ s = h.s /\ t = h.t

Awaits(s, t) == ses[s].th[t].st = "AwaitingApproval"
Req(s, t) == ses[s].th[t].pend.id

\* A request that is awaited is neither revoked nor run, and nobody else's.
Asked ==
    /\ nreq \in Nat /\ revoked \subseteq 1..nreq /\ ran \subseteq 1..nreq
    /\ revoked \cap ran = {}
    /\ \A s \in Sess, t \in Thr :
          Awaits(s, t) => Req(s, t) \in 1..nreq /\ Req(s, t) \notin revoked \cup ran
    /\ \A s1, s2 \in Sess, t1, t2 \in Thr :
          Awaits(s1, t1) /\ Awaits(s2, t2) /\ Req(s1, t1) = Req(s2, t2) => s1 = s2 /\ t1 = t2

IInv == Shape /\ HandlerOK /\ OnlyTurn /\ Asked

Valid(e) == Parse[e] # NoThread

\* A prompt that is shown: its window leads to the thread that awaits it.
Answerable(e) ==
    /\ cur # NoSess /\ map[e] \in ses[cur].there
    /\ ses[cur].th[map[e]].st = "AwaitingApproval"
    /\ ses[cur].th[map[e]].pend.id = shown[e]

PromptsOK == shown = [e \in Ext |-> shown[e]]
             /\ \A e \in Ext : shown[e] # 0 => Answerable(e)

\* A thread id in canonical form leads to the thread of that id or nowhere, and the
\* threads that were hydrated are found by it.
KeysOK ==
    /\ map = [k \in Keys |-> map[k]]
    /\ \A e \in Ext : Valid(e) /\ Canon[e] = e => map[e] \in {NoThread, Parse[e]}
    /\ cur # NoSess =>
          \A e \in Ext : Valid(e) /\ Parse[e] \in ses[cur].there =>
              map[Canon[e]] = Parse[e] \/ (h.pc = "regmap" /\ Parse[h.ext] = Parse[e])

\* Where the handler is on the way to a thread of the user's session.
WayOK ==
    /\ h.pc # "idle" => h.ext \in Ext
    /\ h.pc \notin {"idle", "hydrate", "resolve"} => h.s = cur
    /\ h.pc = "insert" => Parse[h.ext] \notin ses[cur].there
    /\ h.pc \in {"regmap", "regsess"} => Valid(h.ext)
    /\ h.pc \in {"regmap", "regsess", "resolve", "find"} /\ Valid(h.ext) =>
          cur # NoSess /\ Parse[h.ext] \in ses[cur].there
    /\ h.pc = "mapthread" =>
          map[h.ext] \notin ses[cur].there /\ (Valid(h.ext) => Canon[h.ext] # h.ext)
    /\ h.pc \in {"mapthread", "undomgr", "dispatch", "loop", "tools"} => h.t \in ses[cur].there
    /\ InTurn => T.st = "Processing"

\* The pruner works between messages.
PrunerOK == /\ p.pc # "idle" => h.pc = "idle"
            /\ p.pc = "unmap" => cur = NoSess

\* As long as no prune overlaps with a message.
PromptInv == ~raced => PromptsOK /\ KeysOK /\ WayOK /\ PrunerOK

-----------------------------------------------------------------------------
(* What the steps do to threads *)

\* Threads stay, or are new.
Quiet == \A s \in Sess, t \in Thr :
            ses'[s].th[t] = ses[s].th[t] \/ ses'[s].th[t].st = "Idle"

\* The same, but the thread in hand becomes th.
Changes(th) == \A s \in Sess, t \in Thr :
            \/ ses'[s].th[t].st = "Idle"
            \/ s = h.s /\ t = h.t /\ ses'[s].th[t] = th
            \/ ~(s = h.s /\ t = h.t) /\ ses'[s].th[t] = ses[s].th[t]

\* A new session has the right shape, and its threads are idle.
LEMMA NewSessionOK == SessionOK(NewSession) /\ \A t \in Thr :
    NewSession.th[t] = NewThread /\ NewThread.st = "Idle"
  BY DEF NewSession, NewThread, SessionOK, SessionFields, ThreadFields

\* Session::create_thread keeps the shape and the other threads.
LEMMA CreateOK ==
  ASSUME NEW sn, SessionOK(sn), NEW t \in Thr
  PROVE  /\ SessionOK(create_thread(sn, t))
         /\ \A u \in Thr : create_thread(sn, t).th[u] = IF u = t THEN NewThread ELSE sn.th[u]
  BY DEF create_thread, SessionOK, SessionFields, ThreadFields, NewThread

Put(a, b, th) == [ses EXCEPT ![a].th[b] = th]

\* Writing one thread of one session keeps the shape and the other threads.
LEMMA PutOK ==
  ASSUME Shape, NEW a \in Sess, NEW b \in Thr, NEW th, ThreadFields \subseteq DOMAIN th
  PROVE  /\ Put(a, b, th) = [s \in Sess |-> Put(a, b, th)[s]]
         /\ \A s \in Sess : SessionOK(Put(a, b, th)[s])
         /\ \A s \in Sess, t \in Thr :
               Put(a, b, th)[s].th[t] = IF s = a /\ t = b THEN th ELSE ses[s].th[t]
<1> DEFINE new == Put(a, b, th)
<1>1. new = [s \in Sess |-> new[s]] /\ \A s \in Sess : s # a => new[s] = ses[s]
  BY DEF Shape, Put
<1>2. new[a] = [ses[a] EXCEPT !.th[b] = th]
  BY DEF Shape, Put
<1>3. SessionOK(new[a])
  BY <1>2 DEF Shape, SessionOK, SessionFields
<1>4. \A t \in Thr : new[a].th[t] = IF t = b THEN th ELSE ses[a].th[t]
  BY <1>2 DEF Shape, SessionOK, SessionFields
<1> HIDE DEF new
<1>5. \A s \in Sess : SessionOK(new[s])
  BY <1>1, <1>3 DEF Shape
<1>6. \A s \in Sess, t \in Thr : new[s].th[t] = IF s = a /\ t = b THEN th ELSE ses[s].th[t]
  BY <1>1, <1>4
<1>7. QED
  BY <1>1, <1>5, <1>6 DEF new

\* get_or_create_session: a session of the user, new or the one there was.
LEMMA SessionLookup ==
  ASSUME Shape, HandlerOK
  PROVE  /\ SessId \in Sess
         /\ SesWith = [s \in Sess |-> SesWith[s]] /\ \A s \in Sess : SessionOK(SesWith[s])
         /\ \A s \in Sess, t \in Thr :
                SesWith[s].th[t] = ses[s].th[t] \/ SesWith[s].th[t].st = "Idle"
<1>1. SessId \in Sess
  BY ExtAssumption DEF SessId, HandlerOK
<1>2. QED
  BY <1>1, NewSessionOK DEF SesWith, Shape

\* The end of a message.
LEMMA FinishOK ==
  ASSUME Shape, h.s \in Sess, h.t \in Thr, NEW th, ThreadFields \subseteq DOMAIN th, Finish(th)
  PROVE  Shape' /\ Changes(th)
<1> DEFINE new == Put(h.s, h.t, th)
<1>1. /\ new = [s \in Sess |-> new[s]] /\ \A s \in Sess : SessionOK(new[s])
      /\ \A s \in Sess, t \in Thr : new[s].th[t] =
             IF s = h.s /\ t = h.t THEN th ELSE ses[s].th[t]
  BY PutOK
<1>2. ses' = [s \in Sess |-> IF s = cur THEN new[s] ELSE NewSession]
  BY DEF Finish, Put
<1> HIDE DEF new
<1>3. Shape'
  BY <1>1, <1>2, NewSessionOK DEF Shape
<1>4. Changes(th)
  BY <1>1, <1>2, NewSessionOK DEF Changes
<1>5. QED
  BY <1>3, <1>4

-----------------------------------------------------------------------------
(* What such steps do to the invariant *)

\* A step that only adds idle threads, and does not leave a turn.
LEMMA QuietKeeps ==
  ASSUME OnlyTurn, Asked, Quiet, UNCHANGED <<nreq, revoked, ran>>,
         InTurn => InTurn' /\ h'.s = h.s /\ h'.t = h.t
  PROVE  OnlyTurn' /\ Asked'
<1>1. OnlyTurn'
  BY DEF OnlyTurn, Quiet
<1>2. \A s \in Sess, t \in Thr : Awaits(s, t)' => Awaits(s, t) /\ Req(s, t)' = Req(s, t)
  BY DEF Quiet, Awaits, Req
<1>3. Asked'
  BY <1>2 DEF Asked
<1>4. QED
  BY <1>1, <1>3

\* A step on the thread in hand that leaves the turn, or stays in it.
LEMMA TurnKeeps ==
  ASSUME OnlyTurn, NEW th, Changes(th),
         th.st = "Processing" => InTurn' /\ h'.s = h.s /\ h'.t = h.t
  PROVE  OnlyTurn'
  BY DEF OnlyTurn, Changes

\* A step that does not make the thread in hand await another request.
LEMMA SameRequest ==
  ASSUME Asked, NEW th, Changes(th), UNCHANGED <<nreq, revoked, ran>>, h.s \in Sess, h.t \in Thr,
         th.st = "AwaitingApproval" => T.st = "AwaitingApproval" /\ th.pend.id = T.pend.id
  PROVE  Asked'
<1>1. \A s \in Sess, t \in Thr : Awaits(s, t)' => Awaits(s, t) /\ Req(s, t)' = Req(s, t)
  BY DEF Changes, Awaits, Req, T
<1>2. QED
  BY <1>1 DEF Asked

\* A step in which the user takes back what the thread in hand awaits.
LEMMA RevokedRequest ==
  ASSUME Asked, NEW th, Changes(th), th.st # "AwaitingApproval", Revoke, UNCHANGED nreq,
         h.s \in Sess, h.t \in Thr
  PROVE  Asked'
<1>1. \A s \in Sess, t \in Thr : Awaits(s, t)' => /\ Awaits(s, t) /\ Req(s, t)' = Req(s, t)
                                                  /\ ~(s = h.s /\ t = h.t)
  BY DEF Changes, Awaits, Req, T
<1>2. ran' = ran
  BY DEF Revoke
<1>3. CASE Awaits(h.s, h.t)
  <2>1. revoked' = revoked \cup {Req(h.s, h.t)}
    <3>1. Req(h.s, h.t) # 0
      BY <1>3 DEF Asked
    <3> QED BY <1>3, <3>1 DEF Revoke, Awaits, Req, T
  <2>2. Req(h.s, h.t) \in 1..nreq /\ Req(h.s, h.t) \notin ran
    BY <1>3 DEF Asked
  <2>3. \A s \in Sess, t \in Thr : Awaits(s, t)' => Req(s, t)' # Req(h.s, h.t)
    BY <1>1, <1>3 DEF Asked
  <2>4. nreq' \in Nat /\ revoked' \subseteq 1..nreq' /\ ran' \subseteq 1..nreq' /\
            revoked' \cap ran' = {}
    BY <1>2, <2>1, <2>2 DEF Asked
  <2>5. \A s \in Sess, t \in Thr :
           Awaits(s, t)' => Req(s, t)' \in 1..nreq' /\ Req(s, t)' \notin revoked' \cup ran'
    BY <1>1, <1>2, <2>1, <2>3 DEF Asked
  <2>6. QED
    BY <1>1, <2>4, <2>5 DEF Asked
<1>4. CASE ~Awaits(h.s, h.t)
  <2>1. revoked' = revoked
    BY <1>4 DEF Revoke, Awaits, T
  <2>2. QED
    BY <1>1, <1>2, <2>1 DEF Asked
<1>5. QED
  BY <1>3, <1>4

-----------------------------------------------------------------------------
(* The steps *)

\* The invariant holds when the process starts.
LEMMA InitOK == Init => IInv
<1> SUFFICES ASSUME Init PROVE IInv
  OBVIOUS
<1>1. Shape /\ \A s \in Sess, t \in Thr : ses[s].th[t].st = "Idle"
  BY NewSessionOK DEF Init, Shape
<1>2. HandlerOK
  BY DEF Init, HandlerOK, Waiting, HandlerFields, PC
<1>3. OnlyTurn /\ Asked
  BY <1>1 DEF Init, OnlyTurn, Asked, Awaits
<1>4. QED
  BY <1>1, <1>2, <1>3 DEF IInv

\* Steps that leave sessions and handler alone.
LEMMA Aside ==
  ASSUME IInv, UNCHANGED <<cur, ses, h, nreq, revoked, ran>>
  PROVE  IInv'
  BY DEF IInv, Shape, HandlerOK, OnlyTurn, InTurn, Asked, Awaits, Req

\* handle_message up to the dispatch, from every place hydration can be in.
LEMMA ResolveOK ==
  ASSUME IInv,
         \/ \E e \in Ext : Receive(e)
         \/ \E ok \in BOOLEAN : HydrateRead(ok)
         \/ HydrateInsert \/ RegisterMap \/ RegisterSession
         \/ ResolveSession \/ ResolveFind \/ ResolveMap \/ ResolveUndo
  PROVE  IInv'
<1> USE DEF IInv
<1>0. UNCHANGED <<nreq, revoked, ran>>
  BY DEF Receive, HydrateRead, HydrateInsert, RegisterMap, RegisterSession,
         ResolveSession, ResolveFind, ResolveMap, ResolveUndo, counts, asked, history
<1>q. ~InTurn
  BY DEF Receive, HydrateRead, HydrateInsert, RegisterMap, RegisterSession,
         ResolveSession, ResolveFind, ResolveMap, ResolveUndo, InTurn
<1>f. SUFFICES Shape' /\ Quiet /\ HandlerOK'
  BY <1>0, <1>q, QuietKeeps
<1>1. CASE \E e \in Ext : Receive(e)
  <2>1. Shape' /\ Quiet
    BY <1>1 DEF Receive, memory, Shape, Quiet
  <2>2. HandlerOK'
    <3>1. PICK e \in Ext : Receive(e)
      BY <1>1
    <3>2. Parse[e] \in Thr \/ Parse[e] = NoThread
      BY ExtAssumption
    <3>3. /\ cur' = cur /\ HandlerFields \subseteq DOMAIN h' /\ h'.ext = e
          /\ h'.pc = IF Parse[e] = NoThread THEN "resolve" ELSE "hydrate"
      BY <3>1 DEF Receive, memory, Waiting, HandlerFields
    <3>4. QED
      BY <3>2, <3>3 DEF HandlerOK, PC
  <2>3. QED
    BY <2>1, <2>2
<1>2. CASE \E ok \in BOOLEAN : HydrateRead(ok)
  <2>1. ses' = SesWith /\ cur' = SessId
    BY <1>2 DEF HydrateRead
  <2>2. Shape' /\ Quiet
    BY <2>1, SessionLookup DEF Shape, Quiet
  <2>3. HandlerOK'
    BY <1>2, <2>1, SessionLookup DEF HydrateRead, HandlerOK, HandlerFields, PC
  <2>4. QED
    BY <2>2, <2>3
<1>3. CASE HydrateInsert
  <2> DEFINE t0 == Parse[h.ext]
             turns0 == restore_from_messages(h.hist)
             sn == create_thread(ses[h.s], t0)
  <2>1. h.s \in Sess /\ t0 \in Thr
    BY <1>3 DEF HydrateInsert, HandlerOK
  <2>2. ses' = [ses EXCEPT ![h.s] = [create_thread(ses[h.s], t0) EXCEPT
                                        !.th[t0].turns = restore_from_messages(h.hist)]]
    BY <1>3, <2>1 DEF HydrateInsert, Shape
  <2>3. Shape' /\ Quiet
    <3> DEFINE new == [create_thread(ses[h.s], t0) EXCEPT !.th[t0].turns = restore_from_messages(h.hist)]
    <3>1. SessionOK(sn) /\ \A t \in Thr :
              sn.th[t] = IF t = t0 THEN NewThread ELSE ses[h.s].th[t]
      BY <2>1, CreateOK DEF Shape
    <3>2. new = [sn EXCEPT !.th = [sn.th EXCEPT ![t0] = [sn.th[t0] EXCEPT !.turns = turns0]]]
      OBVIOUS
    <3> HIDE DEF new, sn, turns0
    <3>3. SessionOK(new)
      BY <2>1, <3>1, <3>2 DEF SessionOK, SessionFields, ThreadFields
    <3>4. \A t \in Thr : new.th[t] = ses[h.s].th[t] \/ new.th[t].st = "Idle"
      BY <2>1, <3>1, <3>2 DEF SessionOK, SessionFields, ThreadFields, NewThread
    <3>5. ses' = [ses EXCEPT ![h.s] = new]
      BY <2>2 DEF new
    <3>6. QED
      BY <2>1, <3>3, <3>4, <3>5 DEF Shape, Quiet
  <2>4. HandlerOK'
    BY <1>3 DEF HydrateInsert, HandlerOK, HandlerFields, PC
  <2>5. QED
    BY <2>3, <2>4
<1>4. CASE RegisterMap \/ ResolveMap \/ ResolveUndo
  <2>1. Shape' /\ Quiet
    BY <1>4 DEF RegisterMap, ResolveMap, ResolveUndo, Shape, Quiet
  <2>2. HandlerOK'
    BY <1>4 DEF RegisterMap, ResolveMap, ResolveUndo, Go, HandlerOK, HandlerFields, PC
  <2>3. QED
    BY <2>1, <2>2
<1>5. CASE RegisterSession
  <2>1. Shape' /\ Quiet
    BY <1>5 DEF RegisterSession, Shape, Quiet
  <2>2. HandlerOK'
    BY <1>5 DEF RegisterSession, Go, HandlerOK, HandlerFields, PC
  <2>3. QED
    BY <2>1, <2>2
<1>6. CASE ResolveSession
  <2>1. ses' = SesWith /\ cur' = SessId
    BY <1>6 DEF ResolveSession
  <2>2. Shape' /\ Quiet
    BY <2>1, SessionLookup DEF Shape, Quiet
  <2>3. HandlerOK'
    BY <1>6, <2>1, SessionLookup DEF ResolveSession, HandlerOK, HandlerFields, PC
  <2>4. QED
    BY <2>2, <2>3
<1>7. CASE ResolveFind
  <2>1. h.s \in Sess
    BY <1>7 DEF ResolveFind, HandlerOK
  <2>2. CASE map[h.ext] \in ses[h.s].there
    <3>1. Shape' /\ Quiet
      BY <1>7, <2>2 DEF ResolveFind, Shape, Quiet
    <3>2. map[h.ext] \in Thr
      BY <2>1, <2>2 DEF Shape, SessionOK
    <3>3. HandlerOK'
      BY <1>7, <2>1, <2>2, <3>2 DEF ResolveFind, HandlerOK, HandlerFields, PC
    <3>4. QED
      BY <3>1, <3>3
  <2>3. CASE map[h.ext] \notin ses[h.s].there
    <3>1. NewId \in Thr
      BY <1>7, <2>3 DEF ResolveFind, NewId, Unused, Thr
    <3>2. ses' = [ses EXCEPT ![h.s] = create_thread(ses[h.s], NewId)]
      BY <1>7, <2>1, <2>3 DEF ResolveFind, Shape
    <3>3. Shape' /\ Quiet
      BY <2>1, <3>1, <3>2, CreateOK, NewSessionOK DEF Shape, Quiet
    <3>4. HandlerOK'
      BY <1>7, <2>1, <2>3, <3>1 DEF ResolveFind, HandlerOK, HandlerFields, PC
    <3>5. QED
      BY <3>3, <3>4
  <2>4. QED
    BY <2>2, <2>3
<1>8. QED
  BY <1>1, <1>2, <1>3, <1>4, <1>5, <1>6, <1>7

\* Every command and every answer to a prompt.
LEMMA CommandOK ==
  ASSUME IInv, Command
  PROVE  IInv'
<1> USE DEF IInv
<1>0. h.pc = "dispatch" /\ h.s \in Sess /\ h.t \in Thr /\ ~InTurn
  BY DEF Command, ProcessUndo, ProcessRedo, ProcessResume, ProcessInterrupt, ProcessCompact,
         ProcessClear, ProcessNewThread, ProcessSwitchThread, ProcessOther, AnswerMissed,
         Denied, Approved, HandlerOK, InTurn
<1>1. ThreadFields \subseteq DOMAIN T /\ T.st # "Processing"
  BY <1>0 DEF T, Shape, SessionOK, OnlyTurn
<1>2. ASSUME NEW th, Finish(th), UNCHANGED cur PROVE HandlerOK'
  BY <1>2 DEF Finish, Waiting, HandlerOK, HandlerFields, PC
\* Taking the thread to a state without a request.
<1>3. ASSUME NEW th, Finish(th), Revoke, UNCHANGED <<cur, nreq>>,
             ThreadFields \subseteq DOMAIN th, th.st \in {"Idle", "Interrupted"}
      PROVE  IInv'
  <2>1. Shape' /\ Changes(th)
    BY <1>0, <1>3, FinishOK
  <2>2. OnlyTurn'
    BY <1>3, <2>1, TurnKeeps
  <2>3. Asked'
    BY <1>0, <1>3, <2>1, RevokedRequest
  <2>4. QED
    BY <1>2, <1>3, <2>1, <2>2, <2>3
\* Leaving its state as it is.
<1>4. ASSUME NEW th, Finish(th), UNCHANGED <<cur, nreq, revoked, ran>>,
             ThreadFields \subseteq DOMAIN th, th.st = T.st, th.pend = T.pend
      PROVE  IInv'
  <2>1. Shape' /\ Changes(th)
    BY <1>0, <1>4, FinishOK
  <2>2. OnlyTurn'
    BY <1>1, <1>4, <2>1, TurnKeeps
  <2>3. Asked'
    BY <1>0, <1>4, <2>1, SameRequest
  <2>4. QED
    BY <1>2, <1>4, <2>1, <2>2, <2>3
\* /new and /thread.
<1>5. ASSUME NEW sn, OnSession(sn), SessionOK(sn),
             \A t \in Thr : sn.th[t] = SesWith[SessId].th[t] \/ sn.th[t].st = "Idle"
      PROVE  IInv'
  <2>1. SessId \in Sess /\ cur' = SessId /\ h' = Waiting
        /\ ses' = [s \in Sess |-> IF s = SessId THEN sn ELSE NewSession]
        /\ UNCHANGED <<nreq, revoked, ran>>
    BY <1>5, SessionLookup DEF OnSession, counts, history, asked
  <2>2. Shape'
    BY <1>5, <2>1, NewSessionOK DEF Shape
  <2>3. \A t \in Thr : sn.th[t] = ses[SessId].th[t] \/ sn.th[t].st = "Idle"
    BY <1>5, <2>1, SessionLookup
  <2>4. Quiet
    BY <2>1, <2>3, NewSessionOK DEF Quiet
  <2>5. HandlerOK'
    BY <2>1 DEF Waiting, HandlerOK, HandlerFields, PC
  <2>6. QED
    BY <1>0, <2>1, <2>2, <2>4, <2>5, QuietKeeps
<1>6. ASSUME NEW m, Restore(m) PROVE IInv'
  <2> DEFINE th == [T EXCEPT !.st = "Idle", !.turns = restore_from_messages(m)]
  <2>1. ThreadFields \subseteq DOMAIN th /\ th.st = "Idle"
    BY <1>1 DEF ThreadFields
  <2>2. Finish(th) /\ Revoke /\ UNCHANGED <<cur, nreq>>
    BY <1>6 DEF Restore, counts
  <2> HIDE DEF th
  <2>3. QED
    BY <1>3, <2>1, <2>2
<1>7. CASE ProcessUndo \/ ProcessRedo \/ \E j \in 1..MaxCheckpoints : ProcessResume(j)
  BY <1>6, <1>7 DEF ProcessUndo, ProcessRedo, ProcessResume
<1>8. CASE ProcessInterrupt
  <2> DEFINE th == [T EXCEPT !.st = "Interrupted"]
  <2>1. ThreadFields \subseteq DOMAIN th /\ th.st = "Interrupted"
    BY <1>1 DEF ThreadFields
  <2>2. Finish(th) /\ Revoke /\ UNCHANGED <<cur, nreq>>
    BY <1>8 DEF ProcessInterrupt, interrupt, counts
  <2> HIDE DEF th
  <2>3. QED
    BY <1>3, <2>1, <2>2
<1>9. CASE ProcessClear
  <2> DEFINE th == [T EXCEPT !.st = "Idle", !.turns = <<>>]
  <2>1. ThreadFields \subseteq DOMAIN th /\ th.st = "Idle"
    BY <1>1 DEF ThreadFields
  <2>2. Finish(th) /\ Revoke /\ UNCHANGED <<cur, nreq>>
    BY <1>9 DEF ProcessClear, counts
  <2> HIDE DEF th
  <2>3. QED
    BY <1>3, <2>1, <2>2
<1>10. CASE \E id \in 0..(MaxReqs + 1) : Denied(id)
  <2> DEFINE th == [T EXCEPT !.st = "Idle", !.pend = NoReq]
  <2>1. ThreadFields \subseteq DOMAIN th /\ th.st = "Idle"
    BY <1>1 DEF ThreadFields
  <2>2. Finish(th) /\ Revoke /\ UNCHANGED <<cur, nreq>>
    BY <1>10 DEF Denied, clear_pending_approval, counts
  <2> HIDE DEF th
  <2>3. QED
    BY <1>3, <2>1, <2>2
<1>11. CASE ProcessCompact
  <2>1. PICK turns \in Compacted(T.turns) : Finish([T EXCEPT !.turns = turns])
    BY <1>11 DEF ProcessCompact
  <2> DEFINE th == [T EXCEPT !.turns = turns]
  <2>2. ThreadFields \subseteq DOMAIN th /\ th.st = T.st /\ th.pend = T.pend
    BY <1>1 DEF ThreadFields
  <2>3. Finish(th) /\ UNCHANGED <<cur, nreq, revoked, ran>>
    BY <1>11, <2>1 DEF ProcessCompact, counts, history, asked
  <2> HIDE DEF th
  <2>4. QED
    BY <1>4, <2>2, <2>3
<1>12. CASE ProcessOther \/ \E id \in 0..(MaxReqs + 1) : AnswerMissed(id)
  <2>1. Finish(T) /\ UNCHANGED <<cur, nreq, revoked, ran>>
    BY <1>12 DEF ProcessOther, AnswerMissed, Decline, counts, history, asked
  <2>2. QED
    BY <1>1, <1>4, <2>1
<1>13. CASE ProcessNewThread
  <2>1. OnSession(create_thread(SesWith[SessId], NewId)) /\ NewId \in Thr
    <3>1. Unused # {}
      BY <1>13, FS_EmptySet DEF ProcessNewThread
    <3>2. QED
      BY <1>13, <3>1 DEF ProcessNewThread, NewId, Unused, Thr
  <2>2. SessionOK(SesWith[SessId])
    BY SessionLookup
  <2> DEFINE sn == create_thread(SesWith[SessId], NewId)
  <2>3. SessionOK(sn) /\ \A t \in Thr :
            sn.th[t] = SesWith[SessId].th[t] \/ sn.th[t].st = "Idle"
    BY <2>1, <2>2, CreateOK, NewSessionOK
  <2> HIDE DEF sn
  <2>4. QED
    BY <1>5, <2>1, <2>3 DEF sn
<1>14. CASE \E t \in Thr : ProcessSwitchThread(t)
  <2> DEFINE old == SesWith[SessId]
             sn == [old EXCEPT !.stale = FALSE]
  <2>1. SessionOK(old)
    BY SessionLookup
  <2>2. OnSession(sn)
    BY <1>14 DEF ProcessSwitchThread, switch_thread
  <2> HIDE DEF old
  <2>3. SessionOK(sn) /\ sn.th = old.th
    BY <2>1 DEF SessionOK, SessionFields
  <2> HIDE DEF sn
  <2>4. QED
    BY <1>5, <2>2, <2>3 DEF old
<1>15. CASE \E id \in 0..(MaxReqs + 1), always \in BOOLEAN : Approved(id, always)
  <2>1. PICK id \in 0..(MaxReqs + 1), always \in BOOLEAN : Approved(id, always)
    BY <1>15
  <2> DEFINE th == [T EXCEPT !.st = "Processing", !.pend = NoReq]
             q == T.pend.id
  <2>2. ThreadFields \subseteq DOMAIN th /\ th.st = "Processing"
    BY <1>1 DEF ThreadFields
  <2>3. PICK auto : ses' = [ses EXCEPT ![h.s].th[h.t] = th, ![h.s].auto = auto]
    BY <1>0, <2>1 DEF Approved, Shape, SessionOK, SessionFields
  <2> HIDE DEF th
  <2>4. Shape' /\ Changes(th)
    <3>1. /\ Put(h.s, h.t, th) = [s \in Sess |-> Put(h.s, h.t, th)[s]]
          /\ \A s \in Sess : SessionOK(Put(h.s, h.t, th)[s])
          /\ \A s \in Sess, t \in Thr :
                Put(h.s, h.t, th)[s].th[t] = IF s = h.s /\ t = h.t THEN th ELSE ses[s].th[t]
      BY <1>0, <2>2, PutOK
    <3>2. ses' = [Put(h.s, h.t, th) EXCEPT ![h.s].auto = auto]
      BY <2>3 DEF Put
    <3>3. ses' = [s \in Sess |-> ses'[s]] /\ \A s \in Sess : SessionOK(ses'[s])
      BY <1>0, <3>1, <3>2 DEF SessionOK, SessionFields
    <3>4. \A s \in Sess : ses'[s].th = Put(h.s, h.t, th)[s].th
      BY <1>0, <3>1, <3>2 DEF SessionOK, SessionFields
    <3>5. QED
      BY <3>1, <3>3, <3>4 DEF Shape, Changes
  <2>5. HandlerOK' /\ InTurn' /\ h'.s = h.s /\ h'.t = h.t
    BY <1>0, <2>1 DEF Approved, HandlerOK, InTurn, HandlerFields, PC
  <2>6. OnlyTurn'
    BY <2>4, <2>5, TurnKeeps
  <2>7. Awaits(h.s, h.t) /\ Req(h.s, h.t) = q
    BY <2>1 DEF Approved, Pending, Awaits, Req, T
  <2>8. UNCHANGED <<nreq, revoked>> /\ ran' = ran \cup {q}
    BY <2>1 DEF Approved, counts
  <2>9. \A s \in Sess, t \in Thr : Awaits(s, t)' => /\ Awaits(s, t) /\ Req(s, t)' = Req(s, t)
                                                    /\ Req(s, t)' # q
    <3>1. \A s \in Sess, t \in Thr : Awaits(s, t)' => /\ Awaits(s, t) /\ Req(s, t)' = Req(s, t)
                                                      /\ ~(s = h.s /\ t = h.t)
      BY <2>2, <2>4 DEF Changes, Awaits, Req
    <3>2. QED
      BY <1>0, <2>7, <3>1 DEF Asked
  <2>10. q \in 1..nreq /\ q \notin revoked
    BY <1>0, <2>7 DEF Asked
  <2> HIDE DEF q
  <2>11. nreq' \in Nat /\ revoked' \subseteq 1..nreq' /\ ran' \subseteq 1..nreq' /\
             revoked' \cap ran' = {}
    BY <2>8, <2>10 DEF Asked
  <2>12. \A s \in Sess, t \in Thr :
            Awaits(s, t)' => Req(s, t)' \in 1..nreq' /\ Req(s, t)' \notin revoked' \cup ran'
    BY <2>8, <2>9 DEF Asked
  <2>13. Asked'
    BY <2>9, <2>11, <2>12 DEF Asked
  <2>14. QED
    BY <2>4, <2>5, <2>6, <2>13
<1>16. QED
  BY <1>7, <1>8, <1>9, <1>10, <1>11, <1>12, <1>13, <1>14, <1>15 DEF Command

\* A turn from start_turn to finalize_loop_result.
LEMMA TurnOK ==
  ASSUME IInv,
         \/ BeginTurn \/ LoopError \/ Nudge \/ LoopText
         \/ \E b \in Batches : LoopCalls(b)
         \/ ToolRuns \/ ToolGated
  PROVE  IInv'
<1> USE DEF IInv
<1>0. h.s \in Sess /\ h.t \in Thr
  BY DEF BeginTurn, LoopError, Nudge, LoopText, LoopCalls, ToolRuns, ToolGated, HandlerOK
<1>1. ThreadFields \subseteq DOMAIN T
  BY <1>0 DEF T, Shape, SessionOK
<1>2. CASE Nudge \/ (\E b \in Batches : LoopCalls(b)) \/ ToolRuns
  <2>1. UNCHANGED <<cur, ses, nreq, revoked, ran>>
    BY <1>2 DEF Nudge, LoopCalls, ToolRuns, memory, counts, history, asked
  <2>2. HandlerOK' /\ InTurn' /\ h'.s = h.s /\ h'.t = h.t
    <3>1. /\ h.pc \in {"loop", "tools"} /\ HandlerFields \subseteq DOMAIN h' /\ InTurn'
          /\ h'.s = h.s /\ h'.t = h.t /\ h'.ext = h.ext
      <4>1. HandlerFields \subseteq DOMAIN h
        BY DEF HandlerOK
      <4>2. CASE Nudge
        BY <4>1, <4>2 DEF Nudge, HandlerFields, InTurn
      <4>3. ASSUME NEW b \in Batches, LoopCalls(b)
            PROVE  /\ h.pc \in {"loop", "tools"} /\ HandlerFields \subseteq DOMAIN h' /\ InTurn'
                   /\ h'.s = h.s /\ h'.t = h.t /\ h'.ext = h.ext
        BY <4>1, <4>3 DEF LoopCalls, HandlerFields, InTurn
      <4>4. CASE ToolRuns
        BY <4>1, <4>4 DEF ToolRuns, HandlerFields, InTurn
      <4> QED BY <1>2, <4>2, <4>3, <4>4
    <3> QED BY <2>1, <3>1 DEF HandlerOK, InTurn, PC
  <2>3. Shape' /\ Quiet
    BY <2>1 DEF Shape, Quiet
  <2>4. QED
    BY <2>1, <2>2, <2>3, QuietKeeps
<1>3. CASE BeginTurn
  <2>1. PICK turns : ses' = [ses EXCEPT ![h.s].th[h.t] = [@ EXCEPT !.st = "Processing", !.turns = turns]]
    <3>1. PICK old : ses' = [ses EXCEPT ![h.s].th[h.t] = start_turn([@ EXCEPT !.turns = old], nin + 1)]
      BY <1>3 DEF BeginTurn
    <3> QED
      BY <3>1 DEF start_turn
  <2> DEFINE th == [T EXCEPT !.st = "Processing", !.turns = turns]
  <2>2. ThreadFields \subseteq DOMAIN th /\ th.st = "Processing"
    BY <1>1 DEF ThreadFields
  <2>3. ses' = Put(h.s, h.t, th)
    BY <1>0, <2>1 DEF Put, T, Shape, SessionOK, SessionFields
  <2> HIDE DEF th
  <2>4. Shape' /\ Changes(th)
    BY <1>0, <2>2, <2>3, PutOK DEF Shape, Changes
  <2>5. HandlerOK' /\ InTurn' /\ h'.s = h.s /\ h'.t = h.t
    BY <1>0, <1>3 DEF BeginTurn, HandlerOK, HandlerFields, InTurn, PC
  <2>6. UNCHANGED <<nreq, revoked, ran>>
    BY <1>3 DEF BeginTurn, history, asked
  <2>7. OnlyTurn'
    BY <2>4, <2>5, TurnKeeps
  <2>8. Asked'
    BY <1>0, <2>2, <2>4, <2>6, SameRequest
  <2>9. QED
    BY <2>4, <2>5, <2>7, <2>8
<1>4. ASSUME NEW th, Finish(th), UNCHANGED <<cur, nreq, revoked, ran>>,
             ThreadFields \subseteq DOMAIN th, th.st = "Idle"
      PROVE  IInv'
  <2>1. Shape' /\ Changes(th)
    BY <1>0, <1>4, FinishOK
  <2>2. HandlerOK'
    BY <1>4 DEF Finish, Waiting, HandlerOK, HandlerFields, PC
  <2>3. OnlyTurn'
    BY <1>4, <2>1, TurnKeeps
  <2>4. Asked'
    BY <1>0, <1>4, <2>1, SameRequest
  <2>5. QED
    BY <2>1, <2>2, <2>3, <2>4
<1>5. CASE LoopError
  <2> DEFINE th == [T EXCEPT !.st = "Idle"]
  <2>1. ThreadFields \subseteq DOMAIN th /\ th.st = "Idle"
    BY <1>1 DEF ThreadFields
  <2>2. Finish(th) /\ UNCHANGED <<cur, nreq, revoked, ran>>
    BY <1>5 DEF LoopError, fail_turn, counts, asked
  <2> HIDE DEF th
  <2>3. QED
    BY <1>4, <2>1, <2>2
<1>6. CASE LoopText
  <2>1. PICK turns : Finish([T EXCEPT !.st = "Idle", !.turns = turns])
    BY <1>6 DEF LoopText, complete_turn
  <2> DEFINE th == [T EXCEPT !.st = "Idle", !.turns = turns]
  <2>2. ThreadFields \subseteq DOMAIN th /\ th.st = "Idle"
    BY <1>1 DEF ThreadFields
  <2>3. Finish(th) /\ UNCHANGED <<cur, nreq, revoked, ran>>
    BY <1>6, <2>1 DEF LoopText, counts, asked
  <2> HIDE DEF th
  <2>4. QED
    BY <1>4, <2>2, <2>3
<1>7. CASE ToolGated
  <2>1. PICK q : q.id = nreq + 1 /\ Finish([T EXCEPT !.st = "AwaitingApproval", !.pend = q])
    BY <1>7 DEF ToolGated, await_approval
  <2> DEFINE th == [T EXCEPT !.st = "AwaitingApproval", !.pend = q]
  <2>2. ThreadFields \subseteq DOMAIN th /\ th.st = "AwaitingApproval" /\ th.pend.id = nreq + 1
    BY <1>1, <2>1 DEF ThreadFields
  <2>3. Finish(th) /\ UNCHANGED <<cur, revoked, ran>> /\ nreq' = nreq + 1
    BY <1>7, <2>1 DEF ToolGated
  <2> HIDE DEF th
  <2>4. Shape' /\ Changes(th)
    BY <1>0, <2>2, <2>3, FinishOK
  <2>5. HandlerOK'
    BY <2>3 DEF Finish, Waiting, HandlerOK, HandlerFields, PC
  <2>6. OnlyTurn'
    BY <2>2, <2>4, TurnKeeps
  <2>7. \A s \in Sess, t \in Thr : Awaits(s, t)' =>
           \/ s = h.s /\ t = h.t /\ Req(s, t)' = nreq + 1
           \/ ~(s = h.s /\ t = h.t) /\ Awaits(s, t) /\ Req(s, t)' = Req(s, t)
    BY <2>2, <2>4 DEF Changes, Awaits, Req
  <2>8. nreq \in Nat /\ 1..nreq \subseteq 1..nreq' /\ nreq + 1 \in 1..nreq' /\
            nreq + 1 \notin 1..nreq
    BY <2>3 DEF Asked
  <2>9. \A s \in Sess, t \in Thr :
           Awaits(s, t)' => Req(s, t)' \in 1..nreq' /\ Req(s, t)' \notin revoked' \cup ran'
    BY <2>3, <2>7, <2>8 DEF Asked
  <2>10. \A s1, s2 \in Sess, t1, t2 \in Thr :
            Awaits(s1, t1)' /\ Awaits(s2, t2)' /\ Req(s1, t1)' = Req(s2, t2)' =>
                s1 = s2 /\ t1 = t2
    BY <2>7, <2>8 DEF Asked
  <2>11. Asked'
    BY <2>3, <2>8, <2>9, <2>10 DEF Asked
  <2>12. QED
    BY <2>4, <2>5, <2>6, <2>11
<1>8. QED
  BY <1>2, <1>3, <1>5, <1>6, <1>7

\* The pruner, the clock and a crash.
LEMMA OthersOK ==
  ASSUME IInv, Tick \/ PruneRemove \/ Restart
  PROVE  IInv'
<1> USE DEF IInv
<1>1. CASE Tick
  <2>1. /\ cur \in Sess /\ ses' = [ses EXCEPT ![cur].stale = TRUE]
        /\ UNCHANGED <<cur, h, nreq, revoked, ran>>
    BY <1>1 DEF Tick, HandlerOK, counts, history, asked
  <2>2. Shape' /\ Quiet
    BY <2>1 DEF Shape, Quiet, SessionOK, SessionFields
  <2>3. HandlerOK' /\ (InTurn => InTurn' /\ h'.s = h.s /\ h'.t = h.t)
    BY <2>1 DEF HandlerOK, InTurn
  <2>4. QED
    BY <2>1, <2>2, <2>3, QuietKeeps
<1>2. CASE PruneRemove
  <2>1. /\ ses' = [s \in Sess |-> IF s = h.s THEN ses[s] ELSE NewSession]
        /\ cur' = NoSess /\ UNCHANGED <<h, nreq, revoked, ran>>
    BY <1>2 DEF PruneRemove, counts
  <2>2. Shape' /\ Quiet
    BY <2>1, NewSessionOK DEF Shape, Quiet
  <2>3. HandlerOK' /\ (InTurn => InTurn' /\ h'.s = h.s /\ h'.t = h.t)
    BY <2>1 DEF HandlerOK, InTurn
  <2>4. QED
    BY <2>1, <2>2, <2>3, QuietKeeps
<1>3. CASE Restart
  <2>1. /\ ses' = [s \in Sess |-> NewSession] /\ cur' = NoSess /\ h' = Waiting
        /\ UNCHANGED <<nreq, revoked, ran>>
    BY <1>3 DEF Restart, counts
  <2>2. Shape' /\ \A s \in Sess, t \in Thr : ses'[s].th[t].st = "Idle"
    BY <2>1, NewSessionOK DEF Shape
  <2>3. HandlerOK'
    BY <2>1 DEF Waiting, HandlerOK, HandlerFields, PC
  <2>4. OnlyTurn' /\ Asked'
    BY <2>1, <2>2 DEF OnlyTurn, Asked, Awaits
  <2>5. QED
    BY <2>2, <2>3, <2>4
<1>4. QED
  BY <1>1, <1>2, <1>3

\* Every step keeps the invariant.
LEMMA StepOK == IInv /\ [Next]_vars => IInv'
<1> SUFFICES ASSUME IInv, [Next]_vars PROVE IInv'
  OBVIOUS
<1>1. CASE UNCHANGED vars \/ (\E i \in Inputs : Writer(i)) \/ PruneScan \/ PruneCollect \/
          PruneMap \/ PruneUndo
  <2>1. UNCHANGED <<cur, ses, h, nreq, revoked, ran>>
    BY <1>1 DEF vars, memory, counts, history, asked, Writer, PersistUser,
       PersistAssistant, Write, PruneScan, PruneCollect, PruneMap, PruneUndo
  <2>2. QED
    BY <2>1, Aside
<1>2. CASE (\E e \in Ext : Receive(e)) \/ Handler
  BY <1>2, ResolveOK, CommandOK, TurnOK DEF Handler
<1>3. CASE Tick \/ PruneRemove \/ Restart
  BY <1>3, OthersOK
<1>4. QED
  BY <1>1, <1>2, <1>3 DEF Next, Pruner

-----------------------------------------------------------------------------
\* Between messages no thread is left Processing, whatever the model, the tools,
\* the pruner, failures and crashes do: no conversation gets stuck on a turn
\* that nobody is working on (agent_loop.rs:434).
THEOREM NoStuckThread == Spec => []NeverLeftProcessing
<1>1. IInv => NeverLeftProcessing
  BY DEF IInv, OnlyTurn, InTurn, NeverLeftProcessing
<1>2. QED
  BY <1>1, InitOK, StepOK, PTL DEF Spec

\* A call the user denied, interrupted, undid or cleared never runs, although
\* three of the four leave the request on the thread (approval.rs:104).
THEOREM RevokedStaysRevoked == Spec => []RevokedNeverRuns
<1>1. IInv => RevokedNeverRuns
  BY DEF IInv, Asked, RevokedNeverRuns
<1>2. QED
  BY <1>1, InitOK, StepOK, PTL DEF Spec
-----------------------------------------------------------------------------
(* Prompts stay answerable. *)

\* What a session looked up, or made, for the user is.
LEMMA LookupCur ==
  ASSUME IInv
  PROVE  /\ SessId \in Sess
         /\ cur # NoSess => cur \in Sess /\ SessId = cur /\ SesWith = ses
         /\ cur = NoSess => SesWith[SessId].there = {}
<1>1. SessId \in Sess /\ (cur # NoSess => cur \in Sess /\ SessId = cur /\ SesWith = ses)
  BY SessionLookup DEF IInv, HandlerOK, SessId, SesWith
<1>2. ASSUME cur = NoSess PROVE SesWith[SessId].there = {}
  BY <1>1, <1>2 DEF SesWith, IInv, Shape, NewSession
<1> QED BY <1>1, <1>2

\* The threads of the session in use belong to the process.
LEMMA ThereIsThr ==
  ASSUME IInv, cur # NoSess
  PROVE  cur \in Sess /\ ses[cur].there \subseteq Thr /\ NoThread \notin ses[cur].there
  BY ExtAssumption DEF IInv, HandlerOK, Shape, SessionOK

\* A session is looked up: the prompts and the keys stay what they are.
LEMMA LookupKeeps ==
  ASSUME IInv, PromptsOK, KeysOK, h.pc # "regmap", cur' = SessId, ses' = SesWith,
         UNCHANGED <<map, shown>>
  PROVE  PromptsOK' /\ KeysOK' /\ cur' # NoSess
<1>1. cur' # NoSess
  BY LookupCur, ExtAssumption
<1>2. CASE cur # NoSess
  BY <1>1, <1>2, LookupCur DEF PromptsOK, Answerable, KeysOK
<1>3. CASE cur = NoSess
  <2>1. \A e \in Ext : shown[e] = 0
    BY <1>3 DEF PromptsOK, Answerable
  <2>2. ses'[cur'].there = {}
    BY <1>3, LookupCur
  <2> QED BY <1>1, <2>1, <2>2 DEF PromptsOK, KeysOK
<1> QED BY <1>1, <1>2, <1>3

\* Steps that touch neither sessions nor keys nor prompts nor the handler.
LEMMA Untouched ==
  ASSUME PromptInv, UNCHANGED <<cur, ses, h, map, shown>>, ~raced' => ~raced /\ PrunerOK'
  PROVE  PromptInv'
  BY DEF PromptInv, PromptsOK, Answerable, KeysOK, WayOK, T, InTurn

\* A message is done with.
LEMMA MessageEnds ==
  ASSUME IInv, PromptInv, ~raced, h.pc \in {"dispatch", "loop", "tools"}, NEW th, Finish(th),
         UNCHANGED <<cur, map, p>>, shown' = [e \in Ext |-> shown'[e]],
         \A e \in Ext : shown'[e] # 0 =>
            \/ map[e] = h.t /\ th.st = "AwaitingApproval" /\ th.pend.id = shown'[e]
            \/ map[e] # h.t /\ shown'[e] = shown[e]
  PROVE  PromptInv'
<1> USE DEF PromptInv
<1>1. h.s = cur /\ cur \in Sess /\ h.t \in ses[cur].there /\ h.t \in Thr /\ cur # NoSess
  BY ExtAssumption DEF WayOK, IInv, HandlerOK
<1>2. /\ ses'[cur].there = ses[cur].there
      /\ \A t \in Thr : ses'[cur].th[t] = IF t = h.t THEN th ELSE ses[cur].th[t]
  <2>1. ses'[cur] = Put(h.s, h.t, th)[cur]
    BY <1>1 DEF Finish, Put
  <2>2. Put(h.s, h.t, th)[cur] = [ses[cur] EXCEPT !.th[h.t] = th]
    BY <1>1 DEF Put, IInv, Shape
  <2>3. SessionOK(ses[cur])
    BY <1>1 DEF IInv, Shape
  <2> QED BY <1>1, <2>1, <2>2, <2>3 DEF SessionOK, SessionFields
<1>3. h'.pc = "idle" /\ h'.pc \notin {"loop", "tools"}
  BY DEF Finish, Waiting
<1>4. PromptsOK'
  <2> SUFFICES ASSUME NEW e \in Ext, shown'[e] # 0 PROVE Answerable(e)'
    BY DEF PromptsOK
  <2>1. CASE map[e] = h.t /\ th.st = "AwaitingApproval" /\ th.pend.id = shown'[e]
    BY <1>1, <1>2, <2>1 DEF Answerable
  <2>2. CASE map[e] # h.t /\ shown'[e] = shown[e]
    <3>1. Answerable(e)
      BY <2>2 DEF PromptsOK
    <3>2. map[e] \in Thr
      BY <3>1, ThereIsThr DEF Answerable
    <3> QED BY <1>1, <1>2, <2>2, <3>1, <3>2 DEF Answerable
  <2> QED BY <2>1, <2>2
<1>5. KeysOK'
  BY <1>1, <1>2, <1>3 DEF KeysOK
<1>6. WayOK' /\ PrunerOK'
  BY <1>3 DEF WayOK, PrunerOK, InTurn
<1> QED BY <1>4, <1>5, <1>6

\* The turn goes on: its thread is Processing.
LEMMA TurnGoesOn ==
  ASSUME IInv, PromptInv, ~raced, h.pc \in {"dispatch", "loop", "tools"}, NEW th,
         th.st = "Processing", UNCHANGED <<cur, map, p>>,
         ses'[cur].there = ses[cur].there,
         \A t \in Thr : ses'[cur].th[t] = IF t = h.t THEN th ELSE ses[cur].th[t],
         h'.pc \in {"loop", "tools"}, h'.s = h.s, h'.t = h.t, h'.ext = h.ext,
         shown' = [e \in Ext |-> shown'[e]],
         \A e \in Ext : shown'[e] # 0 => map[e] # h.t /\ shown'[e] = shown[e]
  PROVE  PromptInv'
<1> USE DEF PromptInv
<1>1. h.s = cur /\ cur \in Sess /\ h.t \in ses[cur].there /\ h.t \in Thr /\ cur # NoSess
  BY ExtAssumption DEF WayOK, IInv, HandlerOK
<1>2. PromptsOK'
  <2> SUFFICES ASSUME NEW e \in Ext, shown'[e] # 0 PROVE Answerable(e)'
    BY DEF PromptsOK
  <2>1. Answerable(e) /\ map[e] # h.t /\ shown'[e] = shown[e]
    BY DEF PromptsOK
  <2>2. map[e] \in Thr
    BY <2>1, ThereIsThr DEF Answerable
  <2> QED BY <1>1, <2>1, <2>2 DEF Answerable
<1>3. KeysOK'
  BY <1>1 DEF KeysOK
<1>4. WayOK'
  BY <1>1 DEF WayOK, T
<1>5. PrunerOK'
  BY DEF PrunerOK
<1> QED BY <1>2, <1>3, <1>4, <1>5

\* Initially nothing is shown.
LEMMA PromptInit == Init => PromptInv
<1> SUFFICES ASSUME Init PROVE PromptsOK /\ KeysOK /\ WayOK /\ PrunerOK
  BY DEF PromptInv
<1>1. PromptsOK
  BY DEF Init, PromptsOK
<1>2. KeysOK
  BY DEF Init, KeysOK, Keys
<1>3. WayOK /\ PrunerOK
  BY DEF Init, WayOK, PrunerOK, Waiting, InTurn
<1> QED BY <1>1, <1>2, <1>3

\* The pruner, the clock, the writers and a crash.
LEMMA PromptOthers ==
  ASSUME IInv, PromptInv,
         \/ Tick \/ Pruner \/ Restart \/ UNCHANGED vars
         \/ \E i \in Inputs : Writer(i)
  PROVE  PromptInv'
<1>1. CASE UNCHANGED vars \/ \E i \in Inputs : Writer(i)
  <2>1. UNCHANGED <<cur, ses, h, map, shown, raced, p>>
    BY <1>1 DEF vars, memory, counts, history, asked, Writer, PersistUser,
       PersistAssistant, Write
  <2> QED BY <2>1, Untouched DEF PromptInv, PrunerOK
<1>2. CASE PruneScan
  <2>1. /\ UNCHANGED <<cur, ses, h, map, shown>> /\ p'.pc = "collect"
        /\ raced' = (raced \/ h.pc # "idle")
    BY <1>2 DEF PruneScan, memory, asked
  <2> QED BY <2>1, Untouched DEF PrunerOK
<1>3. CASE PruneCollect
  <2>1. /\ UNCHANGED <<cur, ses, h, map, shown, raced>> /\ p'.pc = "remove" /\ p.pc = "collect"
    BY <1>3 DEF PruneCollect, memory, history, asked
  <2> QED BY <2>1, Untouched DEF PrunerOK, PromptInv
<1>4. CASE PruneRemove
  <2> SUFFICES ASSUME ~raced' PROVE PromptsOK' /\ KeysOK' /\ WayOK' /\ PrunerOK'
    BY DEF PromptInv
  <2>1. /\ cur' = NoSess /\ map' = map /\ h' = h /\ shown' = [e \in Ext |-> 0]
        /\ p'.pc = "unmap" /\ ~raced /\ p.pc = "remove"
    BY <1>4 DEF PruneRemove, Forget
  <2>2. h.pc = "idle"
    BY <2>1 DEF PromptInv, PrunerOK
  <2>3. PromptsOK' /\ KeysOK'
    BY <2>1 DEF PromptsOK, KeysOK, PromptInv
  <2> QED BY <2>1, <2>2, <2>3 DEF WayOK, PrunerOK, InTurn
<1>5. CASE PruneMap
  <2> SUFFICES ASSUME ~raced' PROVE PromptsOK' /\ KeysOK' /\ WayOK' /\ PrunerOK'
    BY DEF PromptInv
  <2>1. /\ cur' = cur /\ map' = [k \in Keys |-> NoThread] /\ h' = h
        /\ shown' = [e \in Ext |-> 0] /\ p'.pc = "unundo" /\ ~raced /\ p.pc = "unmap"
    BY <1>5 DEF PruneMap, Forget
  <2>2. h.pc = "idle" /\ cur = NoSess
    BY <2>1 DEF PromptInv, PrunerOK
  <2>3. PromptsOK' /\ KeysOK'
    BY <2>1, <2>2 DEF PromptsOK, KeysOK, Keys
  <2> QED BY <2>1, <2>2, <2>3 DEF WayOK, PrunerOK, InTurn
<1>6. CASE PruneUndo
  <2>1. UNCHANGED <<cur, ses, h, map, shown, raced>> /\ p'.pc = "idle"
    BY <1>6 DEF PruneUndo, history, asked
  <2> QED BY <2>1, Untouched DEF PrunerOK
<1>7. CASE Tick
  <2> SUFFICES ASSUME ~raced' PROVE PromptsOK' /\ KeysOK' /\ WayOK' /\ PrunerOK'
    BY DEF PromptInv
  <2>1. /\ UNCHANGED <<cur, h, map, shown, raced, p>> /\ cur \in Sess /\ h.pc = "idle"
        /\ ses' = [ses EXCEPT ![cur].stale = TRUE]
    BY <1>7 DEF Tick, history, asked, IInv, HandlerOK
  <2>2. ses'[cur].there = ses[cur].there /\ ses'[cur].th = ses[cur].th
    BY <2>1 DEF IInv, Shape, SessionOK, SessionFields
  <2>3. PromptsOK' /\ KeysOK'
    BY <2>1, <2>2 DEF PromptInv, PromptsOK, Answerable, KeysOK
  <2> QED BY <2>1, <2>3 DEF WayOK, PrunerOK, PromptInv, InTurn
<1>8. CASE Restart
  <2>1. /\ cur' = NoSess /\ map' = [k \in Keys |-> NoThread] /\ h'.pc = "idle"
        /\ shown' = [e \in Ext |-> 0] /\ p'.pc = "idle"
    BY <1>8 DEF Restart, Forget, Waiting
  <2>2. PromptsOK' /\ KeysOK'
    BY <2>1 DEF PromptsOK, KeysOK, Keys
  <2> QED BY <2>1, <2>2 DEF WayOK, PrunerOK, InTurn, PromptInv
<1> QED BY <1>1, <1>2, <1>3, <1>4, <1>5, <1>6, <1>7, <1>8 DEF Pruner
\* An unused id is no thread of a session and nothing the thread map leads to.
LEMMA UnusedIsNew ==
  ASSUME NEW f, f \in Unused
  PROVE  /\ f \in Fresh
         /\ \A s \in Sess : f \notin ses[s].there
         /\ \A k \in Keys : map[k] # f
<1> DEFINE taken == UNION {ses[s].there : s \in Sess}
           mapped == {map[k] : k \in Keys}
<1>1. f \in Fresh /\ f \notin taken /\ f \notin mapped
  <2> DEFINE stored == {t \in Thr : db[t] # <<>> \/ undo[t] # NewUndo}
             written == {tasks[i].t : i \in Inputs}
  <2>1. Unused = Fresh \ (taken \cup mapped \cup stored \cup written \cup p.thr \cup {h.t})
    BY DEF Unused
  <2> HIDE DEF taken, mapped, stored, written
  <2> QED BY <2>1
<1> QED BY <1>1

\* handle_message up to the dispatch: no prompt loses its thread to another message.

LEMMA PromptResolve ==
  ASSUME IInv, PromptInv,
         \/ \E e \in Ext : Receive(e)
         \/ \E ok \in BOOLEAN : HydrateRead(ok)
         \/ HydrateInsert \/ RegisterMap \/ RegisterSession
         \/ ResolveSession \/ ResolveFind \/ ResolveMap \/ ResolveUndo
  PROVE  PromptInv'
<1> SUFFICES ASSUME ~raced' PROVE PromptsOK' /\ KeysOK' /\ WayOK' /\ PrunerOK'
  BY DEF PromptInv
<1>0. ~raced /\ shown' = shown /\ p' = p
  <2>1. CASE \E e \in Ext : Receive(e)
    BY <2>1 DEF Receive, asked
  <2>2. ASSUME NEW ok \in BOOLEAN, HydrateRead(ok) PROVE ~raced /\ shown' = shown /\ p' = p
    BY <2>2 DEF HydrateRead, history, asked
  <2>5. CASE HydrateInsert
    BY <2>5 DEF HydrateInsert, history, asked
  <2>3. CASE RegisterMap \/ RegisterSession \/ ResolveSession
    BY <2>3 DEF RegisterMap, RegisterSession, ResolveSession, history, asked
  <2>4. CASE ResolveFind \/ ResolveMap \/ ResolveUndo
    BY <2>4 DEF ResolveFind, ResolveMap, ResolveUndo, history, asked
  <2> QED
    BY <2>1, <2>2, <2>3, <2>4, <2>5
<1>w. PromptsOK /\ KeysOK /\ WayOK /\ PrunerOK
  BY <1>0 DEF PromptInv
<1> USE <1>w
<1>h. /\ HandlerFields \subseteq DOMAIN h
      /\ h.pc \notin {"idle", "hydrate", "resolve"} => h.s \in Sess
      /\ (h.pc \in {"hydrate", "insert"} => Parse[h.ext] \in Thr)
  BY DEF IInv, HandlerOK
<1>p. PrunerOK'
  <2>1. CASE \E e \in Ext : Receive(e)
    BY <1>0, <2>1 DEF Receive, PrunerOK
  <2>2. CASE h.pc # "idle"
    BY <1>0, <2>2 DEF PrunerOK
  <2> QED
    BY <2>1, <2>2 DEF HydrateRead, HydrateInsert, RegisterMap, RegisterSession,
         ResolveSession, ResolveFind, ResolveMap, ResolveUndo
<1>1. ASSUME NEW e \in Ext, Receive(e) PROVE PromptsOK' /\ KeysOK' /\ WayOK'
  <2>1. /\ UNCHANGED <<cur, ses, map>> /\ h.pc = "idle" /\ h'.ext = e
        /\ h'.pc = IF Parse[e] = NoThread THEN "resolve" ELSE "hydrate"
    BY <1>1 DEF Receive, memory, Waiting
  <2>2. PromptsOK' /\ KeysOK'
    BY <1>0, <2>1 DEF PromptsOK, Answerable, KeysOK
  <2> QED BY <1>p, <2>1, <2>2 DEF WayOK, InTurn, Valid
<1>2. ASSUME NEW ok \in BOOLEAN, HydrateRead(ok) PROVE PromptsOK' /\ KeysOK' /\ WayOK'
  <2>1. /\ cur' = SessId /\ ses' = SesWith /\ map' = map /\ h.pc = "hydrate"
        /\ h'.ext = h.ext /\ h'.s = SessId
        /\ \/ h'.pc = "resolve" /\ Parse[h.ext] \in SesWith[SessId].there
           \/ h'.pc = "insert" /\ Parse[h.ext] \notin SesWith[SessId].there
    BY <1>2, <1>h DEF HydrateRead, HandlerFields
  <2>2. PromptsOK' /\ KeysOK' /\ cur' # NoSess
    BY <1>0, <2>1, LookupKeeps
  <2> QED BY <1>p, <2>1, <2>2 DEF WayOK, InTurn
<1>3. CASE HydrateInsert
  <2> DEFINE t0 == Parse[h.ext]
             turns0 == restore_from_messages(h.hist)
             sn == create_thread(ses[h.s], t0)
             new == [sn EXCEPT !.th[t0].turns = turns0]
  <2>1. /\ h.pc = "insert" /\ t0 \in Thr /\ UNCHANGED <<cur, map>> /\ h'.pc = "regmap"
        /\ h'.ext = h.ext /\ h'.s = h.s /\ h.s = cur /\ cur \in Sess /\ cur # NoSess
    BY <1>3, <1>h, ExtAssumption DEF HydrateInsert, HandlerFields, WayOK
  <2>2. ses' = [ses EXCEPT ![h.s] = new]
    BY <1>3, <2>1 DEF HydrateInsert, IInv, Shape
  <2>3. /\ SessionOK(sn) /\ SessionOK(ses[cur]) /\ sn.there = ses[cur].there \cup {t0}
        /\ \A t \in Thr : sn.th[t] = IF t = t0 THEN NewThread ELSE ses[cur].th[t]
    BY <2>1, CreateOK DEF IInv, Shape, create_thread, SessionOK, SessionFields
  <2> HIDE DEF sn, turns0
  <2>4. /\ new.there = sn.there
        /\ \A t \in Thr \ {t0} : new.th[t] = ses[cur].th[t]
    BY <2>1, <2>3 DEF SessionOK, SessionFields, ThreadFields
  <2>5. ses'[cur] = new
    BY <2>1, <2>2 DEF IInv, Shape
  <2> HIDE DEF new
  <2>6. /\ ses'[cur].there = ses[cur].there \cup {t0} /\ t0 \notin ses[cur].there
        /\ \A t \in Thr \ {t0} : ses'[cur].th[t] = ses[cur].th[t]
    BY <2>1, <2>3, <2>4, <2>5 DEF WayOK
  <2>7. PromptsOK'
    <3> SUFFICES ASSUME NEW e \in Ext, shown[e] # 0 PROVE Answerable(e)'
      BY <1>0 DEF PromptsOK
    <3>1. Answerable(e) /\ map[e] \in Thr \ {t0}
      BY <2>1, <2>6, ThereIsThr DEF PromptsOK, Answerable
    <3> QED BY <1>0, <2>1, <2>6, <3>1 DEF Answerable
  <2>8. KeysOK'
    BY <2>1, <2>6 DEF KeysOK
  <2>9. Valid(h.ext)
    BY <2>1, ExtAssumption DEF Valid
  <2> QED BY <1>p, <2>1, <2>6, <2>7, <2>8, <2>9 DEF WayOK, InTurn
<1>4. CASE RegisterMap
  <2> DEFINE k0 == Canon[h.ext]
             t0 == Parse[h.ext]
  <2>1. /\ h.pc = "regmap" /\ UNCHANGED <<cur, ses>> /\ h'.pc = "regsess" /\ h'.ext = h.ext
        /\ h'.s = h.s /\ map' = [map EXCEPT ![k0] = t0] /\ h.ext \in Ext /\ Valid(h.ext)
        /\ h.s = cur /\ cur # NoSess /\ t0 \in ses[cur].there /\ k0 \in Keys
    BY <1>4, <1>h DEF RegisterMap, Go, HandlerFields, WayOK, Keys
  <2>2. map' = [k \in Keys |-> IF k = k0 THEN t0 ELSE map[k]]
    BY <2>1 DEF KeysOK
  <2>3. ASSUME NEW e \in Ext, e = k0 PROVE Valid(e) /\ Canon[e] = e /\ Parse[e] = t0
    BY <2>1, <2>3, ExtAssumption DEF Valid
  <2>4. ASSUME NEW e \in Ext, Valid(e), Canon[e] = k0 PROVE Parse[e] = t0
    BY <2>1, <2>4, ExtAssumption DEF Valid
  <2> HIDE DEF k0, t0
  <2>5. PromptsOK'
    <3> SUFFICES ASSUME NEW e \in Ext, shown[e] # 0 PROVE Answerable(e)'
      BY <1>0 DEF PromptsOK
    <3>1. Answerable(e) /\ map[e] # NoThread /\ e \in Keys
      BY <2>1, ThereIsThr DEF PromptsOK, Answerable, Keys
    <3>2. map'[e] = map[e]
      <4>1. CASE e = k0
        BY <2>2, <2>3, <3>1, <4>1 DEF KeysOK
      <4>2. CASE e # k0
        BY <2>2, <3>1, <4>2
      <4> QED BY <4>1, <4>2
    <3> QED BY <1>0, <2>1, <3>1, <3>2 DEF Answerable
  <2>6. KeysOK'
    <3>1. map' = [k \in Keys |-> map'[k]]
      BY <2>2
    <3>2. ASSUME NEW e \in Ext, Valid(e), Canon[e] = e PROVE map'[e] \in {NoThread, Parse[e]}
      BY <2>2, <2>3, <3>2 DEF KeysOK, Keys
    <3>3. ASSUME NEW e \in Ext, Valid(e), Parse[e] \in ses[cur].there
          PROVE  map'[Canon[e]] = Parse[e]
      <4>1. Canon[e] \in Keys
        BY DEF Keys
      <4>2. CASE Canon[e] = k0
        BY <2>2, <2>4, <3>3, <4>1, <4>2
      <4>3. CASE Canon[e] # k0
        <5>1. Parse[e] # Parse[h.ext]
          BY <2>1, <3>3, <4>3, ExtAssumption DEF Valid, k0
        <5> QED BY <2>1, <2>2, <3>3, <4>1, <4>3, <5>1 DEF KeysOK
      <4> QED BY <4>2, <4>3
    <3> QED BY <2>1, <3>1, <3>2, <3>3 DEF KeysOK
  <2> QED BY <1>p, <2>1, <2>5, <2>6 DEF WayOK, InTurn, t0
<1>5. CASE RegisterSession
  <2>1. /\ UNCHANGED <<cur, ses, map>> /\ h.pc = "regsess" /\ h'.pc = "resolve" /\
               h'.ext = h.ext
    BY <1>5, <1>h DEF RegisterSession, Go, HandlerFields, WayOK
  <2>2. PromptsOK' /\ KeysOK'
    BY <1>0, <2>1 DEF PromptsOK, Answerable, KeysOK
  <2> QED BY <1>p, <2>1, <2>2 DEF WayOK, InTurn
<1>6. CASE ResolveSession
  <2>1. /\ cur' = SessId /\ ses' = SesWith /\ map' = map /\ h.pc = "resolve" /\ h'.pc = "find"
        /\ h'.s = SessId /\ h'.ext = h.ext
    BY <1>6, <1>h DEF ResolveSession, HandlerFields
  <2>2. PromptsOK' /\ KeysOK' /\ cur' # NoSess
    BY <1>0, <2>1, LookupKeeps
  <2> QED BY <1>p, <2>1, <2>2, LookupCur DEF WayOK, InTurn
<1>7. CASE ResolveFind /\ map[h.ext] \in ses[h.s].there
  <2>1. /\ UNCHANGED <<cur, ses, map>> /\ h.pc = "find" /\ h'.pc = "dispatch" /\ h'.ext = h.ext
        /\ h'.s = h.s /\ h'.t = map[h.ext]
    BY <1>7, <1>h DEF ResolveFind, HandlerFields
  <2>2. PromptsOK' /\ KeysOK'
    BY <1>0, <2>1 DEF PromptsOK, Answerable, KeysOK
  <2> QED BY <1>p, <1>7, <2>1, <2>2 DEF WayOK, InTurn
<1>8. CASE ResolveFind /\ map[h.ext] \notin ses[h.s].there
  <2>1. /\ UNCHANGED <<cur, map>> /\ h.pc = "find" /\ h'.pc = "mapthread" /\ h'.ext = h.ext
        /\ h'.s = h.s /\ h'.t = NewId /\ Unused # {} /\ h.s = cur /\ cur \in Sess /\
               cur # NoSess
        /\ h.ext \in Ext /\ ses' = [ses EXCEPT ![h.s] = create_thread(@, NewId)]
    <3>1. /\ UNCHANGED <<cur, map>> /\ h.pc = "find" /\ Unused # {}
          /\ h' = [h EXCEPT !.pc = "mapthread", !.t = NewId]
          /\ ses' = [ses EXCEPT ![h.s] = create_thread(@, NewId)]
      BY <1>8 DEF ResolveFind
    <3>2. h.s = cur /\ cur \in Sess /\ cur # NoSess /\ h.ext \in Ext
      BY <1>h, <3>1, ExtAssumption DEF WayOK
    <3> HIDE DEF NewId, Unused
    <3>3. h'.pc = "mapthread" /\ h'.ext = h.ext /\ h'.s = h.s /\ h'.t = NewId
      BY <1>h, <3>1 DEF HandlerFields
    <3> QED BY <3>1, <3>2, <3>3
  <2>2. /\ NewId \in Fresh /\ NewId \in Thr /\ NewId \notin ses[cur].there
        /\ \A k \in Keys : map[k] # NewId
    <3>1. NewId \in Unused
      BY <2>1 DEF NewId
    <3> QED BY <2>1, <3>1, UnusedIsNew DEF Thr
  <2>3. SessionOK(ses[cur])
    BY <2>1 DEF IInv, Shape
  <2>4. /\ ses'[cur].there = ses[cur].there \cup {NewId}
        /\ \A t \in Thr \ {NewId} : ses'[cur].th[t] = ses[cur].th[t]
    BY <2>1, <2>2, <2>3, CreateOK DEF IInv, Shape, create_thread, SessionOK, SessionFields
  <2> HIDE DEF NewId
  <2>5. PromptsOK'
    <3> SUFFICES ASSUME NEW e \in Ext, shown[e] # 0 PROVE Answerable(e)'
      BY <1>0 DEF PromptsOK
    <3>1. Answerable(e) /\ map[e] \in Thr \ {NewId}
      BY <2>1, <2>2, ThereIsThr DEF PromptsOK, Answerable
    <3> QED BY <1>0, <2>1, <2>4, <3>1 DEF Answerable
  <2>6. \A e \in Ext : Parse[e] # NewId
    BY <2>2, ExtAssumption
  <2>7. KeysOK'
    BY <2>1, <2>4, <2>6 DEF KeysOK
  <2>8. map[h.ext] # NewId /\ map[h.ext] \notin ses'[cur].there
    BY <1>8, <2>1, <2>2, <2>4 DEF Keys
  <2>9. Valid(h.ext) => Canon[h.ext] # h.ext
    BY <1>8, <2>1 DEF WayOK, KeysOK
  <2> QED BY <1>p, <2>1, <2>4, <2>5, <2>7, <2>8, <2>9 DEF WayOK, InTurn
<1>9. CASE ResolveMap
  <2>1. /\ UNCHANGED <<cur, ses>> /\ h.pc = "mapthread" /\ h'.pc = "undomgr" /\ h'.ext = h.ext
        /\ h'.s = h.s /\ h'.t = h.t /\ h.s = cur /\ cur # NoSess /\ h.ext \in Ext /\
               h.ext \in Keys
        /\ map' = [map EXCEPT ![h.ext] = h.t]
    BY <1>9, <1>h, ExtAssumption DEF ResolveMap, Go, HandlerFields, WayOK, Keys
  <2>2. map' = [k \in Keys |-> IF k = h.ext THEN h.t ELSE map[k]]
    BY <2>1 DEF KeysOK
  <2>3. shown[h.ext] = 0
    BY <2>1 DEF WayOK, PromptsOK, Answerable
  <2>4. PromptsOK'
    <3> SUFFICES ASSUME NEW e \in Ext, shown[e] # 0 PROVE Answerable(e)'
      BY <1>0 DEF PromptsOK
    <3>1. Answerable(e) /\ map'[e] = map[e]
      BY <2>2, <2>3 DEF PromptsOK, Keys
    <3> QED BY <1>0, <2>1, <3>1 DEF Answerable
  <2>5. ASSUME NEW e \in Ext, Valid(e) PROVE Canon[e] # h.ext
    <3> SUFFICES ASSUME Canon[e] = h.ext PROVE FALSE
      OBVIOUS
    <3>1. Valid(h.ext) /\ Canon[h.ext] = Canon[e]
      BY <2>1, <2>5, ExtAssumption DEF Valid
    <3> QED BY <2>1, <3>1 DEF WayOK
  <2>6. KeysOK'
    <3>1. map' = [k \in Keys |-> map'[k]]
      BY <2>2
    <3>2. ASSUME NEW e \in Ext, Valid(e), Canon[e] = e PROVE map'[e] \in {NoThread, Parse[e]}
      BY <2>2, <2>5, <3>2 DEF KeysOK, Keys
    <3>3. ASSUME NEW e \in Ext, Valid(e), Parse[e] \in ses[cur].there
          PROVE  map'[Canon[e]] = Parse[e]
      <4>1. Canon[e] \in Keys /\ Canon[e] # h.ext
        BY <2>5, <3>3 DEF Keys
      <4> QED BY <2>1, <2>2, <3>3, <4>1 DEF KeysOK
    <3> QED BY <2>1, <3>1, <3>2, <3>3 DEF KeysOK
  <2> QED BY <1>p, <2>1, <2>4, <2>6 DEF WayOK, InTurn
<1>10. CASE ResolveUndo
  <2>1. /\ UNCHANGED <<cur, ses, map>> /\ h.pc = "undomgr" /\ h'.pc = "dispatch" /\
               h'.ext = h.ext
        /\ h'.s = h.s /\ h'.t = h.t
    BY <1>10, <1>h DEF ResolveUndo, Go, HandlerFields
  <2>2. PromptsOK' /\ KeysOK'
    BY <1>0, <2>1 DEF PromptsOK, Answerable, KeysOK
  <2> QED BY <1>p, <2>1, <2>2 DEF WayOK, InTurn
<1> QED
  BY <1>p, <1>1, <1>2, <1>3, <1>4, <1>5, <1>6, <1>7, <1>8, <1>9, <1>10

\* What the user took back is shown in no window that leads to the thread.
LEMMA RevokeForgets ==
  ASSUME PromptsOK, h.s = cur, Revoke
  PROVE  /\ shown' = [e \in Ext |-> shown'[e]]
         /\ \A e \in Ext : shown'[e] # 0 => map[e] # h.t /\ shown'[e] = shown[e]
<1>1. PICK q : /\ shown' = [e \in Ext |-> IF shown[e] = q THEN 0 ELSE shown[e]]
               /\ T.st = "AwaitingApproval" => q = T.pend.id
  BY DEF Revoke
<1>2. ASSUME NEW e \in Ext, shown[e] # 0, map[e] = h.t PROVE shown[e] = q
  BY <1>1, <1>2 DEF PromptsOK, Answerable, T
<1> QED
  BY <1>1, <1>2

\* A message that leaves the user's threads, new ones aside, as they are.
LEMMA SessionKept ==
  ASSUME IInv, PromptInv, ~raced, h.pc \in {"dispatch", "loop", "tools"}, h'.pc = "idle",
         UNCHANGED <<cur, map, shown, p>>, NEW N \in SUBSET Fresh,
         \A f \in N, k \in Keys : map[k] # f,
         ses'[cur].there = ses[cur].there \cup N,
         \A t \in Thr \ N : ses'[cur].th[t] = ses[cur].th[t]
  PROVE  PromptInv'
<1>1. PromptsOK /\ KeysOK /\ PrunerOK /\ h.s = cur /\ cur \in Sess /\ cur # NoSess
  BY ExtAssumption DEF PromptInv, WayOK, IInv, HandlerOK
<1>2. PromptsOK'
  <2> SUFFICES ASSUME NEW e \in Ext, shown[e] # 0 PROVE Answerable(e)'
    BY <1>1 DEF PromptsOK
  <2>1. Answerable(e) /\ map[e] \in Thr \ N
    BY <1>1, ThereIsThr DEF PromptsOK, Answerable, Keys
  <2> QED
    BY <1>1, <2>1 DEF Answerable
<1>3. KeysOK'
  BY <1>1, ExtAssumption DEF KeysOK
<1>4. WayOK' /\ PrunerOK'
  BY <1>1 DEF WayOK, PrunerOK, InTurn
<1> QED
  BY <1>2, <1>3, <1>4 DEF PromptInv

\* Every command and every answer to a prompt: a prompt goes only with its request.
LEMMA PromptCommands ==
  ASSUME IInv, PromptInv, Command
  PROVE  PromptInv'
<1> SUFFICES ASSUME ~raced' PROVE PromptInv'
  BY DEF PromptInv
<1>0. ~raced
  <2>1. CASE ProcessUndo \/ ProcessRedo \/ \E j \in 1..MaxCheckpoints : ProcessResume(j)
    BY <2>1 DEF ProcessUndo, ProcessRedo, ProcessResume, Restore, Revoke
  <2>2. CASE ProcessInterrupt \/ ProcessClear \/ \E id \in 0..(MaxReqs + 1) : Denied(id)
    BY <2>2 DEF ProcessInterrupt, ProcessClear, Denied, Revoke
  <2>3. CASE ProcessCompact \/ ProcessOther \/ \E id \in 0..(MaxReqs + 1) : AnswerMissed(id)
    BY <2>3 DEF ProcessCompact, ProcessOther, AnswerMissed, Decline, history
  <2>4. CASE ProcessNewThread \/ \E t \in Thr : ProcessSwitchThread(t)
    BY <2>4 DEF ProcessNewThread, ProcessSwitchThread, OnSession, history
  <2>5. CASE \E id \in 0..(MaxReqs + 1), always \in BOOLEAN : Approved(id, always)
    BY <2>5 DEF Approved
  <2> QED
    BY <2>1, <2>2, <2>3, <2>4, <2>5 DEF Command
<1>1. h.pc = "dispatch"
  BY DEF Command, ProcessUndo, ProcessRedo, ProcessResume, ProcessInterrupt, ProcessCompact,
         ProcessClear, ProcessNewThread, ProcessSwitchThread, ProcessOther, AnswerMissed,
         Denied, Approved
<1>2. /\ h.s = cur /\ cur \in Sess /\ cur # NoSess /\ h.t \in Thr
      /\ PromptsOK /\ HandlerFields \subseteq DOMAIN h
  BY <1>0, <1>1, ExtAssumption DEF PromptInv, WayOK, IInv, HandlerOK
<1>3. SessionOK(ses[cur]) /\ ThreadFields \subseteq DOMAIN T
  BY <1>2 DEF IInv, Shape, SessionOK, T
<1>4. ASSUME NEW th, Finish(th), Revoke, UNCHANGED <<cur, map, p>> PROVE PromptInv'
  BY <1>0, <1>1, <1>2, <1>4, RevokeForgets, MessageEnds
<1>5. ASSUME NEW th, Finish(th), th.st = T.st, th.pend = T.pend, UNCHANGED <<cur, map, shown, p>>
      PROVE  PromptInv'
  <2>1. shown' = [e \in Ext |-> shown'[e]]
    BY <1>2, <1>5 DEF PromptsOK
  <2>2. \A e \in Ext : shown'[e] # 0 =>
            \/ map[e] = h.t /\ th.st = "AwaitingApproval" /\ th.pend.id = shown'[e]
            \/ map[e] # h.t /\ shown'[e] = shown[e]
    BY <1>2, <1>5 DEF PromptsOK, Answerable, T
  <2> QED
    BY <1>0, <1>1, <1>5, <2>1, <2>2, MessageEnds
<1>6. CASE ProcessUndo \/ ProcessRedo \/ \E j \in 1..MaxCheckpoints : ProcessResume(j)
  BY <1>4, <1>6 DEF ProcessUndo, ProcessRedo, ProcessResume, Restore
<1>7. CASE ProcessInterrupt \/ ProcessClear \/ \E id \in 0..(MaxReqs + 1) : Denied(id)
  BY <1>4, <1>7 DEF ProcessInterrupt, ProcessClear, Denied
<1>8. CASE ProcessCompact
  <2>1. PICK turns \in Compacted(T.turns) : Finish([T EXCEPT !.turns = turns])
    BY <1>8 DEF ProcessCompact
  <2> DEFINE th == [T EXCEPT !.turns = turns]
  <2>2. th.st = T.st /\ th.pend = T.pend
    BY <1>3 DEF ThreadFields
  <2>3. Finish(th) /\ UNCHANGED <<cur, map, shown, p>>
    BY <1>8, <2>1 DEF ProcessCompact, history, asked
  <2> HIDE DEF th
  <2> QED
    BY <1>5, <2>2, <2>3
<1>9. CASE ProcessOther \/ \E id \in 0..(MaxReqs + 1) : AnswerMissed(id)
  <2>1. Finish(T) /\ UNCHANGED <<cur, map, shown, p>>
    BY <1>9 DEF ProcessOther, AnswerMissed, Decline, history, asked
  <2> QED
    BY <1>5, <2>1
<1>10. ASSUME NEW sn, OnSession(sn), NEW N \in SUBSET Fresh, \A f \in N, k \in Keys :
              map[k] # f,
              sn.there = ses[cur].there \cup N, \A t \in Thr \ N : sn.th[t] = ses[cur].th[t]
       PROVE  PromptInv'
  <2>1. SessId = cur
    BY <1>2, LookupCur
  <2>2. UNCHANGED <<cur, map, shown, p>> /\ h'.pc = "idle" /\ ses'[cur] = sn
    BY <1>2, <1>10, <2>1 DEF OnSession, Waiting, history, asked
  <2> QED
    BY <1>0, <1>1, <1>10, <2>2, SessionKept
<1>11. CASE ProcessNewThread
  <2> DEFINE sn == create_thread(ses[cur], NewId)
  <2>1. NewId \in Unused
    BY <1>11, FS_EmptySet DEF ProcessNewThread, NewId
  <2>2. OnSession(sn)
    BY <1>2, <1>11, LookupCur DEF ProcessNewThread
  <2> DEFINE N == {NewId}
  <2>3. N \in SUBSET Fresh /\ NewId \in Thr /\ \A f \in N, k \in Keys : map[k] # f
    BY <2>1, UnusedIsNew DEF Thr
  <2>4. sn.there = ses[cur].there \cup N /\ \A t \in Thr \ N : sn.th[t] = ses[cur].th[t]
    BY <1>3, <2>3, CreateOK DEF create_thread, SessionOK, SessionFields
  <2> HIDE DEF sn, N
  <2> QED
    BY <1>10, <2>2, <2>3, <2>4
<1>12. CASE \E t \in Thr : ProcessSwitchThread(t)
  <2> DEFINE sn == switch_thread(ses[cur])
  <2>1. OnSession(sn)
    BY <1>2, <1>12, LookupCur DEF ProcessSwitchThread
  <2> DEFINE N == {}
  <2>2. N \in SUBSET Fresh /\ \A f \in N, k \in Keys : map[k] # f
    OBVIOUS
  <2>3. sn.there = ses[cur].there \cup N /\ \A t \in Thr \ N : sn.th[t] = ses[cur].th[t]
    BY <1>3 DEF switch_thread, SessionOK, SessionFields
  <2> HIDE DEF sn, N
  <2> QED
    BY <1>10, <2>1, <2>2, <2>3
<1>13. ASSUME NEW id \in 0..(MaxReqs + 1), NEW always \in BOOLEAN, Approved(id, always)
       PROVE  PromptInv'
  <2>1. /\ h'.pc = "loop" /\ h'.s = h.s /\ h'.t = h.t /\ h'.ext = h.ext
        /\ UNCHANGED <<cur, map, p>> /\ T.st = "AwaitingApproval"
        /\ shown' = [e \in Ext |-> IF shown[e] = T.pend.id THEN 0 ELSE shown[e]]
    BY <1>2, <1>13 DEF Approved, Pending, HandlerFields
  <2> DEFINE th == [T EXCEPT !.st = "Processing", !.pend = NoReq]
  <2>2. PICK auto : ses' = [ses EXCEPT ![h.s].th[h.t] = th, ![h.s].auto = auto]
    BY <1>2, <1>13 DEF Approved, IInv, Shape, SessionOK, SessionFields
  <2>3. th.st = "Processing"
    BY <1>3 DEF ThreadFields
  <2> HIDE DEF th
  <2>4. ses'[cur] = [[ses[cur] EXCEPT !.th[h.t] = th] EXCEPT !.auto = auto]
    BY <1>2, <2>2 DEF IInv, Shape
  <2>5. /\ ses'[cur].there = ses[cur].there
        /\ \A t \in Thr : ses'[cur].th[t] = IF t = h.t THEN th ELSE ses[cur].th[t]
    BY <1>2, <1>3, <2>4 DEF SessionOK, SessionFields
  <2>6. \A e \in Ext : shown'[e] # 0 => map[e] # h.t /\ shown'[e] = shown[e]
    BY <1>2, <2>1 DEF PromptsOK, Answerable, T
  <2>7. shown' = [e \in Ext |-> shown'[e]]
    BY <2>1
  <2> QED
    BY <1>0, <1>1, <2>1, <2>3, <2>5, <2>6, <2>7, TurnGoesOn
<1> QED
  BY <1>6, <1>7, <1>8, <1>9, <1>11, <1>12, <1>13 DEF Command

\* A turn, from start_turn to finalize_loop_result: its own prompt is the newest
\* request of the thread, and no window shows another of that thread.
LEMMA PromptTurns ==
  ASSUME IInv, PromptInv,
         \/ BeginTurn \/ LoopError \/ Nudge \/ LoopText
         \/ \E b \in Batches : LoopCalls(b)
         \/ ToolRuns \/ ToolGated
  PROVE  PromptInv'
<1> SUFFICES ASSUME ~raced' PROVE PromptInv'
  BY DEF PromptInv
<1>0. ~raced /\ UNCHANGED <<cur, map, p>>
  <2>1. CASE BeginTurn
    BY <2>1 DEF BeginTurn, history
  <2>2. CASE Nudge \/ ToolRuns
    BY <2>2 DEF Nudge, ToolRuns, memory, history
  <2>3. ASSUME NEW b \in Batches, LoopCalls(b) PROVE ~raced /\ UNCHANGED <<cur, map, p>>
    BY <2>3 DEF LoopCalls, memory, history
  <2>4. CASE LoopError
    BY <2>4 DEF LoopError
  <2>5. CASE LoopText
    BY <2>5 DEF LoopText
  <2>6. CASE ToolGated
    BY <2>6 DEF ToolGated
  <2> QED
    BY <2>1, <2>2, <2>3, <2>4, <2>5, <2>6
<1>1. h.pc \in {"dispatch", "loop", "tools"} /\ h.t \in Thr
  BY DEF BeginTurn, LoopError, Nudge, LoopText, LoopCalls, ToolRuns, ToolGated, IInv, HandlerOK
<1>2. /\ h.s = cur /\ cur \in Sess /\ cur # NoSess /\ h.ext \in Ext
      /\ PromptsOK /\ HandlerFields \subseteq DOMAIN h
      /\ h.pc \in {"loop", "tools"} => T.st = "Processing"
  BY <1>0, <1>1, ExtAssumption DEF PromptInv, WayOK, InTurn, IInv, HandlerOK
<1>3. SessionOK(ses[cur]) /\ ThreadFields \subseteq DOMAIN T
  BY <1>1, <1>2 DEF IInv, Shape, SessionOK, T
\* A thread that awaits nothing is shown nowhere.
<1>4. ASSUME T.st # "AwaitingApproval" PROVE \A e \in Ext : shown[e] # 0 => map[e] # h.t
  BY <1>2, <1>4 DEF PromptsOK, Answerable, T
<1>5. shown = [e \in Ext |-> shown[e]]
  BY <1>2 DEF PromptsOK
<1>6. ASSUME NEW th, Finish(th), h.pc \in {"loop", "tools"}, shown' = shown PROVE PromptInv'
  BY <1>0, <1>1, <1>2, <1>4, <1>5, <1>6, MessageEnds
<1>7. CASE Nudge \/ ToolRuns \/ \E b \in Batches : LoopCalls(b)
  <2>1. /\ ses' = ses /\ shown' = shown /\ h.pc \in {"loop", "tools"}
        /\ h'.pc \in {"loop", "tools"} /\ h'.s = h.s /\ h'.t = h.t /\ h'.ext = h.ext
    BY <1>2, <1>7 DEF Nudge, ToolRuns, LoopCalls, memory, history, asked, HandlerFields
  <2>2. \A t \in Thr : ses'[cur].th[t] = IF t = h.t THEN T ELSE ses[cur].th[t]
    BY <1>2, <2>1 DEF T
  <2>3. T.st = "Processing" /\ T.st # "AwaitingApproval"
    BY <1>2, <2>1
  <2>4. ses'[cur].there = ses[cur].there
    BY <2>1
  <2>5. shown' = [e \in Ext |-> shown'[e]] /\ \A e \in Ext : shown'[e] # 0 =>
            map[e] # h.t /\ shown'[e] = shown[e]
    BY <1>4, <1>5, <2>1, <2>3
  <2> QED
    BY <1>0, <1>1, <2>1, <2>2, <2>3, <2>4, <2>5, TurnGoesOn
<1>8. CASE BeginTurn
  <2>1. /\ shown' = shown /\ T.st # "AwaitingApproval"
        /\ h'.pc = "loop" /\ h'.s = h.s /\ h'.t = h.t /\ h'.ext = h.ext
    BY <1>2, <1>8 DEF BeginTurn, TakesInput, history, asked, HandlerFields
  <2>2. PICK turns : ses' = [ses EXCEPT ![h.s].th[h.t] = [@ EXCEPT !.st = "Processing", !.turns = turns]]
    <3>1. PICK old : ses' = [ses EXCEPT ![h.s].th[h.t] = start_turn([@ EXCEPT !.turns = old], nin + 1)]
      BY <1>8 DEF BeginTurn
    <3> QED
      BY <3>1 DEF start_turn
  <2> DEFINE th == [T EXCEPT !.st = "Processing", !.turns = turns]
  <2>3. th.st = "Processing"
    BY <1>3 DEF ThreadFields
  <2>4. ses' = Put(h.s, h.t, th)
    BY <1>1, <1>2, <1>3, <2>2 DEF Put, T, IInv, Shape, SessionOK, SessionFields
  <2> HIDE DEF th
  <2>5. ses'[cur] = [ses[cur] EXCEPT !.th[h.t] = th]
    BY <1>2, <2>4 DEF IInv, Shape, Put
  <2>6. /\ ses'[cur].there = ses[cur].there
        /\ \A t \in Thr : ses'[cur].th[t] = IF t = h.t THEN th ELSE ses[cur].th[t]
    BY <1>1, <1>3, <2>5 DEF SessionOK, SessionFields
  <2>7. shown' = [e \in Ext |-> shown'[e]] /\ \A e \in Ext : shown'[e] # 0 =>
            map[e] # h.t /\ shown'[e] = shown[e]
    BY <1>4, <1>5, <2>1
  <2> QED
    BY <1>0, <1>1, <2>1, <2>3, <2>6, <2>7, TurnGoesOn
<1>9. CASE LoopError \/ LoopText
  <2>1. h.pc = "loop" /\ shown' = shown /\ \E th : Finish(th)
    BY <1>9 DEF LoopError, LoopText, asked
  <2> QED
    BY <1>6, <2>1
<1>10. CASE ToolGated
  <2> DEFINE q == [id |-> nreq + 1, in |-> h.in, call |-> Head(h.calls)]
             th == [T EXCEPT !.st = "AwaitingApproval", !.pend = q]
  <2>1. /\ h.pc = "tools" /\ Finish(th)
        /\ shown' = [shown EXCEPT ![h.ext] = IF h.s = cur /\
               map[h.ext] = h.t THEN nreq + 1 ELSE @]
    BY <1>10 DEF ToolGated, await_approval
  <2>2. th.st = "AwaitingApproval" /\ th.pend.id = nreq + 1
    BY <1>3 DEF ThreadFields
  <2> HIDE DEF th
  <2>3. shown' = [e \in Ext |-> IF e = h.ext /\ map[e] = h.t THEN nreq + 1 ELSE shown[e]]
    BY <1>2, <1>5, <2>1
  <2>4. \A e \in Ext : shown[e] # 0 => map[e] # h.t
    BY <1>2, <1>4, <2>1
  <2>5. \A e \in Ext : shown'[e] # 0 =>
            \/ map[e] = h.t /\ th.st = "AwaitingApproval" /\ th.pend.id = shown'[e]
            \/ map[e] # h.t /\ shown'[e] = shown[e]
    BY <2>2, <2>3, <2>4
  <2>6. shown' = [e \in Ext |-> shown'[e]]
    BY <2>3
  <2> QED
    BY <1>0, <1>1, <2>1, <2>5, <2>6, MessageEnds
<1> QED
  BY <1>7, <1>8, <1>9, <1>10

\* Every step keeps the prompts answerable.
LEMMA PromptStep == IInv /\ PromptInv /\ [Next]_vars => PromptInv'
<1> SUFFICES ASSUME IInv, PromptInv, [Next]_vars PROVE PromptInv'
  OBVIOUS
<1>1. CASE UNCHANGED vars \/ (\E i \in Inputs : Writer(i)) \/ Pruner \/ Tick \/ Restart
  BY <1>1, PromptOthers
<1>2. CASE (\E e \in Ext : Receive(e)) \/ Handler
  BY <1>2, PromptResolve, PromptCommands, PromptTurns DEF Handler
<1> QED
  BY <1>1, <1>2 DEF Next

\* A prompt that a window shows can be answered from it - the window leads to the
\* thread that awaits that very request - until it is answered, taken back or lost
\* with its session, whatever other windows do; a prune that overlaps with a
\* message is the one exception (approval.rs:117, session_manager.rs:81).
THEOREM PromptsStayAnswerable == Spec => []PromptIsAnswerable
<1>1. PromptInv => PromptIsAnswerable
  BY DEF PromptInv, PromptsOK, Answerable, PromptIsAnswerable
<1>2. Spec => [](IInv /\ PromptInv)
  BY InitOK, StepOK, PromptInit, PromptStep, PTL DEF Spec
<1> QED
  BY <1>1, <1>2, PTL

-----------------------------------------------------------------------------
(* Turns and messages *)

TurnsTo(n) == [in : 1..n, out : 0..n]
MessagesTo(n) == [role : {"user", "assistant"}, n : 1..n]

\* Messages of which every answer follows the input it answers, inputs in order.
Orderly(m) ==
    /\ \A k \in DOMAIN m : m[k].role = "assistant" => k > 1 /\ m[k - 1] = User(m[k].n)
    /\ \A j, k \in DOMAIN m :
          j < k /\ m[j].role = "user" /\ m[k].role = "user" => m[j].n < m[k].n

\* The last input among the messages is x.
EndsWith(m, x) ==
    /\ m # <<>>
    /\ \/ m[Len(m)] = User(x)
       \/ Len(m) > 1 /\ m[Len(m)] = Assistant(m[Len(m)].n) /\ m[Len(m) - 1] = User(x)

\* What Append makes of a sequence.
LEMMA Appended ==
  ASSUME NEW S, NEW m \in Seq(S), NEW e
  PROVE  LET a == Append(m, e) IN
         /\ Len(m) \in Nat /\ Len(a) = Len(m) + 1 /\ a[Len(a)] = e /\ a # <<>>
         /\ DOMAIN m = 1..Len(m) /\ DOMAIN a = 1..Len(m) + 1 /\ a[Len(m) + 1] = e
         /\ \A k \in 1..Len(m) : a[k] = m[k]
         /\ \A k \in DOMAIN a : a[k] = e \/ (k \in DOMAIN m /\ a[k] = m[k])
         /\ e \in S => a \in Seq(S)
<1> DEFINE a == Append(m, e)
<1>1. /\ Len(m) \in Nat /\ Len(a) = Len(m) + 1 /\ a[Len(a)] = e /\ a # <<>>
      /\ DOMAIN m = 1..Len(m) /\ DOMAIN a = 1..Len(m) + 1 /\ a[Len(m) + 1] = e
      /\ \A k \in 1..Len(m) : a[k] = m[k]
  OBVIOUS
<1>2. e \in S => a \in Seq(S)
  OBVIOUS
<1> HIDE DEF a
<1>3. ASSUME NEW k \in DOMAIN a PROVE a[k] = e \/ (k \in DOMAIN m /\ a[k] = m[k])
  <2>1. k \in 1..Len(m) + 1 /\ Len(m) \in Nat
    BY <1>1
  <2>2. k \in 1..Len(m) \/ k = Len(m) + 1
    BY <2>1
  <2>3. CASE k \in 1..Len(m)
    BY <1>1, <2>3
  <2>4. CASE k = Len(m) + 1
    <3>1. a[Len(m) + 1] = e
      BY <1>1
    <3> QED BY <2>4, <3>1, Zenon
  <2> QED BY <2>2, <2>3, <2>4
<1> QED BY <1>1, <1>2, <1>3 DEF a

\* A newer input, and an answer to the last input, keep messages in order.
LEMMA OrderlyMore ==
  ASSUME NEW S, NEW m \in Seq(S), Orderly(m), NEW x \in Nat
  PROVE  /\ (\A k \in DOMAIN m : m[k].n \in Nat /\ m[k].n < x) => Orderly(Append(m, User(x)))
         /\ m # <<>> /\ m[Len(m)] = User(x) => Orderly(Append(m, Assistant(x)))
<1>0. Len(m) \in Nat /\ DOMAIN m = 1..Len(m)
  OBVIOUS
<1>1. ASSUME \A k \in DOMAIN m : m[k].n \in Nat /\ m[k].n < x PROVE Orderly(Append(m, User(x)))
  <2> DEFINE new == Append(m, User(x))
  <2>1. /\ DOMAIN new = 1..Len(m) + 1 /\ new[Len(m) + 1] = User(x)
        /\ \A k \in 1..Len(m) : new[k] = m[k]
    OBVIOUS
  <2>2. User(x).role = "user" /\ User(x).n = x
    BY DEF User
  <2> HIDE DEF new
  <2>3. \A k \in DOMAIN new : new[k].role = "assistant" => k > 1 /\ new[k - 1] = User(new[k].n)
    BY <1>0, <2>1, <2>2 DEF Orderly
  <2>4. \A j, k \in DOMAIN new :
          j < k /\ new[j].role = "user" /\ new[k].role = "user" => new[j].n < new[k].n
    BY <1>0, <1>1, <2>1, <2>2 DEF Orderly
  <2> QED BY <2>3, <2>4 DEF Orderly, new
<1>2. ASSUME m # <<>>, m[Len(m)] = User(x) PROVE Orderly(Append(m, Assistant(x)))
  <2> DEFINE new == Append(m, Assistant(x))
  <2>1. /\ DOMAIN new = 1..Len(m) + 1 /\ new[Len(m) + 1] = Assistant(x)
        /\ \A k \in 1..Len(m) : new[k] = m[k]
    OBVIOUS
  <2>2. Assistant(x).role = "assistant" /\ Assistant(x).n = x /\ Len(m) > 0
    BY <1>2 DEF Assistant
  <2> HIDE DEF new
  <2>3. \A k \in DOMAIN new : new[k].role = "assistant" => k > 1 /\ new[k - 1] = User(new[k].n)
    BY <1>0, <1>2, <2>1, <2>2 DEF Orderly
  <2>4. \A j, k \in DOMAIN new :
          j < k /\ new[j].role = "user" /\ new[k].role = "user" => new[j].n < new[k].n
    BY <1>0, <2>1, <2>2 DEF Orderly
  <2> QED BY <2>3, <2>4 DEF Orderly, new
<1> QED BY <1>1, <1>2

\* With the answer to the last input messages still end with that input.
LEMMA Answered ==
  ASSUME NEW S, NEW m \in Seq(S), NEW x, NEW y, m # <<>>, m[Len(m)] = User(x)
  PROVE  LET b == Append(m, Assistant(y)) IN
         /\ EndsWith(b, x)
         /\ \A k \in DOMAIN b : b[k] = Assistant(y) \/ (k \in DOMAIN m /\ b[k] = m[k])
<1> DEFINE b == Append(m, Assistant(y))
<1>1. /\ Len(m) \in Nat /\ Len(b) = Len(m) + 1 /\ b[Len(b)] = Assistant(y) /\ b # <<>>
      /\ \A k \in 1..Len(m) : b[k] = m[k]
      /\ \A k \in DOMAIN b : b[k] = Assistant(y) \/ (k \in DOMAIN m /\ b[k] = m[k])
  BY Appended
<1>2. Len(m) > 0
  OBVIOUS
<1> HIDE DEF b
<1>3. Len(b) > 1 /\ b[Len(b) - 1] = User(x)
  BY <1>1, <1>2
<1>4. Assistant(y).n = y
  BY DEF Assistant
<1>5. EndsWith(b, x)
  BY <1>1, <1>3, <1>4 DEF EndsWith
<1> QED BY <1>1, <1>5 DEF b

\* Thread::messages: typed, in order if the turns are, and ending with the last input.
LEMMA MessagesOK ==
  ASSUME NEW n \in Nat, NEW turns \in Seq(TurnsTo(n))
  PROVE  /\ messages(turns) \in Seq(MessagesTo(n))
         /\ Belongs(turns) => Orderly(messages(turns))
         /\ turns = <<>> => messages(turns) = <<>>
         /\ turns # <<>> => EndsWith(messages(turns), turns[Len(turns)].in)
<1> DEFINE S == MessagesTo(n)
           L == Len(turns)
           piece(k) == IF turns[k].out = 0 THEN <<User(turns[k].in)>>
                       ELSE <<User(turns[k].in), Assistant(turns[k].out)>>
           seqs == [k \in DOMAIN turns |-> piece(k)]
<1>1. L \in Nat /\ DOMAIN turns = 1..L /\ messages(turns) = FlattenSeq(seqs)
  BY DEF messages
<1>2. \A k \in 1..L : turns[k].in \in 1..n /\ turns[k].out \in 0..n
  <2>1. \A k \in 1..L : turns[k] \in TurnsTo(n)
    OBVIOUS
  <2> QED BY <2>1 DEF TurnsTo
<1>3. \A k \in 1..L : piece(k) \in Seq(S)
  <2> SUFFICES ASSUME NEW k \in 1..L PROVE piece(k) \in Seq(S)
    OBVIOUS
  <2>1. User(turns[k].in) \in S /\ (turns[k].out # 0 => Assistant(turns[k].out) \in S)
    BY <1>2 DEF User, Assistant, MessagesTo
  <2> HIDE DEF S
  <2> QED BY <2>1
<1>4. seqs \in Seq(Seq(S)) /\ Len(seqs) = L /\ \A k \in 1..L : seqs[k] = piece(k)
  <2> HIDE DEF piece, S
  <2> QED BY <1>1, <1>3
<1>5. CASE turns = <<>>
  <2>1. seqs = <<>> /\ Orderly(<<>>)
    BY <1>4, <1>5 DEF Orderly
  <2>2. FlattenSeq(seqs) = <<>>
    BY <2>1 DEF FlattenSeq
  <2>3. messages(turns) = <<>> /\ <<>> \in Seq(S)
    BY <1>1, <2>2
  <2> QED BY <1>5, <2>1, <2>3
<1>6. CASE turns # <<>>
  <2> HIDE DEF seqs
  <2>1. L > 0 /\ seqs # <<>>
    BY <1>1, <1>4, <1>6
  <2>2. PICK f \in [1..L -> Seq(S)] :
            /\ f[1] = seqs[1] /\ \A i \in 2..L : f[i] = f[i - 1] \o seqs[i]
            /\ FlattenSeq(seqs) = f[L]
    <3> HIDE DEF S, piece, L
    <3> QED BY <1>4, <2>1, FlattenSteps
  <2> DEFINE Below(m, x) == \A k \in DOMAIN m : m[k].n \in Nat /\ m[k].n <= x
             Good(m, i) == /\ EndsWith(m, turns[i].in)
                           /\ Belongs(turns) => Orderly(m) /\ Below(m, turns[i].in)
             P == {i \in 0..L : i # 0 => Good(f[i], i)}
\* One turn more.
  <2> DEFINE Ready(m, i) == Belongs(turns) => Orderly(m) /\ \A k \in DOMAIN m : m[k].n \in Nat /\ m[k].n < turns[i].in
  <2>3. ASSUME NEW i \in 1..L, NEW m \in Seq(S), Ready(m, i)
        PROVE  Good(m \o piece(i), i)
    <3> DEFINE x == turns[i].in
               y == turns[i].out
               a == Append(m, User(x))
               b == Append(a, Assistant(y))
    <3>1. x \in Nat /\ y \in Nat /\ User(x) \in S /\ User(x).n = x /\ Assistant(y).n = y
          /\ (y # 0 => Assistant(y) \in S)
      BY <1>2 DEF User, Assistant, MessagesTo
    <3>p. piece(i) = IF y = 0 THEN <<User(x)>> ELSE <<User(x), Assistant(y)>>
      OBVIOUS
    <3>r. Belongs(turns) => Orderly(m) /\ \A k \in DOMAIN m : m[k].n \in Nat /\ m[k].n < x
      BY <2>3
    <3>g. ASSUME NEW c, EndsWith(c, x), Belongs(turns) => Orderly(c) /\ Below(c, x) PROVE Good(c, i)
      BY <3>g
    <3>b. Belongs(turns) /\ y # 0 => y = x
      BY <1>1, <3>1 DEF Belongs
    <3> HIDE DEF S, x, y, piece, Good, Ready
    <3>2. a \in Seq(S) /\ a # <<>> /\ a[Len(a)] = User(x) /\ EndsWith(a, x)
      BY <3>1, Appended DEF EndsWith
    <3>3. Belongs(turns) => Orderly(a) /\ Below(a, x)
      <4> SUFFICES ASSUME Belongs(turns) PROVE Orderly(a) /\ Below(a, x)
        OBVIOUS
      <4>1. Orderly(a)
        BY <3>1, <3>r, OrderlyMore
      <4>2. \A k \in DOMAIN a : a[k] = User(x) \/ (k \in DOMAIN m /\ a[k] = m[k])
        BY <3>1, Appended
      <4> HIDE DEF a
      <4>3. Below(a, x)
        BY <3>1, <3>r, <4>2
      <4> QED BY <4>1, <4>3
    <3>4. CASE y = 0
      <4>1. m \o piece(i) = a
        BY <3>p, <3>4
      <4> QED BY <3>2, <3>3, <3>g, <4>1
    <3>5. CASE y # 0
      <4>1. m \o piece(i) = b
        BY <3>p, <3>5
      <4> HIDE DEF a
      <4>2. /\ EndsWith(b, x)
            /\ \A k \in DOMAIN b : b[k] = Assistant(y) \/ (k \in DOMAIN a /\ b[k] = a[k])
        BY <3>2, Answered
      <4>3. Belongs(turns) => Orderly(b) /\ Below(b, x)
        <5> SUFFICES ASSUME Belongs(turns) PROVE Orderly(b) /\ Below(b, x)
          OBVIOUS
        <5>1. y = x
          BY <3>5, <3>b
        <5>2. Orderly(b)
          BY <3>1, <3>2, <3>3, <5>1, OrderlyMore
        <5> HIDE DEF b
        <5>3. Below(b, x)
          BY <3>1, <3>3, <4>2, <5>1
        <5> QED BY <5>2, <5>3
      <4> HIDE DEF b
      <4> QED BY <3>g, <4>1, <4>2, <4>3
    <3> QED BY <3>4, <3>5
  <2>4. 0 \in P
    BY <1>1
  <2>5. ASSUME NEW i \in 1..L, i - 1 \in P PROVE i \in P
    <3>1. CASE i = 1
      <4>1. Orderly(<<>>) /\ <<>> \in Seq(S) /\ <<>> \o piece(i) = piece(i)
        BY <1>3 DEF Orderly
      <4>2. f[i] = piece(i)
        BY <1>4, <2>2, <3>1
      <4>r. Ready(<<>>, i)
        BY <4>1
      <4> HIDE DEF piece, Good, S, Ready
      <4>3. Good(<<>> \o piece(i), i)
        BY <2>3, <4>1, <4>r
      <4> QED BY <4>1, <4>2, <4>3
    <3>2. CASE i # 1
      <4>1. i - 1 \in 1..L /\ Good(f[i - 1], i - 1) /\ f[i - 1] \in Seq(S)
        BY <2>2, <2>5, <3>2
      <4>2. f[i] = f[i - 1] \o piece(i)
        <5>1. i \in 2..L
          BY <3>2
        <5> QED BY <1>4, <2>2, <5>1
      <4>3. Belongs(turns) => turns[i - 1].in < turns[i].in
        <5>1. i - 1 \in DOMAIN turns /\ i \in DOMAIN turns /\ i - 1 < i
          BY <1>1, <4>1
        <5> HIDE DEF L
        <5> QED BY <5>1 DEF Belongs
      <4>4. turns[i - 1].in \in Nat /\ turns[i].in \in Nat
        BY <1>2, <4>1
      <4>5. Ready(f[i - 1], i)
        BY <4>1, <4>3, <4>4
      <4> HIDE DEF piece, Good, S, Ready, L
      <4>6. Good(f[i - 1] \o piece(i), i)
        BY <2>3, <4>1, <4>5
      <4>7. i # 0 => Good(f[i], i)
        BY <4>2, <4>6
      <4>8. i \in 0..L
        BY <1>1
      <4> QED BY <4>7, <4>8
    <3> QED BY <3>1, <3>2
  <2>6. L \in P
    <3> HIDE DEF P, L
    <3>1. \A i \in 0..L : i \in P
      BY <1>1, <2>4, <2>5, Climb
    <3> QED BY <1>1, <3>1
  <2>7. messages(turns) = f[L] /\ f[L] \in Seq(S) /\ Good(f[L], L)
    <3> HIDE DEF Good, S
    <3> QED BY <1>1, <2>1, <2>2, <2>6
  <2> QED BY <1>6, <2>7
<1> QED BY <1>5, <1>6

\* Thread::restore_from_messages: typed, in order with answers in place if the
\* messages are, and ending with the last input.
LEMMA RestoreOK ==
  ASSUME NEW n \in Nat, NEW m \in Seq(MessagesTo(n))
  PROVE  /\ restore_from_messages(m) \in Seq(TurnsTo(n))
         /\ Orderly(m) => Belongs(restore_from_messages(m))
         /\ m = <<>> => restore_from_messages(m) = <<>>
         /\ \A x : EndsWith(m, x) => /\ restore_from_messages(m) # <<>>
                                     /\ Newest(restore_from_messages(m)) = x
<1> DEFINE L == Len(m)
           U == {k \in DOMAIN m : m[k].role = "user"}
           users == Sift([k \in DOMAIN m |-> k], U)
           answer(k) == IF k < Len(m) /\ m[k + 1].role = "assistant" THEN m[k + 1].n ELSE 0
           turn(j) == [in |-> m[users[j]].n, out |-> answer(users[j])]
           new == [j \in DOMAIN users |-> turn(j)]
<1>1. L \in Nat /\ DOMAIN m = 1..L /\ restore_from_messages(m) = new
  BY DEF restore_from_messages
<1>2. \A k \in 1..L : m[k].role \in {"user", "assistant"} /\ m[k].n \in 1..n
  <2>1. \A k \in 1..L : m[k] \in MessagesTo(n)
    OBVIOUS
  <2> QED BY <2>1 DEF MessagesTo
<1>3. /\ users \in Seq((1..L) \cap U)
      /\ \A a, b \in DOMAIN users : a < b => users[a] < users[b]
      /\ \A k \in (1..L) \cap U : users # <<>> /\ k <= users[Len(users)]
  <2>1. users = Sift([k \in 1..L |-> k], U)
    BY <1>1
  <2> HIDE DEF U, L, users
  <2> QED BY <1>1, <2>1, SiftPositions
<1>4. (1..L) \cap U = U /\ U \subseteq 1..L /\ \A k \in U : m[k].role = "user"
  BY <1>1
<1> HIDE DEF users
<1>5. Len(users) \in Nat /\ DOMAIN users = 1..Len(users) /\ \A j \in DOMAIN users : users[j] \in U
  BY <1>3, <1>4
<1>6. \A k \in U : answer(k) \in 0..n
  BY <1>1, <1>2, <1>4
<1> HIDE DEF U
<1>7. \A j \in DOMAIN users : turn(j).in \in 1..n /\ turn(j).out \in 0..n
  <2> HIDE DEF answer
  <2> QED BY <1>2, <1>4, <1>5, <1>6
<1>8. new \in Seq(TurnsTo(n)) /\ Len(new) = Len(users) /\ DOMAIN new = DOMAIN users
      /\ \A j \in DOMAIN users : new[j] = turn(j)
  <2>1. \A j \in DOMAIN users : turn(j) \in TurnsTo(n)
    <3> HIDE DEF answer
    <3> QED BY <1>7 DEF TurnsTo
  <2> HIDE DEF turn
  <2> QED BY <1>5, <2>1
<1> HIDE DEF new
<1>9. ASSUME Orderly(m) PROVE Belongs(new)
  <2>1. ASSUME NEW j \in DOMAIN new PROVE new[j].out \in {0, new[j].in}
    <3> DEFINE k == users[j]
    <3>1. k \in 1..L /\ new[j].in = m[k].n /\ new[j].out = answer(k)
      BY <1>4, <1>5, <1>8
    <3>2. ASSUME k < L, m[k + 1].role = "assistant" PROVE m[k + 1].n = m[k].n
      <4> HIDE DEF k
      <4>1. k + 1 \in DOMAIN m /\ (k + 1) - 1 = k
        BY <1>1, <3>1, <3>2
      <4>2. m[k] = User(m[k + 1].n)
        BY <1>9, <3>2, <4>1 DEF Orderly
      <4> QED BY <4>2 DEF User
    <3> HIDE DEF k
    <3> QED BY <3>1, <3>2
  <2>2. ASSUME NEW i \in DOMAIN new, NEW j \in DOMAIN new, i < j PROVE new[i].in < new[j].in
    <3>1. /\ users[i] \in U /\ users[j] \in U /\ users[i] < users[j]
          /\ new[i].in = m[users[i]].n /\ new[j].in = m[users[j]].n
      BY <1>3, <1>5, <1>8, <2>2
    <3> QED BY <1>1, <1>4, <1>9, <3>1 DEF Orderly
  <2> QED BY <2>1, <2>2 DEF Belongs
<1>10. ASSUME m = <<>> PROVE new = <<>>
  <2>1. L = 0 /\ U = {}
    BY <1>1, <1>4, <1>10
  <2>2. Len(users) = 0
    BY <1>5, <2>1
  <2> QED BY <1>8, <2>2
<1>11. ASSUME NEW x, EndsWith(m, x) PROVE new # <<>> /\ Newest(new) = x
  <2>1. L > 0
    BY <1>1, <1>11 DEF EndsWith
  <2>2. PICK k \in 1..L : k \in U /\ m[k] = User(x) /\ \A j \in 1..L : j > k => j \notin U
    <3>1. User(x).role = "user"
      BY DEF User
    <3>2. CASE m[L] = User(x)
      <4>1. L \in U /\ L \in 1..L
        BY <1>1, <2>1, <3>1, <3>2 DEF U
      <4> QED BY <1>1, <3>2, <4>1
    <3>3. CASE L > 1 /\ m[L] = Assistant(m[L].n) /\ m[L - 1] = User(x)
      <4>1. L \notin U /\ L - 1 \in U
        <5>1. Assistant(m[L].n).role = "assistant"
          BY DEF Assistant
        <5> QED BY <1>1, <3>1, <3>3, <5>1 DEF U
      <4>2. L - 1 \in 1..L /\ \A j \in 1..L : j > L - 1 => j = L
        <5>1. L \in Nat /\ L > 1
          BY <1>1, <3>3
        <5> HIDE DEF L
        <5> QED BY <5>1
      <4> QED BY <3>3, <4>1, <4>2
    <3> QED BY <1>11, <3>2, <3>3 DEF EndsWith
  <2>3. users # <<>> /\ k <= users[Len(users)] /\ Len(users) \in DOMAIN users
    BY <1>3, <1>5, <2>2
  <2>4. users[Len(users)] = k
    BY <1>4, <1>5, <2>2, <2>3
  <2>5. new[Len(new)].in = x
    BY <1>8, <2>2, <2>3, <2>4 DEF User
  <2>6. new # <<>>
    BY <1>8, <2>3
  <2> QED BY <2>5, <2>6 DEF Newest
<1> QED BY <1>1, <1>8, <1>9, <1>10, <1>11

\* ContextCompactor::compact keeps the newest turns, one at least, in their order.
LEMMA CompactedOK ==
  ASSUME NEW n \in Nat, NEW turns \in Seq(TurnsTo(n)), NEW new \in Compacted(turns)
  PROVE  /\ new \in Seq(TurnsTo(n))
         /\ Belongs(turns) => Belongs(new)
         /\ new = <<>> <=> turns = <<>>
         /\ turns # <<>> => new[Len(new)] = turns[Len(turns)]
<1>1. CASE new = turns
  BY <1>1
<1>2. CASE new # turns
  <2>1. PICK k \in Keeps : new = SubSeq(turns, Len(turns) - k + 1, Len(turns)) /\ Len(turns) > k
    BY <1>2 DEF Compacted, truncate_turns
  <2>2. k \in Nat /\ k > 0 /\ Len(turns) \in Nat
    BY BoundAssumption
  <2> DEFINE d == Len(turns) - k
  <2>3. d \in Nat /\ d > 0
    BY <2>1, <2>2
  <2>4. /\ new \in Seq(TurnsTo(n)) /\ Len(new) = k
        /\ \A i \in 1..k : new[i] = turns[d + i] /\ d + i \in DOMAIN turns
    BY <2>1, <2>2
  <2>5. Belongs(turns) => Belongs(new)
    <3> SUFFICES ASSUME Belongs(turns) PROVE Belongs(new)
      OBVIOUS
    <3> HIDE DEF d
    <3>1. DOMAIN new = 1..k
      BY <2>4
    <3>2. \A i \in 1..k : new[i].out \in {0, new[i].in}
      BY <2>4 DEF Belongs
    <3>3. ASSUME NEW i \in 1..k, NEW j \in 1..k, i < j PROVE new[i].in < new[j].in
      <4>1. d + i < d + j
        BY <2>2, <2>3, <3>3
      <4> QED BY <2>4, <4>1 DEF Belongs
    <3> QED BY <3>1, <3>2, <3>3 DEF Belongs
  <2>6. new # <<>> /\ turns # <<>> /\ new[Len(new)] = turns[Len(turns)]
    <3>1. k \in 1..k /\ d + k = Len(turns)
      BY <2>2
    <3>2. new[k] = turns[Len(turns)]
      BY <2>4, <3>1
    <3>3. Len(new) = k /\ Len(new) # 0 /\ Len(turns) # 0
      BY <2>1, <2>2, <2>4
    <3>4. new # <<>> /\ turns # <<>>
      BY <3>3
    <3> QED BY <3>2, <3>3, <3>4
  <2> QED BY <2>4, <2>5, <2>6
<1> QED BY <1>1, <1>2

-----------------------------------------------------------------------------
(* What is invariant about conversations *)

\* The newest turn is that of input i.
InputOf(turns, i) == turns # <<>> /\ turns[Len(turns)].in = i

\* A thread t after n inputs and q requests, in order unless t is in o; one that
\* awaits an answer does so for its newest turn.
ThreadFits(th, t, n, q, o) ==
    /\ th.st \in ThreadState
    /\ th.turns \in Seq(TurnsTo(n))
    /\ th.pend \in [id : 0..q, in : 0..n, call : Calls \cup {NoCall}]
    /\ th.st = "AwaitingApproval" => th.pend.call \in Gated /\ InputOf(th.turns, th.pend.in)
    /\ t \notin o => Belongs(th.turns)

SessionFits(sn) == sn.stale \in BOOLEAN /\ sn.auto \subseteq {ToolOf[c] : c \in Gated}

Threads ==
    /\ \A s \in Sess : SessionFits(ses[s])
    /\ \A s \in Sess, t \in Thr : ThreadFits(ses[s].th[t], t, nin, nreq, overlap)

\* A stack of checkpoints of such a thread.
StackFits(stack, t, n, o) ==
    /\ stack \in Seq(Seq(MessagesTo(n)))
    /\ t \notin o => \A k \in DOMAIN stack : Orderly(stack[k])

UndoFits(mgr, t, n, o) ==
    /\ mgr = [u |-> mgr.u, r |-> mgr.r]
    /\ StackFits(mgr.u, t, n, o) /\ StackFits(mgr.r, t, n, o) /\ Len(mgr.u) <= MaxCheckpoints

Undos ==
    /\ undo = [t \in Thr |-> undo[t]]
    /\ \A t \in Thr : UndoFits(undo[t], t, nin, overlap)

\* The rows of a thread, and the one writer that is at work on them, if any.
Rows ==
    /\ db \in [Thr -> Seq(MessagesTo(nin))]
    /\ \A t \in Thr : t \notin overlap => Orderly(db[t])

Older(m, i) == \A k \in DOMAIN m : m[k].n < i

Writers ==
    /\ tasks \in [Inputs -> [pc : {"none", "user", "assistant"}, t : Thr \cup {NoThread}, resp : BOOLEAN]]
    /\ \A i \in Inputs : IF tasks[i].pc = "none" THEN tasks[i].t = NoThread
                                                 ELSE tasks[i].t \in Thr /\ i <= nin
    /\ \A i, j \in Inputs : tasks[i].t = tasks[j].t /\ tasks[i].t \in Thr \ overlap => i = j
    /\ \A i \in Inputs : tasks[i].t \in Thr \ overlap =>
          /\ tasks[i].pc = "user" => Older(db[tasks[i].t], i)
          /\ tasks[i].pc = "assistant" => LET m == db[tasks[i].t] IN
                                              m # <<>> /\ m[Len(m)] = User(i)

\* What is to be found in the history is there, or its writer is at work on it.
Covered(e, i) ==
    \/ {User(i), Assistant(i)} \subseteq Range(db[Parse[e]])
    \/ tasks[i].t = Parse[e] /\ tasks[i].pc = "user" /\ tasks[i].resp
    \/ tasks[i].t = Parse[e] /\ tasks[i].pc = "assistant" /\ User(i) \in Range(db[Parse[e]])

Dues ==
    /\ due \subseteq Ext \X Inputs /\ \A d \in due : d[2] <= nin
    /\ ~raced => \A d \in due : Valid(d[1]) /\ Canon[d[1]] = d[1] => Covered(d[1], d[2])

\* A turn that will be written is the newest, and nothing of it is written yet.
Unwritten ==
    /\ nin \in Inputs => tasks[nin].pc = "none"
    /\ \A t \in Thr : Older(db[t], nin)
    /\ \A d \in due : d[2] # nin

\* The message in hand.
Hand(n) == [pc : PC, ext : Ext \cup {NoExt}, s : Sess \cup {NoSess}, t : Thr \cup {NoThread},
            hist : Seq(MessagesTo(n)), in : 0..n, save : BOOLEAN,
            calls : Seq(Calls), iter : 0..MaxIter, texec : BOOLEAN]

InHand ==
    /\ h \in Hand(nin)
    /\ h.pc # "idle" => h.ext \in Ext
    /\ h.pc = "insert" /\ Parse[h.ext] \notin overlap => Orderly(h.hist)
    /\ InTurn => InputOf(T.turns, h.in)
    /\ h.save => InTurn /\ h.in = nin /\ Unwritten
    /\ h.pc = "tools" => /\ h.calls # <<>>
                         /\ nreq < MaxReqs \/ \A i \in DOMAIN h.calls : ~NeedsApproval(h.calls[i])
    /\ ~raced /\ h.pc \in {"mapthread", "undomgr", "dispatch", "loop", "tools"}
          /\ Valid(h.ext) /\ Canon[h.ext] = h.ext => h.t = Parse[h.ext]

Plain ==
    /\ map \in [Keys -> Thr \cup {NoThread}]
    /\ p \in [pc : {"idle", "collect", "remove", "unmap", "unundo"}, thr : SUBSET Thr]
    /\ nin \in 0..MaxInputs /\ nreq \in 0..MaxReqs /\ spent \in 0..Budget
    /\ shown \in [Ext -> 0..MaxReqs] /\ overlap \subseteq Thr /\ raced \in BOOLEAN

HistoryInv == Plain /\ Threads /\ Undos /\ Rows /\ Writers /\ Dues /\ InHand

-----------------------------------------------------------------------------
(* What fits stays fit as inputs come. *)

LEMMA Wider ==
  ASSUME NEW a \in Nat, NEW b \in Nat, a <= b
  PROVE  /\ Seq(TurnsTo(a)) \subseteq Seq(TurnsTo(b))
         /\ Seq(MessagesTo(a)) \subseteq Seq(MessagesTo(b))
         /\ Seq(Seq(MessagesTo(a))) \subseteq Seq(Seq(MessagesTo(b)))
<1>1. TurnsTo(a) \subseteq TurnsTo(b) /\ MessagesTo(a) \subseteq MessagesTo(b)
  BY DEF TurnsTo, MessagesTo
<1>2. \A S, V : S \subseteq V => Seq(S) \subseteq Seq(V)
  OBVIOUS
<1> QED BY <1>1, <1>2

\* A thread or a stack that fits goes on to.
LEMMA FitsOn ==
  ASSUME NEW n \in Nat, NEW n1 \in Nat, n <= n1, NEW q \in Nat, NEW q1 \in Nat, q <= q1,
         NEW o, NEW o1, o \subseteq o1, NEW t
  PROVE  /\ \A th : ThreadFits(th, t, n, q, o) => ThreadFits(th, t, n1, q1, o1)
         /\ \A stack : StackFits(stack, t, n, o) => StackFits(stack, t, n1, o1)
         /\ \A mgr : UndoFits(mgr, t, n, o) => UndoFits(mgr, t, n1, o1)
<1>1. ASSUME NEW th, ThreadFits(th, t, n, q, o) PROVE ThreadFits(th, t, n1, q1, o1)
  <2>1. th.turns \in Seq(TurnsTo(n1)) /\ (t \notin o1 => Belongs(th.turns))
    BY <1>1, Wider DEF ThreadFits
  <2>2. th.pend \in [id : 0..q1, in : 0..n1, call : Calls \cup {NoCall}]
    BY <1>1 DEF ThreadFits
  <2> QED BY <1>1, <2>1, <2>2 DEF ThreadFits
<1>2. ASSUME NEW stack, StackFits(stack, t, n, o) PROVE StackFits(stack, t, n1, o1)
  BY <1>2, Wider DEF StackFits
<1> QED BY <1>1, <1>2 DEF UndoFits

\* A new thread fits.
LEMMA NewFits ==
  ASSUME NEW n \in Nat, NEW q \in Nat, NEW o, NEW t
  PROVE  ThreadFits(NewThread, t, n, q, o) /\ UndoFits(NewUndo, t, n, o) /\ SessionFits(NewSession)
<1>1. ThreadFits(NewThread, t, n, q, o)
  <2>1. NewThread.st = "Idle" /\ NewThread.turns = <<>> /\ NewThread.pend = NoReq
    BY DEF NewThread
  <2>2. NoReq \in [id : 0..q, in : 0..n, call : Calls \cup {NoCall}]
    BY DEF NoReq
  <2>3. Belongs(<<>>) /\ <<>> \in Seq(TurnsTo(n))
    BY DEF Belongs
  <2> QED BY <2>1, <2>2, <2>3 DEF ThreadFits, ThreadState
<1>2. UndoFits(NewUndo, t, n, o)
  BY BoundAssumption DEF UndoFits, StackFits, NewUndo
<1>3. SessionFits(NewSession)
  BY DEF SessionFits, NewSession
<1> QED BY <1>1, <1>2, <1>3

\* What a command or a turn makes of a thread that fits.
LEMMA ThreadEdits ==
  ASSUME NEW n \in Nat, NEW q \in Nat, NEW o, NEW t, NEW th, ThreadFields \subseteq DOMAIN th,
         ThreadFits(th, t, n, q, o)
  PROVE  /\ \A st \in {"Idle", "Interrupted", "Processing"} :
               /\ ThreadFits([th EXCEPT !.st = st], t, n, q, o)
               /\ ThreadFits([th EXCEPT !.st = st, !.pend = NoReq], t, n, q, o)
         /\ \A st \in {"Idle", "Interrupted", "Processing"}, turns \in Seq(TurnsTo(n)) :
               (t \notin o => Belongs(turns)) =>
                   ThreadFits([th EXCEPT !.st = st, !.turns = turns], t, n, q, o)
         /\ \A turns \in Compacted(th.turns) : ThreadFits([th EXCEPT !.turns = turns], t, n, q, o)
<1> DEFINE Req0 == [id : 0..q, in : 0..n, call : Calls \cup {NoCall}]
<1>1. NoReq \in Req0 /\ th.pend \in Req0
  BY DEF NoReq, ThreadFits
<1> HIDE DEF Req0
<1>2. ASSUME NEW st \in {"Idle", "Interrupted", "Processing"}
      PROVE  /\ ThreadFits([th EXCEPT !.st = st], t, n, q, o)
             /\ ThreadFits([th EXCEPT !.st = st, !.pend = NoReq], t, n, q, o)
  <2> DEFINE a == [th EXCEPT !.st = st]
             b == [th EXCEPT !.st = st, !.pend = NoReq]
  <2>1. /\ a.st = st /\ a.turns = th.turns /\ a.pend = th.pend
        /\ b.st = st /\ b.turns = th.turns /\ b.pend = NoReq
    BY DEF ThreadFields
  <2> HIDE DEF a, b
  <2>2. ThreadFits(a, t, n, q, o) /\ ThreadFits(b, t, n, q, o)
    BY <1>1, <2>1 DEF ThreadFits, ThreadState, Req0
  <2> QED BY <2>2 DEF a, b
<1>3. ASSUME NEW st \in {"Idle", "Interrupted", "Processing"}, NEW turns \in Seq(TurnsTo(n)),
             t \notin o => Belongs(turns)
      PROVE  ThreadFits([th EXCEPT !.st = st, !.turns = turns], t, n, q, o)
  <2> DEFINE a == [th EXCEPT !.st = st, !.turns = turns]
  <2>1. a.st = st /\ a.turns = turns /\ a.pend = th.pend
    BY DEF ThreadFields
  <2> HIDE DEF a
  <2>2. ThreadFits(a, t, n, q, o)
    BY <1>1, <1>3, <2>1 DEF ThreadFits, ThreadState, Req0
  <2> QED BY <2>2 DEF a
<1>4. ASSUME NEW turns \in Compacted(th.turns)
      PROVE  ThreadFits([th EXCEPT !.turns = turns], t, n, q, o)
  <2> DEFINE a == [th EXCEPT !.turns = turns]
  <2>1. a.st = th.st /\ a.turns = turns /\ a.pend = th.pend
    BY DEF ThreadFields
  <2> HIDE DEF a
  <2>2. /\ turns \in Seq(TurnsTo(n)) /\ (Belongs(th.turns) => Belongs(turns))
        /\ \A i : InputOf(th.turns, i) => InputOf(turns, i)
    BY CompactedOK DEF ThreadFits, InputOf
  <2>3. ThreadFits(a, t, n, q, o)
    BY <1>1, <2>1, <2>2 DEF ThreadFits, Req0
  <2> QED BY <2>3 DEF a
<1> QED BY <1>2, <1>3, <1>4

\* start_turn, after compaction, and complete_turn.
LEMMA TurnEdits ==
  ASSUME NEW n \in Nat, NEW turns \in Seq(TurnsTo(n))
  PROVE  /\ LET new == Append(turns, [in |-> n + 1, out |-> 0]) IN
            /\ new \in Seq(TurnsTo(n + 1)) /\ InputOf(new, n + 1)
            /\ Belongs(turns) => Belongs(new)
         /\ \A i : InputOf(turns, i) =>
               LET new == [turns EXCEPT ![Len(turns)].out = i] IN
               /\ new \in Seq(TurnsTo(n))
               /\ Belongs(turns) => Belongs(new)
<1>1. Len(turns) \in Nat /\ DOMAIN turns = 1..Len(turns)
      /\ \A k \in 1..Len(turns) : turns[k] \in TurnsTo(n)
  OBVIOUS
<1>2. \A x \in TurnsTo(n) : x.in \in 1..n /\ x.out \in 0..n
  BY DEF TurnsTo
<1> DEFINE a == [in |-> n + 1, out |-> 0]
           new == Append(turns, a)
<1>3. new \in Seq(TurnsTo(n + 1)) /\ InputOf(new, n + 1)
  <2>1. turns \in Seq(TurnsTo(n + 1))
    <3>1. n + 1 \in Nat /\ n <= n + 1
      OBVIOUS
    <3> QED BY <3>1, Wider
  <2>2. a.in = n + 1 /\ a \in TurnsTo(n + 1)
    BY DEF TurnsTo
  <2> HIDE DEF a
  <2>3. new \in Seq(TurnsTo(n + 1)) /\ new # <<>> /\ new[Len(new)] = a
    BY <2>1, <2>2, Appended
  <2> HIDE DEF new
  <2> QED BY <2>2, <2>3 DEF InputOf
<1>4. ASSUME Belongs(turns) PROVE Belongs(new)
  <2>1. /\ DOMAIN new = 1..Len(turns) + 1 /\ new[Len(turns) + 1] = a
        /\ \A k \in 1..Len(turns) : new[k] = turns[k]
    BY <1>1
  <2>2. a.in = n + 1 /\ a.out = 0
    OBVIOUS
  <2> HIDE DEF new, a
  <2>3. \A k \in DOMAIN new : new[k].out \in {0, new[k].in}
    BY <1>1, <1>4, <2>1, <2>2 DEF Belongs
  <2>4. ASSUME NEW j \in DOMAIN new, NEW k \in DOMAIN new, j < k PROVE new[j].in < new[k].in
    <3>1. CASE k = Len(turns) + 1
      BY <1>1, <1>2, <2>1, <2>2, <2>4, <3>1
    <3>2. CASE k # Len(turns) + 1
      BY <1>1, <1>4, <2>1, <2>4, <3>2 DEF Belongs
    <3> QED BY <3>1, <3>2
  <2> QED BY <2>3, <2>4 DEF Belongs
<1>5. ASSUME NEW i, InputOf(turns, i)
      PROVE  LET b == [turns EXCEPT ![Len(turns)].out = i] IN
             b \in Seq(TurnsTo(n)) /\ (Belongs(turns) => Belongs(b))
  <2> DEFINE L == Len(turns)
             b == [turns EXCEPT ![L].out = i]
             last == [turns[L] EXCEPT !.out = i]
  <2>1. L \in 1..L /\ turns[L] \in TurnsTo(n) /\ turns[L].in = i
    BY <1>1, <1>5 DEF InputOf
  <2>2. last \in TurnsTo(n) /\ last.in = i /\ last.out = i
    BY <2>1 DEF TurnsTo
  <2>3. b = [k \in 1..L |-> IF k = L THEN last ELSE turns[k]]
    BY <1>1
  <2> HIDE DEF last
  <2>4. b \in Seq(TurnsTo(n)) /\ DOMAIN b = 1..L /\ b[L] = last /\ \A k \in 1..L : k # L => b[k] = turns[k]
    BY <1>1, <2>1, <2>2, <2>3
  <2> HIDE DEF b, L
  <2>5. ASSUME Belongs(turns) PROVE Belongs(b)
    BY <1>1, <2>1, <2>2, <2>4, <2>5 DEF Belongs, L
  <2> QED BY <2>4, <2>5 DEF b, L
<1> QED BY <1>3, <1>4, <1>5

-----------------------------------------------------------------------------
(* What steps do to the threads of all sessions *)

\* Threads stay or are new; the thread b may become th.
Effects(b, th) ==
    \A s \in Sess, t \in Thr :
        \/ ses'[s].th[t] = ses[s].th[t] \/ ses'[s].th[t] = NewThread
        \/ t = b /\ ses'[s].th[t] = th

\* Such a step leaves every thread in order if th is.
LEMMA ThreadsKept ==
  ASSUME Threads, nin \in Nat, nin' \in Nat, nin <= nin', nreq \in Nat, nreq' \in Nat, nreq <= nreq',
         overlap \subseteq overlap', NEW b, NEW th, Effects(b, th),
         ThreadFits(th, b, nin', nreq', overlap'), \A s \in Sess : SessionFits(ses'[s])
  PROVE  Threads'
<1>1. ASSUME NEW s \in Sess, NEW t \in Thr
      PROVE  ThreadFits(ses'[s].th[t], t, nin', nreq', overlap')
  <2>1. ThreadFits(ses[s].th[t], t, nin', nreq', overlap')
    BY FitsOn DEF Threads
  <2>2. ThreadFits(NewThread, t, nin', nreq', overlap')
    BY NewFits
  <2> QED BY <2>1, <2>2 DEF Effects
<1> QED BY <1>1 DEF Threads

\* The sessions stay.
LEMMA ThreadsSame ==
  ASSUME Threads, nin \in Nat, nin' \in Nat, nin <= nin', nreq \in Nat, nreq' \in Nat, nreq <= nreq',
         overlap \subseteq overlap', ses' = ses
  PROVE  Threads'
<1>1. Effects(NoThread, NewThread)
  BY DEF Effects
<1>2. ThreadFits(NewThread, NoThread, nin', nreq', overlap')
  BY NewFits
<1> QED BY <1>1, <1>2, ThreadsKept DEF Threads

\* get_or_create_session adds a session without threads at most.
LEMMA SesWithEffects ==
  ASSUME Shape, HandlerOK, Threads, nin \in Nat, nreq \in Nat
  PROVE  \A s \in Sess : /\ SesWith[s] = ses[s] \/ SesWith[s] = NewSession
                         /\ SessionFits(SesWith[s])
                         /\ \A t \in Thr : SesWith[s].th[t] = ses[s].th[t] \/ SesWith[s].th[t] = NewThread
<1>1. SessId \in Sess
  BY SessionLookup
<1>2. \A s \in Sess : SesWith[s] = ses[s] \/ SesWith[s] = NewSession
  BY <1>1 DEF SesWith, Shape
<1> QED BY <1>2, NewFits, NewSessionOK DEF Threads

\* Writing one thread leaves the rest of its session.
LEMMA PutFields ==
  ASSUME Shape, NEW a \in Sess, NEW b \in Thr, NEW th
  PROVE  \A s \in Sess : /\ Put(a, b, th)[s].stale = ses[s].stale /\ Put(a, b, th)[s].auto = ses[s].auto
                         /\ Put(a, b, th)[s].there = ses[s].there
<1>1. \A s \in Sess : s # a => Put(a, b, th)[s] = ses[s]
  BY DEF Put, Shape
<1>2. Put(a, b, th)[a] = [ses[a] EXCEPT !.th[b] = th]
  BY DEF Put, Shape
<1>3. SessionFields \subseteq DOMAIN ses[a]
  BY DEF Shape, SessionOK
<1>4. Put(a, b, th)[a].stale = ses[a].stale /\ Put(a, b, th)[a].auto = ses[a].auto
      /\ Put(a, b, th)[a].there = ses[a].there
  BY <1>2, <1>3 DEF SessionFields
<1> QED BY <1>1, <1>4

\* The end of a message.
LEMMA FinishEffects ==
  ASSUME Shape, Threads, h.s \in Sess, h.t \in Thr, NEW th, ThreadFields \subseteq DOMAIN th,
         Finish(th), nin \in Nat, nreq \in Nat
  PROVE  Effects(h.t, th) /\ \A s \in Sess : SessionFits(ses'[s])
<1> DEFINE new == Put(h.s, h.t, th)
<1>1. ses' = [s \in Sess |-> IF s = cur THEN new[s] ELSE NewSession]
  BY DEF Finish, Put
<1>2. /\ \A s \in Sess, t \in Thr : new[s].th[t] = IF s = h.s /\ t = h.t THEN th ELSE ses[s].th[t]
      /\ \A s \in Sess : new[s].stale = ses[s].stale /\ new[s].auto = ses[s].auto
  BY PutOK, PutFields
<1> HIDE DEF new
<1>3. \A s \in Sess : SessionFits(ses'[s])
  BY <1>1, <1>2, NewFits DEF Threads, SessionFits
<1>4. Effects(h.t, th)
  BY <1>1, <1>2, NewSessionOK DEF Effects
<1> QED BY <1>3, <1>4

\* The invariants a step of the history starts from.
HistoryAt == IInv /\ PromptInv /\ HistoryInv

\* Facts that every step may use.
LEMMA Numbers ==
  ASSUME HistoryInv
  PROVE  nin \in Nat /\ nreq \in Nat /\ nin <= MaxInputs /\ nreq <= MaxReqs /\ overlap \subseteq Thr
         /\ MaxInputs \in Nat /\ MaxReqs \in Nat
  BY BoundAssumption DEF HistoryInv, Plain

\* The thread in hand fits.
LEMMA HandFits ==
  ASSUME HistoryAt, h.s \in Sess, h.t \in Thr
  PROVE  /\ ThreadFields \subseteq DOMAIN T /\ ThreadFits(T, h.t, nin, nreq, overlap)
         /\ T.turns \in Seq(TurnsTo(nin)) /\ SessionFits(ses[h.s]) /\ SessionOK(ses[h.s])
  BY DEF HistoryAt, IInv, Shape, SessionOK, HistoryInv, Threads, T, ThreadFits

\* After the message the handler waits for the next one.
LEMMA HandWaits ==
  ASSUME h' = Waiting, nin' \in Nat
  PROVE  InHand'
<1>1. h'.pc = "idle" /\ ~h'.save
  BY DEF Waiting
<1>2. Waiting \in Hand(nin')
  <2>1. <<>> \in Seq(MessagesTo(nin')) /\ <<>> \in Seq(Calls) /\ 0 \in 0..nin' /\ 0 \in 0..MaxIter
    BY BoundAssumption
  <2> QED BY <2>1 DEF Waiting, PC, Hand
<1> QED BY <1>1, <1>2 DEF InHand, InTurn

\* On the way to its thread a message has neither turn nor calls.
LEMMA HandOnTheWay ==
  ASSUME h' \in Hand(nin'), h'.pc \notin {"loop", "tools"}, ~h'.save,
         h'.pc # "idle" => h'.ext \in Ext,
         h'.pc = "insert" /\ Parse[h'.ext] \notin overlap' => Orderly(h'.hist),
         ~raced' /\ h'.pc \in {"mapthread", "undomgr", "dispatch"} /\ Valid(h'.ext)
             /\ Canon[h'.ext] = h'.ext => h'.t = Parse[h'.ext]
  PROVE  InHand'
  BY DEF InHand, InTurn, Valid

\* The fields of the message in hand, and changes of some of them.
LEMMA HandFields ==
  ASSUME NEW n \in Nat, NEW m \in Nat, n <= m, NEW g \in Hand(n)
  PROVE  /\ g.pc \in PC /\ g.s \in Sess \cup {NoSess} /\ g.t \in Thr \cup {NoThread}
         /\ g.hist \in Seq(MessagesTo(n)) /\ g.in \in 0..n /\ g.save \in BOOLEAN
         /\ g.calls \in Seq(Calls) /\ g.iter \in 0..MaxIter
         /\ g \in Hand(m) /\ DOMAIN g = HandlerFields
<1>1. /\ g.pc \in PC /\ g.s \in Sess \cup {NoSess} /\ g.t \in Thr \cup {NoThread}
      /\ g.hist \in Seq(MessagesTo(n)) /\ g.in \in 0..n /\ g.save \in BOOLEAN
      /\ g.calls \in Seq(Calls) /\ g.iter \in 0..MaxIter
  BY DEF Hand
<1>2. g.hist \in Seq(MessagesTo(m)) /\ g.in \in 0..m
  BY <1>1, Wider
<1>3. g \in Hand(m)
  BY <1>2 DEF Hand
<1>4. DOMAIN g = HandlerFields
  BY DEF Hand, HandlerFields
<1> QED BY <1>1, <1>3, <1>4

\* Steps that leave the database and its writers alone.
LEMMA StoreKept ==
  ASSUME HistoryInv, UNCHANGED <<db, tasks, due, overlap>>, nin' \in Nat, nin <= nin', ~raced' => ~raced
  PROVE  Rows' /\ Writers' /\ Dues'
<1> USE DEF HistoryInv
<1>1. nin \in Nat
  BY Numbers
<1>2. Rows'
  BY <1>1, Wider DEF Rows
<1>3. Writers'
  <2>1. \A i \in Inputs : i <= nin => i <= nin'
    BY <1>1, BoundAssumption DEF Inputs
  <2> QED BY <2>1 DEF Writers
<1>4. Dues'
  <2>1. \A d \in due : d[2] <= nin'
    <3>1. \A d \in due : d[2] \in Nat
      BY BoundAssumption DEF Dues, Inputs
    <3> QED BY <1>1, <3>1 DEF Dues
  <2> QED BY <2>1 DEF Dues, Covered
<1> QED BY <1>2, <1>3, <1>4

\* Steps that leave the undo histories alone.
LEMMA UndosKept ==
  ASSUME HistoryInv, undo' = undo, overlap \subseteq overlap', nin' \in Nat, nin <= nin'
  PROVE  Undos'
<1>1. nin \in Nat /\ nreq \in Nat
  BY Numbers
<1>2. \A t \in Thr : UndoFits(undo[t], t, nin', overlap')
  BY <1>1, FitsOn DEF HistoryInv, Undos
<1> QED BY <1>2 DEF HistoryInv, Undos

\* Session::create_thread leaves what a session holds.
LEMMA CreateFits ==
  ASSUME NEW sn, SessionOK(sn), SessionFits(sn), NEW t \in Thr
  PROVE  /\ SessionFits(create_thread(sn, t)) /\ create_thread(sn, t).there = sn.there \cup {t}
         /\ create_thread(sn, t).th = [sn.th EXCEPT ![t] = NewThread]
  BY DEF create_thread, SessionFits, SessionOK, SessionFields

-----------------------------------------------------------------------------
(* The steps *)

\* handle_message up to the dispatch: what is hydrated is what is stored.
LEMMA HistoryResolve ==
  ASSUME HistoryAt, PromptInv',
         \/ \E e \in Ext : Receive(e)
         \/ \E ok \in BOOLEAN : HydrateRead(ok)
         \/ HydrateInsert \/ RegisterMap \/ RegisterSession
         \/ ResolveSession \/ ResolveFind \/ ResolveMap \/ ResolveUndo
  PROVE  HistoryInv'
<1> USE DEF HistoryAt
<1>n. /\ nin \in Nat /\ nreq \in Nat /\ HistoryInv /\ IInv /\ h \in Hand(nin) /\ InHand /\ Plain /\ Threads
      /\ Shape /\ HandlerOK
  BY Numbers DEF HistoryInv, InHand, IInv
<1>g. h.pc \in PC /\ h.save \in BOOLEAN /\ DOMAIN h = HandlerFields /\ h.hist \in Seq(MessagesTo(nin))
  BY <1>n, HandFields
<1>0. /\ UNCHANGED <<db, tasks, due, overlap, nin, nreq, shown>> /\ (~raced' => ~raced)
      /\ raced' \in BOOLEAN
  <2>1. CASE \E e \in Ext : Receive(e)
    BY <1>n, <2>1 DEF Receive, asked, counts, Plain
  <2>2. ASSUME NEW ok \in BOOLEAN, HydrateRead(ok)
        PROVE  UNCHANGED <<db, tasks, due, overlap, nin, nreq, shown, raced>>
    BY <2>2 DEF HydrateRead, history, asked, counts
  <2>3. CASE HydrateInsert \/ RegisterMap \/ RegisterSession \/ ResolveSession
    BY <1>n, <2>3 DEF HydrateInsert, RegisterMap, RegisterSession, ResolveSession, history, asked, counts, Plain
  <2>4. CASE ResolveFind \/ ResolveMap \/ ResolveUndo
    BY <1>n, <2>4 DEF ResolveFind, ResolveMap, ResolveUndo, history, asked, counts, Plain
  <2> QED BY <1>n, <2>1, <2>2, <2>3, <2>4 DEF Plain
<1>s. Rows' /\ Writers' /\ Dues'
  BY <1>0, <1>n, StoreKept
<1>a. ASSUME ses' = ses PROVE Threads'
  BY <1>0, <1>n, <1>a, ThreadsSame
<1>b. ASSUME NEW b, NEW th, Effects(b, th), ThreadFits(th, b, nin, nreq, overlap),
             \A s \in Sess : SessionFits(ses'[s])
      PROVE  Threads'
  BY <1>0, <1>n, <1>b, ThreadsKept
<1>u. ASSUME undo' = undo PROVE Undos'
  BY <1>0, <1>n, <1>u, UndosKept
<1>p. ASSUME map' \in [Keys -> Thr \cup {NoThread}], p' = p, spent' \in 0..Budget PROVE Plain'
  BY <1>0, <1>n, <1>p DEF Plain
<1>q. ASSUME NEW pc \in PC \ {"loop", "tools", "idle"}, h.ext \in Ext, h' \in Hand(nin), h'.pc = pc, h'.save = h.save,
             h'.ext = h.ext, h.pc \notin {"loop", "tools"}, pc # "insert",
             ~raced /\ pc \in {"mapthread", "undomgr", "dispatch"} /\ Valid(h.ext)
             /\ Canon[h.ext] = h.ext => h'.t = Parse[h.ext]
      PROVE  InHand'
  <2>1. ~h.save
    BY <1>n, <1>q DEF InHand, InTurn
  <2> QED BY <1>0, <1>q, <2>1, HandOnTheWay
<1>1. ASSUME NEW e \in Ext, Receive(e) PROVE HistoryInv'
  <2>1. /\ UNCHANGED <<ses, undo, map, p, spent>>
        /\ h' = [Waiting EXCEPT !.pc = IF Parse[e] = NoThread THEN "resolve" ELSE "hydrate", !.ext = e]
    BY <1>1 DEF Receive, memory
  <2>2. h' \in Hand(nin') /\ h'.pc \in {"resolve", "hydrate"} /\ h'.ext = e /\ h'.save = FALSE
    <3>1. <<>> \in Seq(MessagesTo(nin)) /\ <<>> \in Seq(Calls) /\ 0 \in 0..nin /\ 0 \in 0..MaxIter
      BY <1>n, BoundAssumption
    <3> QED BY <1>0, <2>1, <3>1 DEF Waiting, Hand, PC
  <2>3. InHand'
    BY <2>2, HandOnTheWay
  <2>4. Plain'
    BY <1>n, <1>p, <2>1 DEF Plain
  <2> QED BY <1>s, <1>a, <1>u, <2>1, <2>3, <2>4 DEF HistoryInv
<1>2. ASSUME NEW ok \in BOOLEAN, HydrateRead(ok) PROVE HistoryInv'
  <2> DEFINE t0 == Parse[h.ext]
  <2>1. /\ ses' = SesWith /\ UNCHANGED <<undo, map, p>> /\ h.pc = "hydrate" /\ SessId \in Sess
        /\ h.ext \in Ext /\ t0 \in Thr
    BY <1>2, <1>n, SessionLookup DEF HydrateRead, HandlerOK, InHand
  <2>2. Effects(NoThread, NewThread) /\ \A s \in Sess : SessionFits(ses'[s])
    BY <1>n, <2>1, SesWithEffects DEF Effects
  <2>3. Threads'
    BY <1>b, <1>n, <2>2, NewFits
  <2>4. spent' \in 0..Budget
    <3>1. spent' = spent \/ (spent < Budget /\ spent' = spent + 1)
      BY <1>2 DEF HydrateRead, Spend
    <3> QED BY <1>n, <3>1, BoundAssumption DEF Plain
  <2>5. Plain'
    BY <1>n, <1>p, <2>1, <2>4 DEF Plain
  <2>6. InHand'
    <3>1. CASE h' = [h EXCEPT !.pc = "resolve", !.s = SessId]
      <4>1. h' \in Hand(nin) /\ h'.pc = "resolve" /\ h'.save = h.save /\ h'.ext = h.ext
        BY <1>n, <1>g, <2>1, <3>1 DEF Hand, PC
      <4> QED BY <1>q, <2>1, <4>1 DEF PC
    <3>2. ASSUME NEW hist \in {db[t0], <<>>}, h' = [h EXCEPT !.pc = "insert", !.s = SessId, !.hist = hist]
          PROVE  InHand'
      <4>1. hist \in Seq(MessagesTo(nin)) /\ (t0 \notin overlap => Orderly(hist))
        <5>1. Orderly(<<>>) /\ <<>> \in Seq(MessagesTo(nin))
          BY DEF Orderly
        <5>2. db[t0] \in Seq(MessagesTo(nin)) /\ (t0 \notin overlap => Orderly(db[t0]))
          BY <1>n, <2>1 DEF HistoryInv, Rows
        <5> QED BY <5>1, <5>2
      <4>2. h' \in Hand(nin) /\ h'.pc = "insert" /\ h'.save = h.save /\ h'.ext = h.ext /\ h'.hist = hist
        BY <1>n, <1>g, <2>1, <3>2, <4>1 DEF Hand, PC
      <4>3. ~h.save
        BY <1>n, <2>1 DEF InHand, InTurn
      <4> QED BY <1>0, <2>1, <4>1, <4>2, <4>3, HandOnTheWay
    <3>3. \/ h' = [h EXCEPT !.pc = "resolve", !.s = SessId]
          \/ \E hist \in {db[t0], <<>>} : h' = [h EXCEPT !.pc = "insert", !.s = SessId, !.hist = hist]
      BY <1>2 DEF HydrateRead
    <3> QED BY <3>1, <3>2, <3>3
  <2> QED BY <1>s, <1>u, <2>1, <2>3, <2>5, <2>6 DEF HistoryInv
<1>3. CASE HydrateInsert
  <2> DEFINE t0 == Parse[h.ext]
             turns0 == restore_from_messages(h.hist)
             sn == create_thread(ses[h.s], t0)
             th0 == [NewThread EXCEPT !.turns = turns0]
             new == [sn EXCEPT !.th[t0].turns = turns0]
  <2>1. /\ h.pc = "insert" /\ h.s \in Sess /\ t0 \in Thr /\ h.ext \in Ext
        /\ UNCHANGED <<undo, map, p, spent>> /\ h' = [h EXCEPT !.pc = "regmap", !.hist = <<>>]
        /\ (t0 \notin overlap => Orderly(h.hist))
    BY <1>3, <1>n DEF HydrateInsert, HandlerOK, InHand
  <2>2. ses' = [ses EXCEPT ![h.s] = new]
    BY <1>3, <2>1, <1>n DEF HydrateInsert, Shape
  <2>3. /\ SessionFits(sn) /\ SessionOK(sn) /\ sn.th[t0] = NewThread
        /\ \A t \in Thr : t # t0 => sn.th[t] = ses[h.s].th[t]
    <3>1. SessionOK(ses[h.s]) /\ SessionFits(ses[h.s])
      BY <1>n, <2>1 DEF Shape, Threads
    <3>2. t0 \in Thr
      BY <2>1
    <3> HIDE DEF t0
    <3>3. SessionFits(sn)
      BY <3>1, <3>2, CreateFits
    <3>4. SessionOK(sn) /\ \A t \in Thr : sn.th[t] = IF t = t0 THEN NewThread ELSE ses[h.s].th[t]
      BY <3>1, <3>2, CreateOK
    <3> QED BY <3>2, <3>3, <3>4
  <2> HIDE DEF sn, turns0
  <2>4. SessionFits(new) /\ new.th[t0] = th0 /\ \A t \in Thr : t # t0 => new.th[t] = sn.th[t]
    BY <2>1, <2>3 DEF SessionOK, SessionFields, SessionFits
  <2> HIDE DEF new
  <2>5. Effects(t0, th0) /\ \A s \in Sess : SessionFits(ses'[s])
    BY <1>n, <2>1, <2>2, <2>3, <2>4 DEF Effects, Shape, Threads
  <2>6. ThreadFits(th0, t0, nin, nreq, overlap)
    <3>1. turns0 \in Seq(TurnsTo(nin)) /\ (t0 \notin overlap => Belongs(turns0))
      BY <1>g, <1>n, <2>1, RestoreOK DEF turns0
    <3>2. th0.st = "Idle" /\ th0.turns = turns0 /\ th0.pend = NewThread.pend
      BY DEF NewThread
    <3>3. ThreadFits(NewThread, t0, nin, nreq, overlap)
      BY <1>n, NewFits
    <3> HIDE DEF th0
    <3> QED BY <3>1, <3>2, <3>3 DEF ThreadFits, ThreadState
  <2> HIDE DEF th0
  <2>7. Threads'
    BY <1>b, <2>5, <2>6
  <2>8. h' \in Hand(nin) /\ h'.pc = "regmap" /\ h'.save = h.save /\ h'.ext = h.ext
    <3>1. <<>> \in Seq(MessagesTo(nin))
      OBVIOUS
    <3> QED BY <1>n, <1>g, <2>1, <3>1 DEF Hand, PC
  <2>9. InHand'
    BY <1>q, <2>1, <2>8 DEF PC
  <2>10. Plain'
    BY <1>n, <1>p, <2>1 DEF Plain
  <2> QED BY <1>s, <1>u, <2>1, <2>7, <2>9, <2>10 DEF HistoryInv
<1>4. CASE RegisterMap \/ RegisterSession
  <2>1. /\ h.pc \in {"regmap", "regsess"} /\ UNCHANGED <<ses, undo, p, spent>>
        /\ \E pc \in {"regsess", "resolve"} : h' = [h EXCEPT !.pc = pc]
        /\ map' = map \/ map' = [map EXCEPT ![Canon[h.ext]] = Parse[h.ext]]
    BY <1>4 DEF RegisterMap, RegisterSession, Go
  <2>2. h.ext \in Ext /\ Parse[h.ext] \in Thr \cup {NoThread}
    BY <1>n, <2>1, ExtAssumption DEF InHand
  <2>3. Plain'
    BY <1>n, <1>p, <2>1, <2>2 DEF Plain
  <2>4. PICK pc \in {"regsess", "resolve"} : h' = [h EXCEPT !.pc = pc]
    BY <2>1
  <2>5. h' \in Hand(nin) /\ h'.pc = pc /\ h'.save = h.save /\ h'.ext = h.ext /\ pc \in PC
    BY <1>n, <1>g, <2>4 DEF Hand, PC
  <2>6. InHand'
    BY <1>q, <2>1, <2>2, <2>5
  <2> QED BY <1>s, <1>a, <1>u, <2>1, <2>3, <2>6 DEF HistoryInv
<1>5. CASE ResolveSession
  <2>1. /\ ses' = SesWith /\ UNCHANGED <<undo, map, p, spent>> /\ h.pc = "resolve" /\ SessId \in Sess
        /\ h.ext \in Ext /\ h' = [h EXCEPT !.pc = "find", !.s = SessId]
    BY <1>5, <1>n, SessionLookup DEF ResolveSession, InHand
  <2>2. Effects(NoThread, NewThread) /\ \A s \in Sess : SessionFits(ses'[s])
    BY <1>n, <2>1, SesWithEffects DEF Effects
  <2>3. Threads'
    BY <1>b, <1>n, <2>2, NewFits
  <2>4. Plain'
    BY <1>n, <1>p, <2>1 DEF Plain
  <2>5. h' \in Hand(nin) /\ h'.pc = "find" /\ h'.save = h.save /\ h'.ext = h.ext
    BY <1>n, <1>g, <2>1 DEF Hand, PC
  <2>6. InHand'
    BY <1>q, <2>1, <2>5 DEF PC
  <2> QED BY <1>s, <1>u, <2>1, <2>3, <2>4, <2>6 DEF HistoryInv
<1>6. CASE ResolveFind
  <2>1. /\ h.pc = "find" /\ h.s \in Sess /\ h.ext \in Ext /\ UNCHANGED <<undo, map, p, spent>>
    BY <1>6, <1>n DEF ResolveFind, HandlerOK, InHand
  <2>2. Plain'
    BY <1>n, <1>p, <2>1 DEF Plain
  <2>3. CASE map[h.ext] \in ses[h.s].there
    <3>1. ses' = ses /\ h' = [h EXCEPT !.pc = "dispatch", !.t = map[h.ext]]
      BY <1>6, <2>3 DEF ResolveFind
    <3>2. map[h.ext] \in Thr /\ map[h.ext] # NoThread
      BY <1>n, <2>1, <2>3, ExtAssumption DEF Shape, SessionOK
    <3>3. h' \in Hand(nin) /\ h'.pc = "dispatch" /\ h'.save = h.save /\ h'.ext = h.ext /\ h'.t = map[h.ext]
      BY <1>n, <1>g, <3>1, <3>2 DEF Hand, PC
    <3>4. ~raced /\ Valid(h.ext) /\ Canon[h.ext] = h.ext => map[h.ext] = Parse[h.ext]
      BY <2>1, <3>2 DEF PromptInv, KeysOK
    <3>5. InHand'
      BY <1>q, <2>1, <3>3, <3>4 DEF PC
    <3> QED BY <1>s, <1>a, <1>u, <2>1, <2>2, <3>1, <3>5 DEF HistoryInv
  <2>4. CASE map[h.ext] \notin ses[h.s].there
    <3> DEFINE sn == create_thread(ses[h.s], NewId)
    <3>1. /\ NewId \in Unused /\ h' = [h EXCEPT !.pc = "mapthread", !.t = NewId]
          /\ ses' = [ses EXCEPT ![h.s] = sn]
      BY <1>6, <1>n, <2>1, <2>4 DEF ResolveFind, NewId, Shape
    <3>2. NewId \in Thr
      BY <3>1, UnusedIsNew DEF Thr
    <3> HIDE DEF NewId, Unused
    <3>3. SessionOK(ses[h.s]) /\ SessionFits(ses[h.s])
      BY <1>n, <2>1 DEF Shape, Threads
    <3>4. SessionFits(sn) /\ \A t \in Thr : sn.th[t] = IF t = NewId THEN NewThread ELSE ses[h.s].th[t]
      BY <3>2, <3>3, CreateOK, CreateFits
    <3> HIDE DEF sn
    <3>5. Effects(NoThread, NewThread) /\ \A s \in Sess : SessionFits(ses'[s])
      BY <1>n, <2>1, <3>1, <3>4 DEF Effects, Shape, Threads
    <3>6. Threads'
      BY <1>b, <1>n, <3>5, NewFits
    <3>7. h' \in Hand(nin) /\ h'.pc = "mapthread" /\ h'.save = h.save /\ h'.ext = h.ext
      BY <1>n, <1>g, <3>1, <3>2 DEF Hand, PC
    <3>8. ~raced /\ Valid(h.ext) => Canon[h.ext] # h.ext
      <4>1. raced' = raced
        BY <1>6 DEF ResolveFind, history
      <4> QED BY <3>7, <4>1 DEF PromptInv, WayOK
    <3>9. InHand'
      BY <1>q, <2>1, <3>7, <3>8 DEF PC
    <3> QED BY <1>s, <1>u, <2>1, <2>2, <3>6, <3>9 DEF HistoryInv
  <2> QED BY <2>3, <2>4
<1>7. CASE ResolveMap \/ ResolveUndo
  <2>1. /\ h.pc \in {"mapthread", "undomgr"} /\ h.t \in Thr /\ h.ext \in Ext /\ UNCHANGED <<ses, p, spent>>
        /\ \E pc \in {"undomgr", "dispatch"} : h' = [h EXCEPT !.pc = pc]
        /\ map' = map \/ map' = [map EXCEPT ![h.ext] = h.t]
        /\ undo' = undo \/ undo' = [undo EXCEPT ![h.t] = NewUndo]
    BY <1>7, <1>n DEF ResolveMap, ResolveUndo, Go, HandlerOK, InHand
  <2>2. Plain'
    BY <1>n, <1>p, <2>1 DEF Plain
  <2>3. PICK pc \in {"undomgr", "dispatch"} : h' = [h EXCEPT !.pc = pc]
    BY <2>1
  <2>4. h' \in Hand(nin) /\ h'.pc = pc /\ h'.save = h.save /\ h'.ext = h.ext /\ pc \in PC /\ h'.t = h.t
    BY <1>n, <1>g, <2>3 DEF Hand, PC
  <2>5. ~raced /\ Valid(h.ext) /\ Canon[h.ext] = h.ext => h.t = Parse[h.ext]
    BY <1>n, <2>1 DEF InHand
  <2>6. InHand'
    BY <1>q, <2>1, <2>4, <2>5
  <2>7. Undos'
    <3>1. ASSUME undo' = [undo EXCEPT ![h.t] = NewUndo] PROVE Undos'
      BY <1>0, <1>n, <2>1, <3>1, NewFits DEF HistoryInv, Undos
    <3> QED BY <1>u, <2>1, <3>1
  <2> QED BY <1>s, <1>a, <2>1, <2>2, <2>6, <2>7 DEF HistoryInv
<1> QED
  BY <1>1, <1>2, <1>3, <1>4, <1>5, <1>6, <1>7

\* Checkpoints are taken, used and dropped.
LEMMA StackEdits ==
  ASSUME NEW n \in Nat, NEW o, NEW t, NEW stack, StackFits(stack, t, n, o)
  PROVE  /\ Len(stack) \in Nat
         /\ \A m \in Seq(MessagesTo(n)) : (t \notin o => Orderly(m)) =>
               /\ StackFits(Append(stack, m), t, n, o) /\ Len(Append(stack, m)) = Len(stack) + 1
               /\ StackFits(Tail(Append(stack, m)), t, n, o) /\ Len(Tail(Append(stack, m))) = Len(stack)
         /\ stack # <<>> => StackFits(Front(stack), t, n, o) /\ Len(stack) \in DOMAIN stack
         /\ \A j \in DOMAIN stack :
               /\ stack[j] \in Seq(MessagesTo(n)) /\ (t \notin o => Orderly(stack[j]))
               /\ StackFits(SubSeq(stack, 1, j - 1), t, n, o) /\ Len(SubSeq(stack, 1, j - 1)) <= Len(stack)
<1> DEFINE S == Seq(MessagesTo(n))
           L == Len(stack)
<1>1. stack \in Seq(S) /\ L \in Nat /\ DOMAIN stack = 1..L /\ \A k \in 1..L : stack[k] \in S
  BY DEF StackFits
<1>2. ASSUME NEW m \in S, t \notin o => Orderly(m)
      PROVE  /\ StackFits(Append(stack, m), t, n, o) /\ Len(Append(stack, m)) = L + 1
             /\ StackFits(Tail(Append(stack, m)), t, n, o) /\ Len(Tail(Append(stack, m))) = L
  <2> DEFINE a == Append(stack, m)
             b == Tail(a)
  <2> HIDE DEF S
  <2>1. /\ a \in Seq(S) /\ Len(a) = L + 1 /\ DOMAIN a = 1..L + 1 /\ a[L + 1] = m
        /\ \A k \in 1..L : a[k] = stack[k]
    BY <1>1, <1>2
  <2>2. b \in Seq(S) /\ Len(b) = L /\ DOMAIN b = 1..L /\ \A k \in 1..L : b[k] = a[k + 1]
    BY <1>1, <2>1
  <2> HIDE DEF a, b
  <2>3. ASSUME t \notin o PROVE \A k \in 1..L + 1 : Orderly(a[k])
    <3>1. \A k \in 1..L : Orderly(a[k])
      BY <1>1, <2>1, <2>3 DEF StackFits
    <3>2. Orderly(a[L + 1])
      BY <1>2, <2>1, <2>3
    <3> HIDE DEF L
    <3> QED BY <1>1, <3>1, <3>2
  <2>4. ASSUME t \notin o PROVE \A k \in 1..L : Orderly(b[k])
    <3>1. \A k \in 1..L : k + 1 \in 1..L + 1
      BY <1>1
    <3> QED BY <2>2, <2>3, <2>4, <3>1
  <2> QED BY <2>1, <2>2, <2>3, <2>4 DEF StackFits, a, b, S
<1>3. ASSUME NEW i \in 0..L
      PROVE  StackFits(SubSeq(stack, 1, i), t, n, o) /\ Len(SubSeq(stack, 1, i)) = i
  <2> DEFINE a == SubSeq(stack, 1, i)
  <2> HIDE DEF S
  <2>1. a \in Seq(S) /\ Len(a) = i /\ DOMAIN a = 1..i /\ \A k \in 1..i : a[k] = stack[k]
    BY <1>1
  <2> HIDE DEF a
  <2>2. ASSUME t \notin o PROVE \A k \in 1..i : Orderly(a[k])
    BY <1>1, <2>1, <2>2 DEF StackFits
  <2> QED BY <2>1, <2>2 DEF StackFits, a, S
<1>4. ASSUME stack # <<>> PROVE StackFits(Front(stack), t, n, o) /\ L \in DOMAIN stack
  <2>1. L > 0 /\ L - 1 \in 0..L
    BY <1>1, <1>4
  <2>2. Front(stack) = SubSeq(stack, 1, L - 1)
    BY DEF Front
  <2> QED BY <1>1, <1>3, <2>1, <2>2
<1>5. ASSUME NEW j \in DOMAIN stack
      PROVE  /\ stack[j] \in S /\ (t \notin o => Orderly(stack[j]))
             /\ StackFits(SubSeq(stack, 1, j - 1), t, n, o) /\ Len(SubSeq(stack, 1, j - 1)) <= L
  <2>1. j - 1 \in 0..L /\ j - 1 <= L
    BY <1>1
  <2> QED BY <1>1, <1>3, <2>1 DEF StackFits
<1> QED BY <1>1, <1>2, <1>4, <1>5

\* Commands and answers to prompts: /undo, /redo and /resume bring back what a
\* checkpoint holds, and the rest leaves turns or drops them.
LEMMA HistoryCommand ==
  ASSUME HistoryAt, Command
  PROVE  HistoryInv'
<1> USE DEF HistoryAt
<1>n. /\ nin \in Nat /\ nreq \in Nat /\ nreq <= MaxReqs /\ HistoryInv /\ IInv /\ InHand /\ Plain /\ Threads
      /\ Shape /\ HandlerOK /\ Undos /\ h \in Hand(nin)
  BY Numbers DEF HistoryInv, InHand, IInv
<1>r. \A q : shown' = [e \in Ext |-> IF shown[e] = q THEN 0 ELSE shown[e]] => shown' \in [Ext -> 0..MaxReqs]
  <2>1. \A e \in Ext : shown[e] \in 0..MaxReqs /\ 0 \in 0..MaxReqs
    BY <1>n, BoundAssumption DEF Plain
  <2> QED BY <2>1
<1>v. Revoke => UNCHANGED <<due, overlap, raced>> /\ shown' \in [Ext -> 0..MaxReqs]
  <2> DEFINE q == IF T.st = "AwaitingApproval" THEN T.pend.id ELSE 0
  <2>1. Revoke => UNCHANGED <<due, overlap, raced>> /\ shown' = [e \in Ext |-> IF shown[e] = q THEN 0 ELSE shown[e]]
    BY DEF Revoke
  <2> HIDE DEF q
  <2> QED BY <1>r, <2>1
<1>w. history' = history => UNCHANGED <<due, overlap, raced>> /\ shown' \in [Ext -> 0..MaxReqs]
  BY <1>n DEF history, asked, Plain
<1>0. /\ h.pc = "dispatch" /\ UNCHANGED <<map, db, tasks, p, nin, nreq, spent, due, overlap, raced>>
      /\ shown' \in [Ext -> 0..MaxReqs]
  <2>1. CASE ProcessUndo \/ ProcessRedo \/ \E j \in 1..MaxCheckpoints : ProcessResume(j)
    BY <1>v, <2>1 DEF ProcessUndo, ProcessRedo, ProcessResume, Restore, counts
  <2>2. CASE ProcessInterrupt \/ ProcessClear \/ ProcessCompact \/ ProcessOther
    BY <1>v, <1>w, <2>2 DEF ProcessInterrupt, ProcessClear, ProcessCompact, ProcessOther, Decline, counts
  <2>3. CASE ProcessNewThread \/ \E t \in Thr : ProcessSwitchThread(t)
    BY <1>w, <2>3 DEF ProcessNewThread, ProcessSwitchThread, OnSession, counts
  <2>4. ASSUME NEW id, AnswerMissed(id) \/ Denied(id) \/ \E always \in BOOLEAN : Approved(id, always)
        PROVE  /\ h.pc = "dispatch" /\ UNCHANGED <<map, db, tasks, p, nin, nreq, spent, due, overlap, raced>>
               /\ shown' \in [Ext -> 0..MaxReqs]
    <3>1. CASE AnswerMissed(id)
      BY <1>w, <3>1 DEF AnswerMissed, Decline, counts
    <3>2. CASE Denied(id)
      BY <1>v, <3>2 DEF Denied, counts
    <3>3. ASSUME NEW always, Approved(id, always)
          PROVE  /\ h.pc = "dispatch" /\ UNCHANGED <<map, db, tasks, p, nin, nreq, spent, due, overlap, raced>>
                 /\ shown' \in [Ext -> 0..MaxReqs]
      BY <1>r, <3>3 DEF Approved, counts
    <3> QED BY <2>4, <3>1, <3>2, <3>3
  <2> QED BY <2>1, <2>2, <2>3, <2>4 DEF Command
<1>1. h.s \in Sess /\ h.t \in Thr /\ h.ext \in Ext
  BY <1>0, <1>n DEF HandlerOK, InHand
<1>2. /\ ThreadFields \subseteq DOMAIN T /\ ThreadFits(T, h.t, nin, nreq, overlap)
      /\ T.turns \in Seq(TurnsTo(nin)) /\ (h.t \notin overlap => Belongs(T.turns)) /\ T.st \in ThreadState
      /\ SessionFits(ses[h.s]) /\ SessionOK(ses[h.s])
  BY <1>1, HandFits DEF ThreadFits
<1>3. Rows' /\ Writers' /\ Dues' /\ Plain'
  <2>1. Rows' /\ Writers' /\ Dues'
    BY <1>0, <1>n, StoreKept
  <2> QED BY <1>0, <1>n, <2>1 DEF Plain
<1>4. ASSUME h' = Waiting, Threads', Undos' PROVE HistoryInv'
  BY <1>0, <1>n, <1>3, <1>4, HandWaits DEF HistoryInv
<1>5. ASSUME NEW th, ThreadFields \subseteq DOMAIN th, ThreadFits(th, h.t, nin, nreq, overlap), Finish(th),
             Undos'
      PROVE  HistoryInv'
  <2>1. Effects(h.t, th) /\ \A s \in Sess : SessionFits(ses'[s])
    BY <1>n, <1>1, <1>5, FinishEffects
  <2>2. Threads'
    BY <1>0, <1>n, <1>5, <2>1, ThreadsKept
  <2>3. h' = Waiting
    BY <1>5 DEF Finish
  <2> QED BY <1>4, <1>5, <2>2, <2>3
<1>6. ASSUME undo' = undo PROVE Undos'
  BY <1>0, <1>n, <1>6, UndosKept
<1>7. ASSUME NEW mgr, UndoFits(mgr, h.t, nin, overlap), undo' = [undo EXCEPT ![h.t] = mgr] PROVE Undos'
  BY <1>0, <1>n, <1>1, <1>7 DEF Undos
<1>8. \A st \in {"Idle", "Interrupted", "Processing"} :
          /\ ThreadFits([T EXCEPT !.st = st], h.t, nin, nreq, overlap)
          /\ ThreadFits([T EXCEPT !.st = st, !.pend = NoReq], h.t, nin, nreq, overlap)
          /\ ThreadFields \subseteq DOMAIN [T EXCEPT !.st = st]
          /\ ThreadFields \subseteq DOMAIN [T EXCEPT !.st = st, !.pend = NoReq]
          /\ \A turns \in Seq(TurnsTo(nin)) : (h.t \notin overlap => Belongs(turns)) =>
                 /\ ThreadFits([T EXCEPT !.st = st, !.turns = turns], h.t, nin, nreq, overlap)
                 /\ ThreadFields \subseteq DOMAIN [T EXCEPT !.st = st, !.turns = turns]
  BY <1>n, <1>2, ThreadEdits
<1>9. ASSUME NEW m \in Seq(MessagesTo(nin)), h.t \notin overlap => Orderly(m), Restore(m), Undos'
      PROVE  HistoryInv'
  <2> DEFINE turns == restore_from_messages(m)
             th == [T EXCEPT !.st = "Idle", !.turns = turns]
  <2>1. turns \in Seq(TurnsTo(nin)) /\ (h.t \notin overlap => Belongs(turns))
    BY <1>n, <1>9, RestoreOK
  <2>2. Finish(th)
    BY <1>9 DEF Restore
  <2> HIDE DEF turns
  <2>3. ThreadFields \subseteq DOMAIN th /\ ThreadFits(th, h.t, nin, nreq, overlap)
    BY <1>8, <2>1
  <2> HIDE DEF th
  <2> QED BY <1>5, <1>9, <2>2, <2>3
<1> DEFINE u == undo[h.t].u
           r == undo[h.t].r
<1>10. /\ UndoFits(undo[h.t], h.t, nin, overlap) /\ undo[h.t] = [u |-> u, r |-> r]
       /\ StackFits(u, h.t, nin, overlap) /\ StackFits(r, h.t, nin, overlap)
       /\ Len(u) <= MaxCheckpoints /\ Len(u) \in Nat /\ Len(r) \in Nat /\ MaxCheckpoints \in Nat
  <2>1. UndoFits(undo[h.t], h.t, nin, overlap)
    BY <1>n, <1>1 DEF Undos
  <2>2. /\ undo[h.t] = [u |-> u, r |-> r] /\ Len(u) <= MaxCheckpoints
        /\ StackFits(u, h.t, nin, overlap) /\ StackFits(r, h.t, nin, overlap)
    BY <2>1 DEF UndoFits
  <2>3. Len(u) \in Nat /\ Len(r) \in Nat
    BY <1>n, <2>2, StackEdits
  <2> HIDE DEF u, r
  <2> QED BY <2>1, <2>2, <2>3, BoundAssumption
<1>11. CASE ProcessUndo
  <2> DEFINE m == messages(T.turns)
             mgr == Undone(undo[h.t], m)
  <2>1. undo' = [undo EXCEPT ![h.t] = mgr] /\ u # <<>> /\ Restore(Last(u)) /\ Last(u) = u[Len(u)]
    BY <1>11, <1>1, <1>n DEF ProcessUndo, Undos, Last
  <2>2. m \in Seq(MessagesTo(nin)) /\ (h.t \notin overlap => Orderly(m))
    BY <1>n, <1>2, MessagesOK
  <2> HIDE DEF m
  <2>3. mgr = [u |-> u, r |-> Append(r, m)]
    <3>1. mgr = [undo[h.t] EXCEPT !.r = Append(r, m)]
      BY DEF Undone
    <3>2. undo[h.t] = [u |-> u, r |-> r]
      BY <1>10
    <3> HIDE DEF u, r, mgr
    <3>3. [[u |-> u, r |-> r] EXCEPT !.r = Append(r, m)] = [u |-> u, r |-> Append(r, m)]
      OBVIOUS
    <3> QED BY <3>1, <3>2, <3>3
  <2> HIDE DEF u, r, mgr
  <2>4. StackFits(Append(r, m), h.t, nin, overlap)
    BY <1>n, <1>10, <2>2, StackEdits
  <2>5. UndoFits(mgr, h.t, nin, overlap)
    BY <1>10, <2>3, <2>4 DEF UndoFits
  <2>6. u[Len(u)] \in Seq(MessagesTo(nin)) /\ (h.t \notin overlap => Orderly(u[Len(u)]))
    BY <1>n, <1>10, <2>1, StackEdits
  <2> QED BY <1>7, <1>9, <2>1, <2>5, <2>6
<1>12. CASE ProcessRedo
  <2> DEFINE mgr == Redone(undo[h.t])
  <2>1. undo' = [undo EXCEPT ![h.t] = mgr] /\ r # <<>> /\ Restore(Last(r)) /\ Last(r) = r[Len(r)]
    BY <1>12, <1>1, <1>n DEF ProcessRedo, Undos, Last
  <2>2. mgr = [u |-> u, r |-> Front(r)]
    BY <1>10 DEF Redone
  <2> HIDE DEF u, r, mgr
  <2>3. StackFits(Front(r), h.t, nin, overlap) /\ Len(r) \in DOMAIN r
    BY <1>n, <1>10, <2>1, StackEdits
  <2>4. UndoFits(mgr, h.t, nin, overlap)
    BY <1>10, <2>2, <2>3 DEF UndoFits
  <2>5. r[Len(r)] \in Seq(MessagesTo(nin)) /\ (h.t \notin overlap => Orderly(r[Len(r)]))
    BY <1>n, <1>10, <2>3, StackEdits
  <2> QED BY <1>7, <1>9, <2>1, <2>4, <2>5
<1>13. ASSUME NEW j, ProcessResume(j) PROVE HistoryInv'
  <2> DEFINE mgr == RestoredTo(undo[h.t], j)
  <2>1. undo' = [undo EXCEPT ![h.t] = mgr] /\ j \in DOMAIN u /\ Restore(u[j])
    BY <1>13, <1>1, <1>n DEF ProcessResume, Undos
  <2>2. mgr = [u |-> SubSeq(u, 1, j - 1), r |-> <<>>]
    BY <1>10 DEF RestoredTo
  <2> HIDE DEF u, r, mgr
  <2>3. /\ StackFits(SubSeq(u, 1, j - 1), h.t, nin, overlap) /\ Len(SubSeq(u, 1, j - 1)) <= Len(u)
        /\ u[j] \in Seq(MessagesTo(nin)) /\ (h.t \notin overlap => Orderly(u[j]))
    BY <1>n, <1>10, <2>1, StackEdits
  <2>4. Len(SubSeq(u, 1, j - 1)) \in Nat
    BY <1>n, <2>3, StackEdits
  <2>5. StackFits(<<>>, h.t, nin, overlap)
    BY DEF StackFits
  <2>6. UndoFits(mgr, h.t, nin, overlap)
    <3> DEFINE a == SubSeq(u, 1, j - 1)
    <3>0. StackFits(a, h.t, nin, overlap) /\ Len(a) <= Len(u) /\ Len(a) \in Nat
      BY <2>3, <2>4
    <3>1. StackFits(a, h.t, nin, overlap) /\ Len(a) <= MaxCheckpoints
      <4> HIDE DEF a
      <4> QED BY <1>10, <3>0
    <3>2. mgr.u = a /\ mgr.r = <<>> /\ mgr = [u |-> mgr.u, r |-> mgr.r]
      BY <2>2
    <3> HIDE DEF a
    <3> QED BY <2>5, <3>1, <3>2 DEF UndoFits
  <2> QED BY <1>7, <1>9, <2>1, <2>3, <2>6
<1>14. CASE ProcessInterrupt
  <2>1. undo' = undo /\ Finish([T EXCEPT !.st = "Interrupted"])
    BY <1>14 DEF ProcessInterrupt, interrupt
  <2> QED BY <1>5, <1>6, <1>8, <2>1
<1>15. CASE ProcessCompact
  <2>1. PICK turns \in Compacted(T.turns) : undo' = undo /\ Finish([T EXCEPT !.turns = turns])
    BY <1>15 DEF ProcessCompact
  <2> DEFINE th == [T EXCEPT !.turns = turns]
  <2>2. ThreadFits(th, h.t, nin, nreq, overlap)
    BY <1>n, <1>2, <2>1, ThreadEdits
  <2>3. ThreadFields \subseteq DOMAIN th
    BY <1>2 DEF ThreadFields
  <2> HIDE DEF th
  <2> QED BY <1>5, <1>6, <2>1, <2>2, <2>3 DEF th
<1>16. CASE ProcessClear
  <2> DEFINE th == [T EXCEPT !.st = "Idle", !.turns = <<>>]
  <2>1. undo' = [undo EXCEPT ![h.t] = NewUndo] /\ Finish(th)
    BY <1>16 DEF ProcessClear
  <2>2. ThreadFits(th, h.t, nin, nreq, overlap) /\ ThreadFields \subseteq DOMAIN th
    <3>1. <<>> \in Seq(TurnsTo(nin)) /\ Belongs(<<>>)
      BY DEF Belongs
    <3> QED BY <1>8, <3>1
  <2> HIDE DEF th
  <2> QED BY <1>n, <1>5, <1>7, <2>1, <2>2, NewFits
<1>17. ASSUME NEW id, AnswerMissed(id) \/ ProcessOther PROVE HistoryInv'
  <2>1. undo' = undo /\ Finish(T)
    BY <1>17 DEF AnswerMissed, ProcessOther, Decline
  <2> QED BY <1>2, <1>5, <1>6, <2>1
<1>18. ASSUME NEW id, Denied(id) PROVE HistoryInv'
  <2>1. undo' = undo /\ Finish([T EXCEPT !.st = "Idle", !.pend = NoReq])
    BY <1>18 DEF Denied, clear_pending_approval
  <2> QED BY <1>5, <1>6, <1>8, <2>1
\* /new and /thread.
<1>19. ASSUME NEW sn, OnSession(sn), SessionFits(sn),
              \A t \in Thr : sn.th[t] = SesWith[SessId].th[t] \/ sn.th[t] = NewThread
       PROVE  HistoryInv'
  <2>1. SessId \in Sess
    BY <1>n, SessionLookup
  <2>2. /\ h' = Waiting /\ undo' = undo
        /\ ses' = [s \in Sess |-> IF s = SessId THEN sn ELSE NewSession]
    BY <1>19 DEF OnSession
  <2>3. \A t \in Thr : sn.th[t] = ses[SessId].th[t] \/ sn.th[t] = NewThread
    BY <1>n, <1>19, <2>1, SesWithEffects
  <2>4. Effects(NoThread, NewThread) /\ \A s \in Sess : SessionFits(ses'[s])
    BY <1>n, <1>19, <2>1, <2>2, <2>3, NewFits, NewSessionOK DEF Effects
  <2>5. Threads'
    BY <1>0, <1>n, <2>4, NewFits, ThreadsKept
  <2> QED BY <1>4, <1>6, <2>2, <2>5
<1>20. CASE ProcessNewThread
  <2> DEFINE sn == create_thread(SesWith[SessId], NewId)
  <2>1. OnSession(sn) /\ NewId \in Thr
    <3>1. Unused # {}
      BY <1>20, FS_EmptySet DEF ProcessNewThread
    <3> QED BY <1>20, <3>1 DEF ProcessNewThread, NewId, Unused, Thr
  <2>2. SessionOK(SesWith[SessId]) /\ SessionFits(SesWith[SessId])
    BY <1>n, SessionLookup, SesWithEffects
  <2>3. SessionFits(sn)
    BY <2>1, <2>2, CreateFits
  <2>4. \A t \in Thr : sn.th[t] = SesWith[SessId].th[t] \/ sn.th[t] = NewThread
    BY <2>1, <2>2, CreateOK
  <2> HIDE DEF sn
  <2> QED BY <1>19, <2>1, <2>3, <2>4
<1>21. ASSUME NEW t \in Thr, ProcessSwitchThread(t) PROVE HistoryInv'
  <2> DEFINE old == SesWith[SessId]
             sn == [old EXCEPT !.stale = FALSE]
  <2>1. SessionOK(old) /\ SessionFits(old)
    BY <1>n, SessionLookup, SesWithEffects
  <2>2. OnSession(sn)
    BY <1>21 DEF ProcessSwitchThread, switch_thread
  <2> HIDE DEF old
  <2>3. SessionFits(sn) /\ sn.th = old.th
    BY <2>1 DEF SessionOK, SessionFields, SessionFits
  <2> HIDE DEF sn
  <2> QED BY <1>19, <2>2, <2>3 DEF old
<1>22. ASSUME NEW id, NEW always \in BOOLEAN, Approved(id, always) PROVE HistoryInv'
  <2> DEFINE th == [T EXCEPT !.st = "Processing", !.pend = NoReq]
             auto == IF always THEN ses[h.s].auto \cup {ToolOf[T.pend.call]} ELSE ses[h.s].auto
             put == Put(h.s, h.t, th)
  <2>1. /\ undo' = undo /\ ses' = [put EXCEPT ![h.s].auto = auto]
        /\ h' = [h EXCEPT !.pc = "loop", !.in = T.pend.in, !.texec = TRUE]
        /\ T.st = "AwaitingApproval"
    BY <1>n, <1>1, <1>2, <1>22 DEF Approved, Pending, Put, Shape, SessionOK, SessionFields
  <2>2. T.pend.call \in Gated /\ InputOf(T.turns, T.pend.in) /\ T.pend.in \in 0..nin
    BY <1>2, <2>1 DEF ThreadFits
  <2>3. auto \subseteq {ToolOf[c] : c \in Gated} /\ ses[h.s].stale \in BOOLEAN
    BY <1>2, <2>2 DEF SessionFits
  <2>4. th.turns = T.turns /\ ThreadFields \subseteq DOMAIN th /\ ThreadFits(th, h.t, nin, nreq, overlap)
    BY <1>2, <1>8 DEF ThreadFields
  <2> HIDE DEF th, auto
  <2>5. /\ put = [s \in Sess |-> put[s]] /\ \A s \in Sess : SessionOK(put[s])
        /\ \A s \in Sess, t \in Thr : put[s].th[t] = IF s = h.s /\ t = h.t THEN th ELSE ses[s].th[t]
        /\ \A s \in Sess : put[s].stale = ses[s].stale /\ put[s].auto = ses[s].auto
    BY <1>n, <1>1, <2>4, PutOK, PutFields
  <2> HIDE DEF put
  <2>6. /\ \A s \in Sess : ses'[s].th = put[s].th /\ ses'[s].stale = put[s].stale
        /\ \A s \in Sess : ses'[s].auto = IF s = h.s THEN auto ELSE put[s].auto
    BY <1>1, <2>1, <2>5 DEF SessionOK, SessionFields
  <2>7. Effects(h.t, th)
    BY <2>5, <2>6 DEF Effects
  <2>8. \A s \in Sess : SessionFits(ses'[s])
    BY <1>n, <2>3, <2>5, <2>6 DEF SessionFits, Threads
  <2>9. Threads'
    BY <1>0, <1>n, <2>4, <2>7, <2>8, ThreadsKept
  <2>10. /\ h'.pc = "loop" /\ h'.in = T.pend.in /\ h'.s = h.s /\ h'.t = h.t /\ h'.ext = h.ext /\ h'.save = h.save
         /\ h' \in Hand(nin)
    BY <1>n, <2>1, <2>2 DEF Hand, PC
  <2>11. T'.turns = T.turns
    BY <1>1, <2>4, <2>5, <2>6, <2>10 DEF T
  <2>12. ~h.save
    BY <1>0, <1>n DEF InHand, InTurn
  <2>13. InHand'
    <3>1. InputOf(T'.turns, h'.in)
      BY <2>2, <2>10, <2>11
    <3> QED BY <1>0, <1>1, <1>n, <2>10, <2>12, <3>1 DEF InHand, InTurn, Valid
  <2> QED BY <1>3, <1>6, <2>1, <2>9, <2>13 DEF HistoryInv
<1> QED
  BY <1>11, <1>12, <1>13, <1>14, <1>15, <1>16, <1>17, <1>18, <1>20, <1>21, <1>22 DEF Command

\* A turn writes the thread in hand and goes on.
LEMMA PutEffects ==
  ASSUME Shape, Threads, h.s \in Sess, h.t \in Thr, NEW th, ThreadFields \subseteq DOMAIN th,
         ses' = Put(h.s, h.t, th)
  PROVE  Effects(h.t, th) /\ (\A s \in Sess : SessionFits(ses'[s])) /\ ses'[h.s].th[h.t] = th
<1> DEFINE new == Put(h.s, h.t, th)
<1>1. /\ \A s \in Sess, t \in Thr : new[s].th[t] = IF s = h.s /\ t = h.t THEN th ELSE ses[s].th[t]
      /\ \A s \in Sess : new[s].stale = ses[s].stale /\ new[s].auto = ses[s].auto
  BY PutOK, PutFields
<1>2. ses' = new
  OBVIOUS
<1> HIDE DEF new
<1> QED BY <1>1, <1>2 DEF Effects, Threads, SessionFits

\* persist_turn hands an input over to a writer of its own; if another one is at
\* work on the thread, the two overlap from then on.
LEMMA PersistKeeps ==
  ASSUME HistoryAt, InTurn, NEW resp \in BOOLEAN, Persist(resp), UNCHANGED <<db, nin, raced>>,
         due' = IF resp /\ h.save THEN due \cup {<<h.ext, h.in>>} ELSE due
  PROVE  Rows' /\ Writers' /\ Dues' /\ overlap \subseteq overlap' /\ overlap' \subseteq Thr
<1> USE DEF HistoryAt
<1>n. /\ nin \in Nat /\ HistoryInv /\ InHand /\ h \in Hand(nin) /\ Rows /\ Writers /\ Dues /\ overlap \subseteq Thr
      /\ nin <= MaxInputs /\ MaxInputs \in Nat /\ h.s \in Sess /\ h.t \in Thr /\ h.ext \in Ext
  BY Numbers DEF HistoryInv, InHand, IInv, HandlerOK, InTurn
<1>1. CASE ~h.save
  BY <1>1, <1>n, StoreKept DEF Persist
<1>2. CASE h.save
  <2>1. h.in = nin /\ Unwritten /\ InputOf(T.turns, h.in)
    BY <1>2, <1>n DEF InHand
  <2>2. nin \in Inputs
    <3>1. T.turns \in Seq(TurnsTo(nin)) /\ T.turns # <<>>
      BY <1>n, <2>1, HandFits DEF InputOf
    <3>2. T.turns[Len(T.turns)] \in TurnsTo(nin)
      BY <3>1
    <3>3. nin \in 1..nin
      BY <2>1, <3>2 DEF InputOf, TurnsTo
    <3> QED BY <1>n, <3>3 DEF Inputs
  <2> DEFINE task == [pc |-> "user", t |-> h.t, resp |-> resp]
  <2>3. /\ tasks' = [tasks EXCEPT ![nin] = task]
        /\ overlap' = IF \E i \in Inputs : tasks[i].t = h.t THEN overlap \cup {h.t} ELSE overlap
    BY <1>2, <2>1 DEF Persist
  <2>4. task \in [pc : {"none", "user", "assistant"}, t : Thr \cup {NoThread}, resp : BOOLEAN]
        /\ task.pc = "user" /\ task.t = h.t /\ task.resp = resp
    BY <1>n
  <2> HIDE DEF task
  <2>5. tasks'[nin] = task /\ \A i \in Inputs : i # nin => tasks'[i] = tasks[i]
    BY <1>n, <2>2, <2>3 DEF Writers
  <2>6. overlap \subseteq overlap' /\ overlap' \subseteq Thr
        /\ \A i \in Inputs : tasks[i].t = h.t => h.t \in overlap'
    BY <1>n, <2>3
  <2>7. Rows'
    BY <1>n, <2>6 DEF Rows
  <2>8. Writers'
    <3>1. tasks' \in [Inputs -> [pc : {"none", "user", "assistant"}, t : Thr \cup {NoThread}, resp : BOOLEAN]]
      BY <1>n, <2>3, <2>4 DEF Writers
    <3>2. \A i \in Inputs : IF tasks'[i].pc = "none" THEN tasks'[i].t = NoThread
                                                     ELSE tasks'[i].t \in Thr /\ i <= nin
      BY <1>n, <2>4, <2>5 DEF Writers
    <3>3. \A i, j \in Inputs : tasks'[i].t = tasks'[j].t /\ tasks'[i].t \in Thr \ overlap' => i = j
      BY <1>n, <2>4, <2>5, <2>6 DEF Writers
    <3>4. \A i \in Inputs : tasks'[i].t \in Thr \ overlap' =>
             /\ tasks'[i].pc = "user" => Older(db[tasks'[i].t], i)
             /\ tasks'[i].pc = "assistant" => LET m == db[tasks'[i].t] IN m # <<>> /\ m[Len(m)] = User(i)
      <4>1. Older(db[h.t], nin)
        BY <1>n, <2>1 DEF Unwritten
      <4> QED BY <1>n, <2>4, <2>5, <2>6, <4>1 DEF Writers
    <3> QED BY <3>1, <3>2, <3>3, <3>4 DEF Writers
  <2>9. Dues'
    <3>1. due' \subseteq Ext \X Inputs /\ \A d \in due' : d[2] <= nin
      BY <1>n, <2>1, <2>2 DEF Dues
    <3>2. ASSUME ~raced, NEW d \in due', Valid(d[1]), Canon[d[1]] = d[1] PROVE Covered(d[1], d[2])'
      <4>1. CASE d \in due
        <5>1. Covered(d[1], d[2]) /\ d[2] # nin /\ d[2] \in Inputs
          BY <1>n, <2>1, <3>2, <4>1 DEF Dues, Unwritten
        <5> QED BY <2>5, <5>1 DEF Covered
      <4>2. CASE d \notin due
        <5>1. d[1] = h.ext /\ d[2] = nin /\ resp = TRUE
          BY <2>1, <4>2
        <5>2. h.t = Parse[h.ext]
          BY <1>n, <3>2, <5>1 DEF InHand, InTurn
        <5> QED BY <2>4, <2>5, <5>1, <5>2 DEF Covered
      <4> QED BY <4>1, <4>2
    <3> QED BY <3>1, <3>2 DEF Dues, Valid
  <2> QED BY <2>6, <2>7, <2>8, <2>9
<1> QED BY <1>1, <1>2

\* process_user_input: an input becomes the newest turn of its thread, and stays
\* that until it is answered, fails or waits for an approval.
LEMMA HistoryBegin ==
  ASSUME HistoryAt, BeginTurn
  PROVE  HistoryInv'
<1> USE DEF HistoryAt
<1>n. /\ nin \in Nat /\ nreq \in Nat /\ HistoryInv /\ InHand /\ Plain /\ Threads /\ Shape /\ Undos
      /\ h \in Hand(nin) /\ Rows /\ Writers /\ Dues /\ MaxInputs \in Nat
  BY Numbers DEF HistoryInv, InHand, IInv
<1>0. /\ h.pc = "dispatch" /\ nin < MaxInputs /\ nin' = nin + 1
      /\ h' = [h EXCEPT !.pc = "loop", !.in = nin + 1, !.save = TRUE]
      /\ UNCHANGED <<cur, map, db, tasks, p, nreq, spent, due, overlap, raced, shown>>
  BY DEF BeginTurn, history, asked
<1>1. h.s \in Sess /\ h.t \in Thr /\ h.ext \in Ext
  BY <1>0, <1>n DEF HandlerOK, InHand, IInv
<1>2. nin' \in Nat /\ nin <= nin'
  BY <1>0, <1>n
<1>3. /\ ThreadFields \subseteq DOMAIN T /\ ThreadFits(T, h.t, nin, nreq, overlap)
      /\ T.turns \in Seq(TurnsTo(nin)) /\ (h.t \notin overlap => Belongs(T.turns))
  BY <1>1, HandFits DEF ThreadFits
<1>4. PICK turns \in Compacted(T.turns) :
        /\ undo' = [undo EXCEPT ![h.t] = Checkpoint(@, messages(turns))]
        /\ ses' = [ses EXCEPT ![h.s].th[h.t] = start_turn([@ EXCEPT !.turns = turns], nin + 1)]
  BY DEF BeginTurn
<1>5. turns \in Seq(TurnsTo(nin)) /\ (h.t \notin overlap => Belongs(turns))
  BY <1>3, <1>4, <1>n, CompactedOK
<1> DEFINE more == Append(turns, [in |-> nin + 1, out |-> 0])
           th == [T EXCEPT !.st = "Processing", !.turns = more]
<1>6. more \in Seq(TurnsTo(nin')) /\ InputOf(more, nin') /\ (h.t \notin overlap => Belongs(more))
  BY <1>0, <1>5, <1>n, TurnEdits
<1>7. ses' = Put(h.s, h.t, th)
  <2>1. start_turn([T EXCEPT !.turns = turns], nin + 1) = th
    BY <1>3 DEF start_turn, ThreadFields
  <2> HIDE DEF th
  <2> QED BY <1>1, <1>4, <1>n, <2>1 DEF Put, T, Shape, SessionOK, SessionFields
<1> HIDE DEF more
<1>8. ThreadFields \subseteq DOMAIN th /\ th.turns = more
  BY <1>3 DEF ThreadFields
<1>9. ThreadFits(th, h.t, nin', nreq, overlap)
  <2>1. ThreadFits(T, h.t, nin', nreq, overlap)
    <3>1. overlap \subseteq overlap /\ nreq <= nreq
      BY <1>n
    <3> QED BY <1>2, <1>3, <1>n, <3>1, FitsOn
  <2> QED BY <1>2, <1>3, <1>6, <1>n, <2>1, ThreadEdits
<1> HIDE DEF th
<1>10. Threads' /\ ses'[h.s].th[h.t] = th
  <2>1. Effects(h.t, th) /\ (\A s \in Sess : SessionFits(ses'[s])) /\ ses'[h.s].th[h.t] = th
    BY <1>1, <1>7, <1>8, <1>n, PutEffects
  <2> QED BY <1>0, <1>2, <1>9, <1>n, <2>1, ThreadsKept
<1>11. Undos'
  <2> DEFINE m == messages(turns)
             mgr == undo[h.t]
             all == Append(mgr.u, m)
             new == Checkpoint(mgr, m)
  <2>1. undo' = [undo EXCEPT ![h.t] = new] /\ undo = [t \in Thr |-> undo[t]]
    BY <1>1, <1>4, <1>n DEF Undos
  <2>2. m \in Seq(MessagesTo(nin)) /\ (h.t \notin overlap => Orderly(m))
    BY <1>5, <1>n, MessagesOK
  <2> HIDE DEF m
  <2>3. StackFits(mgr.u, h.t, nin, overlap) /\ Len(mgr.u) <= MaxCheckpoints /\ MaxCheckpoints \in Nat
    BY <1>1, <1>n, BoundAssumption DEF Undos, UndoFits
  <2>4. /\ StackFits(all, h.t, nin, overlap) /\ Len(all) = Len(mgr.u) + 1 /\ Len(mgr.u) \in Nat
        /\ StackFits(Tail(all), h.t, nin, overlap) /\ Len(Tail(all)) = Len(mgr.u)
    <3> HIDE DEF mgr
    <3>1. ASSUME NEW stack, StackFits(stack, h.t, nin, overlap)
          PROVE  /\ Len(stack) \in Nat
                 /\ \A x \in Seq(MessagesTo(nin)) : (h.t \notin overlap => Orderly(x)) =>
                       /\ StackFits(Append(stack, x), h.t, nin, overlap)
                       /\ Len(Append(stack, x)) = Len(stack) + 1
                       /\ StackFits(Tail(Append(stack, x)), h.t, nin, overlap)
                       /\ Len(Tail(Append(stack, x))) = Len(stack)
      BY <1>n, <3>1, StackEdits
    <3> QED BY <2>2, <2>3, <3>1
  <2>5. new.r = <<>> /\ new = [u |-> new.u, r |-> new.r]
        /\ new.u = IF Len(all) > MaxCheckpoints THEN Tail(all) ELSE all
    BY DEF Checkpoint
  <2> HIDE DEF all, new, mgr
  <2>6. StackFits(new.u, h.t, nin, overlap) /\ Len(new.u) <= MaxCheckpoints
    BY <2>3, <2>4, <2>5
  <2>7. UndoFits(new, h.t, nin, overlap)
    <3>1. StackFits(<<>>, h.t, nin, overlap)
      BY DEF StackFits
    <3> QED BY <2>5, <2>6, <3>1 DEF UndoFits
  <2>8. \A t \in Thr : UndoFits(undo'[t], t, nin, overlap)
    BY <1>1, <1>n, <2>1, <2>7 DEF Undos
  <2>9. \A t \in Thr : UndoFits(undo'[t], t, nin', overlap)
    BY <1>2, <1>n, <2>8, FitsOn
  <2>10. undo' = [t \in Thr |-> undo'[t]]
    BY <2>1
  <2> QED BY <1>0, <2>9, <2>10 DEF Undos
<1>12. Rows' /\ Writers' /\ Dues'
  BY <1>0, <1>2, <1>n, StoreKept
<1>13. Plain'
  BY <1>0, <1>n DEF Plain
<1>14. Unwritten'
  <2>1. \A i \in Inputs : i = nin + 1 => tasks[i].pc = "none"
    <3>1. ASSUME NEW i \in Inputs, i = nin + 1, tasks[i].pc # "none" PROVE FALSE
      <4>1. i <= nin
        BY <1>n, <3>1 DEF Writers
      <4> QED BY <1>n, <3>1, <4>1
    <3> QED BY <3>1
  <2>2. ASSUME NEW t \in Thr PROVE Older(db[t], nin + 1)
    <3>1. db[t] \in Seq(MessagesTo(nin))
      BY <1>n DEF Rows
    <3>2. \A k \in DOMAIN db[t] : db[t][k] \in MessagesTo(nin)
      BY <3>1
    <3>3. \A x \in MessagesTo(nin) : x.n < nin + 1
      BY <1>n DEF MessagesTo
    <3> QED BY <3>2, <3>3 DEF Older
  <2>3. \A d \in due : d[2] # nin + 1
    BY <1>n DEF Dues
  <2>4. \A t \in Thr : Older(db'[t], nin')
    BY <1>0, <2>2
  <2>5. nin' \in Inputs => tasks'[nin'].pc = "none"
    BY <1>0, <2>1
  <2>6. \A d \in due' : d[2] # nin'
    BY <1>0, <2>3
  <2> QED BY <2>4, <2>5, <2>6 DEF Unwritten, Older
<1>15. InHand'
  <2>1. /\ h'.pc = "loop" /\ h'.in = nin' /\ h'.s = h.s /\ h'.t = h.t /\ h'.ext = h.ext
        /\ h' \in Hand(nin')
    <3>1. h \in Hand(nin')
      BY <1>2, <1>n, HandFields
    <3>2. nin' \in 0..nin'
      BY <1>2
    <3> HIDE DEF HistoryAt
    <3> QED BY <1>0, <3>1, <3>2 DEF Hand, PC
  <2>2. T'.turns = more
    BY <1>8, <1>10, <2>1 DEF T
  <2>3. InputOf(T'.turns, h'.in)
    BY <1>6, <2>1, <2>2
  <2>4. ~raced' /\ Valid(h'.ext) /\ Canon[h'.ext] = h'.ext => h'.t = Parse[h'.ext]
    BY <1>0, <1>n, <2>1 DEF InHand
  <2>5. h'.save => InTurn' /\ h'.in = nin' /\ Unwritten'
    BY <1>14, <2>1 DEF InTurn
  <2> QED BY <1>1, <2>1, <2>3, <2>4, <2>5 DEF InHand, InTurn, Valid
<1> QED BY <1>10, <1>11, <1>12, <1>13, <1>15 DEF HistoryInv

\* run_agentic_loop: an answer completes the newest turn, which is that of the
\* input it answers; a call that needs approval leaves it waiting.
LEMMA HistoryLoop ==
  ASSUME HistoryAt,
         LoopError \/ Nudge \/ LoopText \/ (\E b \in Batches : LoopCalls(b)) \/ ToolRuns \/ ToolGated
  PROVE  HistoryInv'
<1> USE DEF HistoryAt
<1>n. /\ nin \in Nat /\ nreq \in Nat /\ HistoryInv /\ InHand /\ Plain /\ Threads /\ Shape /\ Undos
      /\ h \in Hand(nin) /\ overlap \subseteq Thr /\ MaxReqs \in Nat
  BY Numbers DEF HistoryInv, InHand, IInv
<1>0. /\ InTurn /\ UNCHANGED <<cur, map, undo, db, p, nin, spent, raced>> /\ nreq' \in Nat /\ nreq <= nreq'
  <2>1. ASSUME LoopError \/ LoopText
        PROVE  InTurn /\ UNCHANGED <<cur, map, undo, db, p, nin, nreq, spent, raced>>
    BY <2>1 DEF LoopError, LoopText, InTurn, counts
  <2>2. ASSUME Nudge \/ ToolRuns \/ \E b \in Batches : LoopCalls(b)
        PROVE  InTurn /\ UNCHANGED <<cur, map, undo, db, p, nin, nreq, spent, raced>>
    BY <2>2 DEF Nudge, ToolRuns, LoopCalls, InTurn, counts, memory, history
  <2>3. CASE ToolGated
    BY <1>n, <2>3 DEF ToolGated, InTurn
  <2> QED BY <1>n, <2>1, <2>2, <2>3
<1>1. h.s \in Sess /\ h.t \in Thr /\ h.ext \in Ext /\ InputOf(T.turns, h.in)
  BY <1>0, <1>n DEF HandlerOK, InHand, IInv, InTurn
<1>2. /\ ThreadFields \subseteq DOMAIN T /\ ThreadFits(T, h.t, nin, nreq, overlap)
      /\ T.turns \in Seq(TurnsTo(nin)) /\ (h.t \notin overlap => Belongs(T.turns))
  BY <1>1, HandFits DEF ThreadFits
\* The turn ends.
<1>3. ASSUME NEW th, ThreadFields \subseteq DOMAIN th, ThreadFits(th, h.t, nin, nreq', overlap), Finish(th),
             overlap \subseteq overlap', Rows', Writers', Dues', Plain'
      PROVE  HistoryInv'
  <2>1. Effects(h.t, th) /\ \A s \in Sess : SessionFits(ses'[s])
    BY <1>n, <1>1, <1>3, FinishEffects
  <2>2. ThreadFits(th, h.t, nin', nreq', overlap')
    <3>1. nin <= nin' /\ nreq' <= nreq' /\ nin' \in Nat
      BY <1>0, <1>n
    <3> QED BY <1>0, <1>n, <1>3, <3>1, FitsOn
  <2>3. nin' \in Nat /\ nin <= nin'
    BY <1>0, <1>n
  <2>4. Threads'
    BY <1>0, <1>n, <1>3, <2>1, <2>2, <2>3, ThreadsKept
  <2>5. Undos'
    BY <1>0, <1>n, <1>3, <2>3, UndosKept
  <2>6. InHand'
    BY <1>3, <2>3, HandWaits DEF Finish
  <2> QED BY <1>3, <2>4, <2>5, <2>6 DEF HistoryInv
<1>4. CASE LoopError \/ LoopText
  <2> DEFINE done == [T.turns EXCEPT ![Len(T.turns)].out = h.in]
             failed == [T EXCEPT !.st = "Idle"]
             answered == [T EXCEPT !.st = "Idle", !.turns = done]
  <2>1. PICK resp \in BOOLEAN, th \in {failed, answered} :
           /\ Finish(th) /\ Persist(resp) /\ UNCHANGED <<nreq, shown>>
           /\ due' = IF resp /\ h.save THEN due \cup {<<h.ext, h.in>>} ELSE due
    <3>1. fail_turn(T) = failed
      BY DEF fail_turn
    <3>2. complete_turn(T, h.in) = answered
      BY <1>1, <1>2 DEF complete_turn, InputOf, ThreadFields
    <3> HIDE DEF failed, answered
    <3>3. CASE LoopError
      BY <3>1, <3>3 DEF LoopError, counts, asked
    <3>4. CASE LoopText
      BY <3>2, <3>4 DEF LoopText, counts, asked
    <3> QED BY <1>4, <3>3, <3>4
  <2>2. Rows' /\ Writers' /\ Dues' /\ overlap \subseteq overlap' /\ overlap' \subseteq Thr
    BY <1>0, <2>1, PersistKeeps
  <2>3. Plain'
    BY <1>0, <1>n, <2>1, <2>2 DEF Plain
  <2>4. done \in Seq(TurnsTo(nin)) /\ (Belongs(T.turns) => Belongs(done))
    BY <1>1, <1>2, <1>n, TurnEdits
  <2> HIDE DEF done
  <2>5. /\ ThreadFits(failed, h.t, nin, nreq, overlap) /\ ThreadFields \subseteq DOMAIN failed
        /\ ThreadFits(answered, h.t, nin, nreq, overlap) /\ ThreadFields \subseteq DOMAIN answered
    BY <1>2, <1>n, <2>4, ThreadEdits DEF ThreadFields
  <2> HIDE DEF failed, answered
  <2> QED BY <1>3, <2>1, <2>2, <2>3, <2>5
<1>5. CASE Nudge \/ ToolRuns \/ \E b \in Batches : LoopCalls(b)
  <2>1. UNCHANGED <<cur, ses, map, undo, db, tasks, p, nin, nreq, spent, shown, due, overlap, raced>>
    BY <1>5 DEF Nudge, ToolRuns, LoopCalls, memory, counts, history, asked
  <2>2. Threads' /\ Undos' /\ Rows' /\ Writers' /\ Dues' /\ Plain'
    <3>1. nin <= nin' /\ nreq <= nreq' /\ nin' \in Nat /\ nreq' \in Nat /\ overlap \subseteq overlap'
      BY <1>n, <2>1
    <3> QED BY <1>n, <2>1, <3>1, ThreadsSame, UndosKept, StoreKept DEF Plain
  <2>3. \E pc \in {"loop", "tools"}, calls \in Seq(Calls), iter \in 0..MaxIter, texec \in BOOLEAN :
           /\ h' = [h EXCEPT !.pc = pc, !.calls = calls, !.iter = iter, !.texec = texec]
           /\ pc = "tools" => calls # <<>>
                              /\ (nreq < MaxReqs \/ \A i \in DOMAIN calls : ~NeedsApproval(calls[i]))
    <3>1. /\ h.calls \in Seq(Calls) /\ h.iter \in 0..MaxIter /\ h.texec \in BOOLEAN /\ MaxIter \in Nat
          /\ DOMAIN h = HandlerFields /\ h = [h EXCEPT !.calls = h.calls, !.iter = h.iter, !.texec = h.texec]
      BY <1>n, BoundAssumption DEF Hand, HandlerFields
    <3>2. CASE Nudge
      <4>1. h' = [h EXCEPT !.pc = "loop", !.calls = h.calls, !.iter = h.iter + 1, !.texec = h.texec]
        BY <1>n, <3>2 DEF Nudge, Hand
      <4>2. h.iter + 1 \in 0..MaxIter
        BY <3>1, <3>2 DEF Nudge
      <4> QED BY <3>1, <4>1, <4>2
    <3>3. ASSUME NEW b \in Batches, LoopCalls(b)
          PROVE  /\ h' = [h EXCEPT !.pc = "tools", !.calls = b, !.iter = h.iter + 1, !.texec = TRUE]
                 /\ h.iter + 1 \in 0..MaxIter /\ b \in Seq(Calls) /\ b # <<>>
                 /\ nreq < MaxReqs \/ \A i \in DOMAIN b : ~NeedsApproval(b[i])
      <4>1. h' = [h EXCEPT !.pc = "tools", !.calls = b, !.iter = h.iter + 1, !.texec = TRUE]
            /\ h.iter < MaxIter /\ (nreq < MaxReqs \/ \A i \in DOMAIN b : ~NeedsApproval(b[i]))
        BY <3>3 DEF LoopCalls
      <4>2. h.iter + 1 \in 0..MaxIter
        BY <3>1, <4>1
      <4>3. b \in Seq(Calls) /\ b # <<>>
        BY CallAssumption
      <4> QED BY <4>1, <4>2, <4>3
    <3>4. CASE ToolRuns
      <4>1. /\ h.calls # <<>> /\ h.pc = "tools"
            /\ nreq < MaxReqs \/ \A i \in DOMAIN h.calls : ~NeedsApproval(h.calls[i])
        BY <1>n, <3>4 DEF ToolRuns, InHand
      <4> DEFINE rest == Tail(h.calls)
                 pc == IF Len(h.calls) > 1 THEN "tools" ELSE "loop"
      <4>2. h' = [h EXCEPT !.pc = pc, !.calls = rest, !.iter = h.iter, !.texec = h.texec]
        BY <1>n, <3>4, <4>1 DEF ToolRuns, Hand
      <4>3. /\ rest \in Seq(Calls) /\ Len(rest) = Len(h.calls) - 1 /\ Len(h.calls) \in Nat
            /\ \A i \in DOMAIN rest : rest[i] = h.calls[i + 1] /\ i + 1 \in DOMAIN h.calls
        BY <3>1, <4>1
      <4> HIDE DEF rest
      <4>4. pc = "tools" => rest # <<>>
        BY <4>3
      <4>5. nreq < MaxReqs \/ \A i \in DOMAIN rest : ~NeedsApproval(rest[i])
        BY <4>1, <4>3
      <4> QED BY <3>1, <4>2, <4>3, <4>4, <4>5
    <3> QED BY <1>5, <3>2, <3>3, <3>4
  <2>4. PICK pc \in {"loop", "tools"}, calls \in Seq(Calls), iter \in 0..MaxIter, texec \in BOOLEAN :
           /\ h' = [h EXCEPT !.pc = pc, !.calls = calls, !.iter = iter, !.texec = texec]
           /\ pc = "tools" => calls # <<>>
                              /\ (nreq < MaxReqs \/ \A i \in DOMAIN calls : ~NeedsApproval(calls[i]))
    BY <2>3
  <2>5. /\ h'.pc = pc /\ h'.calls = calls /\ h'.s = h.s /\ h'.t = h.t /\ h'.ext = h.ext /\ h'.in = h.in
        /\ h'.save = h.save /\ h' \in Hand(nin)
    BY <1>n, <2>4 DEF Hand, PC
  <2>6. T' = T /\ \A c : NeedsApproval(c)' <=> NeedsApproval(c)
    BY <2>1, <2>5 DEF T, NeedsApproval
  <2>7. Unwritten' <=> Unwritten
    BY <2>1 DEF Unwritten
  <2>8. InHand'
    BY <1>0, <1>1, <1>n, <2>1, <2>4, <2>5, <2>6, <2>7 DEF InHand, InTurn, Valid
  <2> QED BY <2>2, <2>8 DEF HistoryInv
<1>6. CASE ToolGated
  <2> DEFINE c == Head(h.calls)
             q == [id |-> nreq + 1, in |-> h.in, call |-> c]
             th == [T EXCEPT !.st = "AwaitingApproval", !.pend = q]
  <2>1. /\ h.pc = "tools" /\ NeedsApproval(c) /\ nreq' = nreq + 1 /\ Finish(th)
        /\ UNCHANGED <<tasks, due, overlap>>
        /\ \E x \in {nreq + 1, shown[h.ext]} : shown' = [shown EXCEPT ![h.ext] = x]
    BY <1>6 DEF ToolGated, await_approval
  <2>2. c \in Gated /\ c \in Calls /\ nreq + 1 \in 0..MaxReqs
    <3>1. h.calls \in Seq(Calls) /\ h.calls # <<>>
          /\ (nreq < MaxReqs \/ \A i \in DOMAIN h.calls : ~NeedsApproval(h.calls[i]))
      BY <1>n, <2>1 DEF InHand, Hand
    <3>2. 1 \in DOMAIN h.calls /\ c = h.calls[1] /\ c \in Calls
      BY <3>1
    <3>3. nreq < MaxReqs
      BY <2>1, <3>1, <3>2
    <3> QED BY <1>n, <2>1, <3>2, <3>3 DEF NeedsApproval
  <2>3. Rows' /\ Writers' /\ Dues'
    <3>1. nin' \in Nat /\ nin <= nin'
      BY <1>0, <1>n
    <3> QED BY <1>0, <1>n, <2>1, <3>1, StoreKept
  <2>4. Plain'
    <3>1. shown' \in [Ext -> 0..MaxReqs]
      BY <1>n, <1>1, <2>1, <2>2 DEF Plain
    <3> QED BY <1>0, <1>n, <2>1, <2>2, <3>1 DEF Plain
  <2> HIDE DEF c
  <2>5. ThreadFields \subseteq DOMAIN th /\ th.st = "AwaitingApproval" /\ th.turns = T.turns /\ th.pend = q
    BY <1>2 DEF ThreadFields
  <2>6. q \in [id : 0..nreq + 1, in : 0..nin, call : Calls \cup {NoCall}] /\ q.call = c /\ q.in = h.in
    BY <1>n, <2>2 DEF Hand
  <2> HIDE DEF th, q
  <2>7. ThreadFits(th, h.t, nin, nreq', overlap)
    BY <1>1, <1>2, <2>1, <2>2, <2>5, <2>6 DEF ThreadFits, ThreadState
  <2> QED BY <1>3, <2>1, <2>3, <2>4, <2>5, <2>7
<1> QED BY <1>4, <1>5, <1>6

\* Steps of others leave the message in hand and its thread alone.
LEMMA HandSame ==
  ASSUME HistoryInv, UNCHANGED <<h, nin, nreq, overlap>>, ~raced' => ~raced,
         InTurn => ses'[h.s].th[h.t] = ses[h.s].th[h.t] /\ ses'[h.s].auto = ses[h.s].auto,
         h.save => Unwritten'
  PROVE  InHand'
<1>1. InHand
  BY DEF HistoryInv
<1>2. InTurn => T' = T /\ \A c : NeedsApproval(c)' <=> NeedsApproval(c)
  BY DEF T, NeedsApproval
<1> QED BY <1>1, <1>2 DEF InHand, InTurn, Valid

\* persist_turn's task: rows are appended in the order of the inputs, an answer
\* behind the input it answers, unless another writer is at work on the thread.
LEMMA HistoryWriter ==
  ASSUME HistoryAt, NEW i \in Inputs, Writer(i)
  PROVE  HistoryInv'
<1> USE DEF HistoryAt
<1>n. /\ nin \in Nat /\ nreq \in Nat /\ HistoryInv /\ InHand /\ Plain /\ Rows /\ Writers /\ Dues
      /\ overlap \subseteq Thr /\ i \in Nat /\ MaxInputs \in Nat
  BY Numbers DEF HistoryInv, Inputs
<1> DEFINE task == tasks[i]
           t0 == task.t
<1>0. PICK ok \in BOOLEAN, row \in {User(i), Assistant(i)}, next \in {NoTask, [task EXCEPT !.pc = "assistant"]} :
        /\ Write(i, row, next, ok) /\ task.pc \in {"user", "assistant"}
        /\ task.pc = "user" => /\ row = User(i)
                               /\ next = IF task.resp THEN [task EXCEPT !.pc = "assistant"] ELSE NoTask
        /\ task.pc = "assistant" => row = Assistant(i) /\ next = NoTask
  BY DEF Writer, PersistUser, PersistAssistant
<1>1. /\ UNCHANGED <<cur, ses, map, undo, h, p, nin, nreq, shown, overlap, raced>>
      /\ db' = IF ok THEN [db EXCEPT ![t0] = Append(@, row)] ELSE db
      /\ tasks' = [tasks EXCEPT ![i] = IF ok THEN next ELSE NoTask]
      /\ IF ok THEN UNCHANGED <<spent, due>> ELSE Spend /\ due' = {d \in due : d[2] # i}
  BY <1>0 DEF Write, memory, counts, asked
<1>2. /\ t0 \in Thr /\ i <= nin /\ task.resp \in BOOLEAN
      /\ task \in [pc : {"none", "user", "assistant"}, t : Thr \cup {NoThread}, resp : BOOLEAN]
      /\ \A j \in Inputs : tasks[j].t = t0 /\ t0 \notin overlap => j = i
  BY <1>0, <1>n DEF Writers
<1>3. db[t0] \in Seq(MessagesTo(nin)) /\ (t0 \notin overlap => Orderly(db[t0]))
  BY <1>2, <1>n DEF Rows
<1> DEFINE old == db[t0]
           new == Append(old, row)
<1>4. row.n = i /\ row \in MessagesTo(nin)
  BY <1>0, <1>2, <1>n DEF User, Assistant, MessagesTo, Inputs
<1>5. /\ Len(old) \in Nat /\ new \in Seq(MessagesTo(nin)) /\ Len(new) = Len(old) + 1 /\ new[Len(new)] = row
      /\ new # <<>> /\ DOMAIN new = 1..Len(old) + 1 /\ DOMAIN old = 1..Len(old)
      /\ \A k \in DOMAIN old : new[k] = old[k]
  BY <1>3, <1>4
<1> HIDE DEF new
<1>6. row \in Range(new) /\ Range(old) \subseteq Range(new)
  BY <1>5 DEF Range
<1>7. t0 \notin overlap => Orderly(new)
  <2> SUFFICES ASSUME t0 \notin overlap PROVE Orderly(new)
    OBVIOUS
  <2>1. CASE task.pc = "user"
    <3>1. Older(old, i) /\ row = User(i)
      BY <1>0, <1>2, <1>n, <2>1 DEF Writers
    <3>2. \A k \in DOMAIN old : old[k] \in MessagesTo(nin)
      BY <1>3
    <3>3. \A k \in DOMAIN old : old[k].n \in Nat /\ old[k].n < i
      BY <1>n, <3>1, <3>2 DEF Older, MessagesTo
    <3> HIDE DEF old
    <3> QED BY <1>n, <3>1, <3>3, <1>3, OrderlyMore DEF new, old
  <2>2. CASE task.pc = "assistant"
    <3>1. old # <<>> /\ old[Len(old)] = User(i) /\ row = Assistant(i)
      BY <1>0, <1>2, <1>n, <2>2 DEF Writers
    <3> QED BY <1>3, <1>n, <3>1, OrderlyMore DEF new
  <2> QED BY <1>0, <2>1, <2>2
<1>8. /\ db' = IF ok THEN [db EXCEPT ![t0] = new] ELSE db
      /\ db \in [Thr -> Seq(MessagesTo(nin))]
  BY <1>1, <1>n DEF new, Rows
<1>9. /\ \A t \in Thr : t # t0 => db'[t] = db[t]
      /\ db'[t0] = IF ok THEN new ELSE old
      /\ db' \in [Thr -> Seq(MessagesTo(nin))]
  BY <1>2, <1>5, <1>8
<1>10. Rows'
  BY <1>1, <1>7, <1>9, <1>n DEF Rows
<1> DEFINE then == IF ok THEN next ELSE NoTask
<1>11. /\ tasks'[i] = then /\ \A j \in Inputs : j # i => tasks'[j] = tasks[j]
       /\ then \in [pc : {"none", "user", "assistant"}, t : Thr \cup {NoThread}, resp : BOOLEAN]
       /\ \/ then.pc = "none" /\ then.t = NoThread
          \/ ok /\ then.pc = "assistant" /\ then.t = t0 /\ row = User(i)
       /\ tasks' \in [Inputs -> [pc : {"none", "user", "assistant"}, t : Thr \cup {NoThread}, resp : BOOLEAN]]
  <2> DEFINE Task == [pc : {"none", "user", "assistant"}, t : Thr \cup {NoThread}, resp : BOOLEAN]
  <2>1. NoTask \in Task /\ NoTask.pc = "none" /\ NoTask.t = NoThread
    BY DEF NoTask
  <2> DEFINE on == [task EXCEPT !.pc = "assistant"]
  <2>2. on \in Task /\ on.pc = "assistant" /\ on.t = t0
    BY <1>2
  <2>3. next = NoTask \/ (next = on /\ row = User(i))
    BY <1>0
  <2>4. tasks' = [tasks EXCEPT ![i] = then] /\ tasks \in [Inputs -> Task]
    BY <1>1, <1>n DEF Writers
  <2> HIDE DEF on, Task
  <2>5. /\ then \in Task
        /\ \/ then.pc = "none" /\ then.t = NoThread
           \/ ok /\ then.pc = "assistant" /\ then.t = t0 /\ row = User(i)
    BY <2>1, <2>2, <2>3
  <2> HIDE DEF then
  <2>6. tasks' \in [Inputs -> Task] /\ tasks'[i] = then /\ \A j \in Inputs : j # i => tasks'[j] = tasks[j]
    BY <2>4, <2>5
  <2> QED BY <2>5, <2>6 DEF Task
<1> HIDE DEF then, old
<1>12. Writers'
  <2>1. \A j \in Inputs : IF tasks'[j].pc = "none" THEN tasks'[j].t = NoThread
                                                   ELSE tasks'[j].t \in Thr /\ j <= nin
    BY <1>2, <1>11, <1>n DEF Writers
  <2>2. \A j \in Inputs : tasks'[j].t \in Thr => tasks[j].t = tasks'[j].t
    BY <1>11, ExtAssumption
  <2>3. \A j, k \in Inputs : tasks'[j].t = tasks'[k].t /\ tasks'[j].t \in Thr \ overlap => j = k
    BY <1>n, <2>2 DEF Writers
  <2>4. ASSUME NEW j \in Inputs, tasks'[j].t \in Thr \ overlap
        PROVE  /\ tasks'[j].pc = "user" => Older(db'[tasks'[j].t], j)
               /\ tasks'[j].pc = "assistant" => LET m == db'[tasks'[j].t] IN m # <<>> /\ m[Len(m)] = User(j)
    <3>1. CASE j = i
      <4>1. ok /\ then.pc = "assistant" /\ then.t = t0 /\ row = User(i)
        BY <1>11, <2>4, <3>1, ExtAssumption
      <4> QED BY <1>5, <1>9, <1>11, <3>1, <4>1
    <3>2. CASE j # i
      <4>1. tasks'[j] = tasks[j] /\ tasks[j].t # t0
        BY <1>2, <1>11, <2>4, <3>2
      <4> QED BY <1>9, <1>n, <2>4, <4>1 DEF Writers
    <3> QED BY <3>1, <3>2
  <2> QED BY <1>1, <1>11, <2>1, <2>3, <2>4 DEF Writers
<1>13. due' \subseteq due /\ (~ok => \A d \in due' : d[2] # i)
  BY <1>1
<1>14. Dues'
  <2>1. due' \subseteq Ext \X Inputs /\ \A d \in due' : d[2] <= nin
    BY <1>13, <1>n DEF Dues
  <2>2. ASSUME ~raced, NEW d \in due', Valid(d[1]), Canon[d[1]] = d[1] PROVE Covered(d[1], d[2])'
    <3> DEFINE t == Parse[d[1]]
    <3>1. Covered(d[1], d[2]) /\ t \in Thr /\ d[2] \in Inputs
      BY <1>13, <1>n, <2>2, ExtAssumption DEF Dues, Valid
    <3>2. Range(db[t]) \subseteq Range(db'[t])
      BY <1>6, <1>9, <3>1 DEF old
    <3>3. CASE d[2] # i
      BY <1>11, <3>1, <3>2, <3>3 DEF Covered
    <3>4. CASE d[2] = i
      <4>1. ok = TRUE
        BY <1>13, <3>4
      <4>2. CASE {User(i), Assistant(i)} \subseteq Range(db[t])
        BY <3>2, <3>4, <4>2 DEF Covered
      <4>3. CASE t0 = t /\ task.pc = "user" /\ task.resp
        <5>1. tasks'[i] = [task EXCEPT !.pc = "assistant"] /\ row = User(i)
          BY <1>0, <1>11, <4>1, <4>3 DEF then
        <5>2. tasks'[i].t = t /\ tasks'[i].pc = "assistant"
          BY <1>2, <4>3, <5>1
        <5>3. User(i) \in Range(db'[t])
          BY <1>6, <1>9, <4>1, <4>3, <5>1
        <5> QED BY <3>4, <5>2, <5>3 DEF Covered
      <4>4. CASE t0 = t /\ task.pc = "assistant" /\ User(i) \in Range(db[t])
        <5>1. Assistant(i) \in Range(db'[t])
          BY <1>0, <1>6, <1>9, <4>1, <4>4
        <5> QED BY <3>2, <3>4, <4>4, <5>1 DEF Covered
      <4> QED BY <3>1, <3>4, <4>2, <4>3, <4>4 DEF Covered
    <3> QED BY <3>3, <3>4
  <2> QED BY <1>1, <2>1, <2>2 DEF Dues, Valid
<1>15. ASSUME h.save PROVE Unwritten'
  <2>1. Unwritten
    BY <1>15, <1>n DEF InHand
  <2>2. i # nin /\ i < nin
    <3>1. i # nin
      BY <1>0, <2>1 DEF Unwritten
    <3> QED BY <1>2, <1>n, <3>1
  <2>3. nin \in Inputs => tasks'[nin].pc = "none"
    BY <1>11, <2>1, <2>2 DEF Unwritten
  <2>4. ASSUME NEW t \in Thr PROVE Older(db'[t], nin)
    <3>1. Older(db[t], nin)
      BY <2>1 DEF Unwritten
    <3>2. ASSUME t = t0 PROVE Older(new, nin)
      <4>1. \A k \in DOMAIN new : k \in DOMAIN old \/ k = Len(new)
        BY <1>5
      <4>2. Older(old, nin)
        BY <3>1, <3>2 DEF old
      <4> QED BY <1>4, <1>5, <2>2, <4>1, <4>2 DEF Older
    <3> QED BY <1>9, <3>1, <3>2 DEF old
  <2> QED BY <1>1, <1>13, <2>1, <2>3, <2>4 DEF Unwritten
<1>16. Plain'
  <2>1. spent' \in 0..Budget
    BY <1>1, <1>n, BoundAssumption DEF Spend, Plain
  <2> QED BY <1>1, <1>n, <2>1 DEF Plain
<1>17. Threads' /\ Undos'
  <2>1. nin <= nin' /\ nreq <= nreq' /\ nin' \in Nat /\ nreq' \in Nat /\ overlap \subseteq overlap'
    BY <1>1, <1>n
  <2> QED BY <1>1, <1>n, <2>1, ThreadsSame, UndosKept DEF HistoryInv
<1>18. InHand'
  BY <1>1, <1>15, <1>n, HandSame
<1> QED BY <1>10, <1>12, <1>14, <1>16, <1>17, <1>18 DEF HistoryInv

\* The pruner and time take sessions, windows and undo histories away, a restart
\* everything but the rows; what a crash cuts short is due no longer.
LEMMA HistoryOthers ==
  ASSUME HistoryAt, Pruner \/ Tick \/ Restart \/ UNCHANGED vars
  PROVE  HistoryInv'
<1> USE DEF HistoryAt
<1>n. /\ nin \in Nat /\ nreq \in Nat /\ HistoryInv /\ IInv /\ InHand /\ Plain /\ Threads /\ Undos /\ Shape
      /\ HandlerOK /\ Rows /\ Writers /\ Dues /\ Budget \in Nat
  BY Numbers, BoundAssumption DEF HistoryInv, IInv
<1>f. Forget => shown' \in [Ext -> 0..MaxReqs]
  BY BoundAssumption DEF Forget
\* Steps that leave the message in hand, its session, and what is written alone.
<1>1. ASSUME UNCHANGED <<h, db, tasks, nin, nreq, due, overlap>>, ~raced' => ~raced, Plain', Undos',
             Effects(NoThread, NewThread), \A s \in Sess : SessionFits(ses'[s]),
             InTurn => ses'[h.s].th[h.t] = ses[h.s].th[h.t] /\ ses'[h.s].auto = ses[h.s].auto
      PROVE  HistoryInv'
  <2>1. nin <= nin' /\ nreq <= nreq' /\ nin' \in Nat /\ nreq' \in Nat /\ overlap \subseteq overlap'
    BY <1>1, <1>n
  <2>2. Threads'
    BY <1>1, <1>n, <2>1, NewFits, ThreadsKept
  <2>3. Rows' /\ Writers' /\ Dues'
    BY <1>1, <1>n, <2>1, StoreKept
  <2>4. h.save => Unwritten'
    BY <1>1, <1>n DEF InHand, Unwritten
  <2>5. InHand'
    BY <1>1, <1>n, <2>4, HandSame
  <2> QED BY <1>1, <2>2, <2>3, <2>5 DEF HistoryInv
<1>2. ASSUME ses' = ses
      PROVE  /\ Effects(NoThread, NewThread) /\ \A s \in Sess : SessionFits(ses'[s])
             /\ InTurn => ses'[h.s].th[h.t] = ses[h.s].th[h.t] /\ ses'[h.s].auto = ses[h.s].auto
  BY <1>2, <1>n DEF Effects, Threads
<1>3. ASSUME undo' = undo, UNCHANGED <<nin, overlap>> PROVE Undos'
  <2>1. nin' \in Nat /\ nin <= nin' /\ overlap \subseteq overlap'
    BY <1>3, <1>n
  <2> QED BY <1>3, <1>n, <2>1, UndosKept
<1>4. Spend => spent' \in 0..Budget
  BY <1>n DEF Spend, Plain
<1>5. CASE PruneScan \/ PruneCollect
  <2>1. /\ UNCHANGED <<ses, map, undo, h, db, tasks, nin, nreq, shown, due, overlap>> /\ (~raced' => ~raced)
        /\ spent' \in 0..Budget /\ raced' \in BOOLEAN
        /\ p' \in [pc : {"idle", "collect", "remove", "unmap", "unundo"}, thr : SUBSET Thr]
    <3>1. CASE PruneScan
      <4>1. p' = [p EXCEPT !.pc = "collect"] /\ Spend /\ raced' = (raced \/ h.pc # "idle")
            /\ UNCHANGED <<ses, map, undo, h, db, tasks, nin, nreq, shown, due, overlap>>
        BY <3>1 DEF PruneScan, memory, counts, asked
      <4> QED BY <1>4, <1>n, <4>1 DEF Plain
    <3>2. CASE PruneCollect
      <4>1. \E thr \in SUBSET Thr : p' = [pc |-> "remove", thr |-> thr]
        BY <1>n, <3>2 DEF PruneCollect, HandlerOK, Shape, SessionOK
      <4>2. UNCHANGED <<ses, map, undo, h, db, tasks, nin, nreq, shown, due, overlap, spent, raced>>
        BY <3>2 DEF PruneCollect, memory, counts, history, asked
      <4> QED BY <1>n, <4>1, <4>2 DEF Plain
    <3> QED BY <1>5, <3>1, <3>2
  <2>2. Plain'
    BY <1>n, <2>1 DEF Plain
  <2> QED BY <1>1, <1>2, <1>3, <2>1, <2>2
<1>6. CASE PruneRemove
  <2>1. /\ UNCHANGED <<map, undo, h, db, tasks, nin, nreq, due, overlap, spent, raced>> /\ Forget
        /\ ses' = [s \in Sess |-> IF s = h.s THEN ses[s] ELSE NewSession] /\ p' = [p EXCEPT !.pc = "unmap"]
    BY <1>6 DEF PruneRemove, counts
  <2>2. Plain'
    BY <1>f, <1>n, <2>1 DEF Plain
  <2>3. Effects(NoThread, NewThread)
    BY <2>1, NewSessionOK DEF Effects
  <2>4. \A s \in Sess : SessionFits(ses'[s])
    BY <1>n, <2>1, NewFits DEF Threads
  <2>5. InTurn => ses'[h.s] = ses[h.s]
    BY <1>n, <2>1 DEF HandlerOK, InTurn
  <2> QED BY <1>1, <1>3, <2>1, <2>2, <2>3, <2>4, <2>5
<1>7. CASE PruneMap
  <2>1. /\ UNCHANGED <<ses, undo, h, db, tasks, nin, nreq, due, overlap, spent, raced>> /\ Forget
        /\ map' = [k \in Keys |-> NoThread] /\ p' = [p EXCEPT !.pc = "unundo"]
    BY <1>7 DEF PruneMap, counts
  <2>2. Plain'
    BY <1>f, <1>n, <2>1 DEF Plain
  <2> QED BY <1>1, <1>2, <1>3, <2>1, <2>2
<1>8. CASE PruneUndo
  <2>1. /\ UNCHANGED <<ses, map, h, db, tasks, nin, nreq, shown, due, overlap, spent, raced>>
        /\ undo' = [t \in Thr |-> IF t \in p.thr THEN NewUndo ELSE undo[t]] /\ p' = [pc |-> "idle", thr |-> {}]
    BY <1>8 DEF PruneUndo, counts, history, asked
  <2>2. Plain'
    BY <1>n, <2>1 DEF Plain
  <2>3. \A t \in Thr : UndoFits(undo'[t], t, nin, overlap)
    BY <1>n, <2>1, NewFits DEF Undos
  <2>4. undo' = [t \in Thr |-> undo'[t]]
    BY <2>1
  <2>5. Undos'
    BY <2>1, <2>3, <2>4 DEF Undos
  <2> QED BY <1>1, <1>2, <2>1, <2>2, <2>5
<1>9. CASE Tick
  <2>1. /\ UNCHANGED <<map, undo, h, db, tasks, p, nin, nreq, shown, due, overlap, spent, raced>>
        /\ ses' = [ses EXCEPT ![cur].stale = TRUE] /\ cur \in Sess /\ ~InTurn
    BY <1>9, <1>n DEF Tick, counts, history, asked, HandlerOK, InTurn
  <2>2. Plain'
    BY <1>n, <2>1 DEF Plain
  <2>3. /\ ses'[cur].th = ses[cur].th /\ ses'[cur].auto = ses[cur].auto /\ ses'[cur].stale = TRUE
        /\ \A s \in Sess : s # cur => ses'[s] = ses[s]
    BY <1>n, <2>1 DEF Shape, SessionOK, SessionFields
  <2>4. Effects(NoThread, NewThread)
    BY <2>3 DEF Effects
  <2>5. \A s \in Sess : SessionFits(ses'[s])
    BY <1>n, <2>3 DEF Threads, SessionFits
  <2> QED BY <1>1, <1>3, <2>1, <2>2, <2>4, <2>5
<1>10. CASE Restart
  <2>1. /\ ses' = [s \in Sess |-> NewSession] /\ map' = [k \in Keys |-> NoThread]
        /\ undo' = [t \in Thr |-> NewUndo] /\ tasks' = [i \in Inputs |-> NoTask] /\ h' = Waiting
        /\ p' = [pc |-> "idle", thr |-> {}] /\ Forget /\ Spend
        /\ due' = {d \in due : tasks[d[2]].pc = "none"} /\ UNCHANGED <<db, nin, nreq, overlap, raced>>
    BY <1>10 DEF Restart, counts
  <2>2. Plain'
    BY <1>f, <1>4, <1>n, <2>1 DEF Plain
  <2>3. Threads'
    <3>1. Effects(NoThread, NewThread)
      BY <2>1, NewSessionOK DEF Effects
    <3>2. \A s \in Sess : SessionFits(ses'[s])
      BY <1>n, <2>1, NewFits
    <3>3. nin <= nin' /\ nreq <= nreq' /\ nin' \in Nat /\ nreq' \in Nat /\ overlap \subseteq overlap'
      BY <1>n, <2>1
    <3> QED BY <1>n, <3>1, <3>2, <3>3, NewFits, ThreadsKept
  <2>4. Undos'
    <3>1. \A t \in Thr : UndoFits(NewUndo, t, nin, overlap)
      BY <1>n, NewFits
    <3> QED BY <2>1, <3>1 DEF Undos
  <2>5. Rows'
    BY <1>n, <2>1 DEF Rows
  <2>6. Writers'
    <3>1. \A i \in Inputs : tasks'[i] = NoTask
      BY <2>1
    <3>2. NoTask.pc = "none" /\ NoTask.t = NoThread /\ NoThread \notin Thr
          /\ NoTask \in [pc : {"none", "user", "assistant"}, t : Thr \cup {NoThread}, resp : BOOLEAN]
      BY ExtAssumption DEF NoTask
    <3>3. tasks' \in [Inputs -> [pc : {"none", "user", "assistant"}, t : Thr \cup {NoThread}, resp : BOOLEAN]]
      BY <2>1, <3>2
    <3> HIDE DEF NoTask
    <3> QED BY <3>1, <3>2, <3>3 DEF Writers
  <2>7. Dues'
    <3>1. \A d \in due' : d \in due /\ tasks[d[2]].pc = "none"
      BY <2>1
    <3>2. due' \subseteq Ext \X Inputs /\ \A d \in due' : d[2] <= nin
      BY <1>n, <3>1 DEF Dues
    <3>3. ASSUME ~raced, NEW d \in due', Valid(d[1]), Canon[d[1]] = d[1] PROVE Covered(d[1], d[2])'
      BY <1>n, <2>1, <3>1, <3>3 DEF Dues, Covered
    <3> QED BY <2>1, <3>2, <3>3 DEF Dues, Valid
  <2>8. InHand'
    BY <1>n, <2>1, HandWaits
  <2> QED BY <2>2, <2>3, <2>4, <2>5, <2>6, <2>7, <2>8 DEF HistoryInv
<1>11. CASE UNCHANGED vars
  <2>1. UNCHANGED <<cur, ses, map, undo, h, db, tasks, p, nin, nreq, shown, due, overlap, spent, raced>>
    BY <1>11 DEF vars, memory, counts, history, asked
  <2>2. Plain'
    BY <1>n, <2>1 DEF Plain
  <2> QED BY <1>1, <1>2, <1>3, <2>1, <2>2
<1> QED
  BY <1>5, <1>6, <1>7, <1>8, <1>9, <1>10, <1>11 DEF Pruner

LEMMA HistoryInit == Init => HistoryInv
<1> SUFFICES ASSUME Init PROVE HistoryInv
  OBVIOUS
<1>1. nin = 0 /\ nreq = 0 /\ overlap = {} /\ h = Waiting
  BY DEF Init
<1>2. Plain
  <2>1. 0 \in 0..MaxInputs /\ 0 \in 0..MaxReqs /\ 0 \in 0..Budget
    BY BoundAssumption
  <2>2. map \in [Keys -> Thr \cup {NoThread}] /\ shown \in [Ext -> 0..MaxReqs]
    BY <2>1 DEF Init
  <2> QED BY <2>1, <2>2 DEF Init, Plain
<1>3. Threads
  BY <1>1, NewFits, NewSessionOK DEF Init, Threads
<1>4. Undos
  BY <1>1, NewFits DEF Init, Undos
<1>5. Rows
  <2>1. Orderly(<<>>) /\ <<>> \in Seq(MessagesTo(nin))
    BY DEF Orderly
  <2> QED BY <2>1 DEF Init, Rows
<1>6. Writers
  <2>1. NoTask.pc = "none" /\ NoTask.t = NoThread /\ NoThread \notin Thr
        /\ NoTask \in [pc : {"none", "user", "assistant"}, t : Thr \cup {NoThread}, resp : BOOLEAN]
    BY ExtAssumption DEF NoTask
  <2>2. (\A i \in Inputs : tasks[i] = NoTask) /\ tasks = [i \in Inputs |-> NoTask]
    BY DEF Init
  <2> QED BY <2>1, <2>2 DEF Writers
<1>7. Dues
  BY DEF Init, Dues
<1>8. InHand
  <2>1. h.pc = "idle" /\ ~h.save
    BY <1>1 DEF Waiting
  <2>2. Waiting \in Hand(0)
    <3>1. <<>> \in Seq(MessagesTo(0)) /\ <<>> \in Seq(Calls) /\ 0 \in 0..0 /\ 0 \in 0..MaxIter
      BY BoundAssumption
    <3> QED BY <3>1 DEF Waiting, PC, Hand
  <2> QED BY <1>1, <2>1, <2>2 DEF InHand, InTurn
<1> QED BY <1>2, <1>3, <1>4, <1>5, <1>6, <1>7, <1>8 DEF HistoryInv

LEMMA HistoryStep == IInv /\ PromptInv /\ HistoryInv /\ [Next]_vars => HistoryInv'
<1> SUFFICES ASSUME HistoryAt, [Next]_vars PROVE HistoryInv'
  BY DEF HistoryAt
<1>1. PromptInv'
  BY PromptStep DEF HistoryAt
<1>2. ASSUME Next PROVE HistoryInv'
  <2>1. CASE \E e \in Ext : Receive(e)
    BY <1>1, <2>1, HistoryResolve
  <2>2. CASE Handler
    <3>1. CASE \/ \E ok \in BOOLEAN : HydrateRead(ok)
               \/ HydrateInsert \/ RegisterMap \/ RegisterSession
               \/ ResolveSession \/ ResolveFind \/ ResolveMap \/ ResolveUndo
      BY <1>1, <3>1, HistoryResolve
    <3>2. CASE LoopError \/ Nudge \/ LoopText \/ (\E b \in Batches : LoopCalls(b)) \/ ToolRuns \/ ToolGated
      BY <3>2, HistoryLoop
    <3> QED BY <2>2, <3>1, <3>2, HistoryCommand, HistoryBegin DEF Handler
  <2>3. CASE \E i \in Inputs : Writer(i)
    BY <2>3, HistoryWriter
  <2> QED BY <1>2, <2>1, <2>2, <2>3, HistoryOthers DEF Next
<1> QED BY <1>2, HistoryOthers

\* In memory turns stay in the order of their inputs, each with its own answer or
\* none, through undo, redo, resume, compaction, approval and hydration, unless
\* two writers of the thread overlapped (agent_loop.rs:657, session.rs:338); and
\* what was answered in one go is in the history a client reloads, unless a
\* failure, a crash, an id in another form or a prune explains it (ios.rs:396).
THEOREM HistoryStaysRight == Spec => []HistoryIsRight
<1>1. IInv /\ PromptInv /\ HistoryInv => HistoryIsRight
  <2> SUFFICES ASSUME IInv, HistoryInv PROVE HistoryIsRight
    OBVIOUS
  <2>n. /\ nin \in Nat /\ nreq \in Nat /\ nin <= MaxInputs /\ nreq <= MaxReqs
        /\ MaxInputs \in Nat /\ MaxReqs \in Nat /\ Plain /\ Threads /\ Undos /\ Rows /\ Writers /\ Dues
        /\ InHand /\ Shape /\ HandlerOK /\ Asked
    BY Numbers DEF HistoryInv, IInv
  <2>w. /\ Seq(TurnsTo(nin)) \subseteq Seq(Turns) /\ Seq(MessagesTo(nin)) \subseteq Seq(MessageSet)
        /\ Seq(Seq(MessagesTo(nin))) \subseteq Seq(Seq(MessageSet)) /\ 0..nreq \subseteq 0..MaxReqs
        /\ 0..nin \subseteq 0..MaxInputs
    <3>1. TurnsTo(MaxInputs) = Turns /\ MessagesTo(MaxInputs) = MessageSet
      BY DEF TurnsTo, Turns, MessagesTo, MessageSet, Inputs
    <3> QED BY <2>n, <3>1, Wider
  <2>1. \A s \in Sess, t \in Thr : ThreadOK(ses[s].th[t])
    <3>1. ASSUME NEW th, NEW t, ThreadFits(th, t, nin, nreq, overlap) PROVE ThreadOK(th)
      <4>1. th.turns \in Seq(Turns) /\ th.st \in ThreadState
        BY <2>w, <3>1 DEF ThreadFits
      <4>2. th.pend \in [id : 0..MaxReqs, in : 0..MaxInputs, call : Calls \cup {NoCall}]
        BY <2>w, <3>1 DEF ThreadFits
      <4> QED BY <4>1, <4>2 DEF ThreadOK
    <3> QED BY <2>n, <3>1 DEF Threads
  <2>2. \A s \in Sess : ses[s].there \subseteq Thr /\ SessionFits(ses[s])
    BY <2>n DEF Shape, SessionOK, Threads
  <2>3. \A t \in Thr : /\ undo[t].u \in Seq(Seq(MessageSet)) /\ undo[t].r \in Seq(Seq(MessageSet))
                       /\ Len(undo[t].u) <= MaxCheckpoints
    BY <2>n, <2>w DEF Undos, UndoFits, StackFits
  <2>4. db \in [Thr -> Seq(MessageSet)]
    BY <2>n, <2>w DEF Rows
  <2>5. h \in [pc : PC, ext : Ext \cup {NoExt}, s : Sess \cup {NoSess}, t : Thr \cup {NoThread},
               hist : Seq(MessageSet), in : 0..MaxInputs, save : BOOLEAN,
               calls : Seq(Calls), iter : 0..MaxIter, texec : BOOLEAN]
    BY <2>n, <2>w DEF InHand, Hand
  <2>6. revoked \subseteq Reqs /\ ran \subseteq Reqs
    <3>1. 1..nreq \subseteq Reqs
      BY <2>n DEF Reqs
    <3> QED BY <2>n, <3>1 DEF Asked
  <2>7. TypeOK
    BY <2>1, <2>2, <2>3, <2>4, <2>5, <2>6, <2>n DEF TypeOK, Plain, Writers, Dues, HandlerOK, SessionFits
  <2>8. AnswersBelong
    BY <2>n DEF AnswersBelong, Threads, ThreadFits
  <2>9. MissingHasACause
    <3> SUFFICES ASSUME NEW d \in due, Parse[d[1]] # NoThread, Canon[d[1]] = d[1], tasks[d[2]].pc = "none", ~raced
                 PROVE  {User(d[2]), Assistant(d[2])} \subseteq Range(db[Parse[d[1]]])
      BY DEF MissingHasACause
    <3> QED BY <2>n DEF Dues, Covered, Valid
  <2> QED BY <2>7, <2>8, <2>9 DEF HistoryIsRight
<1>2. Spec => [](IInv /\ PromptInv /\ HistoryInv)
  BY InitOK, StepOK, PromptInit, PromptStep, HistoryInit, HistoryStep, PTL DEF Spec
<1> QED
  BY <1>1, <1>2, PTL

-----------------------------------------------------------------------------
(* /redo only goes forward. *)

\* The newest turn among the messages of a checkpoint.
NewestOf(m) == Newest(restore_from_messages(m))

\* Checkpoints to undo to are older and older, those to redo newer and newer than
\* a thread whose newest turn is now.
Around(mgr, now) ==
    LET u == mgr.u  r == mgr.r IN
    /\ \A j, k \in DOMAIN u : j < k => NewestOf(u[j]) <= NewestOf(u[k])
    /\ \A j, k \in DOMAIN r : j < k => NewestOf(r[k]) <= NewestOf(r[j])
    /\ \A k \in DOMAIN u : NewestOf(u[k]) <= now
    /\ \A k \in DOMAIN r : now <= NewestOf(r[k])

InUse(t) == cur # NoSess /\ t \in ses[cur].there
Now(t) == Newest(ses[cur].th[t].turns)

\* A thread that is not in use has no undo history, or it is about to be pruned.
StacksFit(t) ==
    IF InUse(t) THEN Around(undo[t], Now(t))
    ELSE undo[t] = NewUndo \/ (p.pc \in {"unmap", "unundo"} /\ t \in p.thr)

RedoInv ==
    ~raced => /\ \A t \in Thr : StacksFit(t)
              /\ p.pc = "remove" /\ cur # NoSess => ses[cur].there \subseteq p.thr

\* The newest turn of a thread and of its messages is the same.
LEMMA NewestOK ==
  ASSUME NEW n \in Nat
  PROVE  /\ \A turns \in Seq(TurnsTo(n)) : /\ Newest(turns) \in 0..n
                                           /\ NewestOf(messages(turns)) = Newest(turns)
         /\ \A m \in Seq(MessagesTo(n)) : NewestOf(m) \in 0..n
         /\ Newest(<<>>) = 0
<1>1. Newest(<<>>) = 0
  BY DEF Newest
<1>2. ASSUME NEW turns \in Seq(TurnsTo(n)) PROVE Newest(turns) \in 0..n
  <2>1. CASE turns = <<>>
    BY <1>1, <2>1
  <2>2. CASE turns # <<>>
    <3>1. turns[Len(turns)] \in TurnsTo(n)
      BY <2>2
    <3>2. turns[Len(turns)].in \in 0..n
      BY <3>1 DEF TurnsTo
    <3> QED BY <2>2, <3>2 DEF Newest
  <2> QED BY <2>1, <2>2
<1>3. ASSUME NEW m \in Seq(MessagesTo(n)) PROVE NewestOf(m) \in 0..n
  BY <1>2, RestoreOK DEF NewestOf
<1>4. ASSUME NEW turns \in Seq(TurnsTo(n)) PROVE NewestOf(messages(turns)) = Newest(turns)
  <2> DEFINE m == messages(turns)
  <2>1. /\ m \in Seq(MessagesTo(n)) /\ (turns = <<>> => m = <<>>)
        /\ turns # <<>> => EndsWith(m, turns[Len(turns)].in)
    BY MessagesOK
  <2> HIDE DEF m
  <2>2. /\ m = <<>> => restore_from_messages(m) = <<>>
        /\ \A x : EndsWith(m, x) => Newest(restore_from_messages(m)) = x
    BY <2>1, RestoreOK
  <2>3. NewestOf(m) = Newest(turns)
    BY <1>1, <2>1, <2>2 DEF NewestOf, Newest
  <2> QED BY <2>3 DEF m
<1> QED BY <1>1, <1>2, <1>3, <1>4

\* A sequence up to one of its elements.
LEMMA Prefix ==
  ASSUME NEW S, NEW s \in Seq(S), NEW k \in 0..Len(s)
  PROVE  DOMAIN SubSeq(s, 1, k) = 1..k /\ \A i \in 1..k : SubSeq(s, 1, k)[i] = s[i] /\ i \in 1..Len(s)
  OBVIOUS

\* Checkpoints are taken and gone back to: the stacks stay around the thread.
LEMMA AroundEdits ==
  ASSUME NEW n \in Nat, NEW t, NEW o, NEW mgr, UndoFits(mgr, t, n, o), NEW now \in 0..n, Around(mgr, now)
  PROVE  /\ \A m : NewestOf(m) = now /\ mgr.u # <<>> => Around(Undone(mgr, m), NewestOf(Last(mgr.u)))
         /\ mgr.r # <<>> => Around(Redone(mgr), NewestOf(Last(mgr.r))) /\ now <= NewestOf(Last(mgr.r))
         /\ \A j \in DOMAIN mgr.u : Around(RestoredTo(mgr, j), NewestOf(mgr.u[j]))
         /\ \A m : \A later \in Nat :
               NewestOf(m) = now /\ now <= later => Around(Checkpoint(mgr, m), later)
<1> DEFINE u == mgr.u
           r == mgr.r
           U == Len(u)
           R == Len(r)
<1>1. mgr = [u |-> u, r |-> r] /\ u \in Seq(Seq(MessagesTo(n))) /\ r \in Seq(Seq(MessagesTo(n)))
  BY DEF UndoFits, StackFits
<1>2. /\ U \in Nat /\ R \in Nat /\ DOMAIN u = 1..U /\ DOMAIN r = 1..R
      /\ \A k \in 1..U : u[k] \in Seq(MessagesTo(n))
      /\ \A k \in 1..R : r[k] \in Seq(MessagesTo(n))
  BY <1>1
<1>3. /\ \A k \in 1..U : NewestOf(u[k]) \in Nat /\ NewestOf(u[k]) <= now
      /\ \A k \in 1..R : NewestOf(r[k]) \in Nat /\ now <= NewestOf(r[k])
      /\ \A j, k \in 1..U : j < k => NewestOf(u[j]) <= NewestOf(u[k])
      /\ \A j, k \in 1..R : j < k => NewestOf(r[k]) <= NewestOf(r[j])
  <2>1. /\ \A k \in 1..U : NewestOf(u[k]) \in 0..n
        /\ \A k \in 1..R : NewestOf(r[k]) \in 0..n
    BY <1>2, NewestOK
  <2>2. /\ \A k \in 1..U : NewestOf(u[k]) <= now
        /\ \A k \in 1..R : now <= NewestOf(r[k])
        /\ \A j, k \in 1..U : j < k => NewestOf(u[j]) <= NewestOf(u[k])
        /\ \A j, k \in 1..R : j < k => NewestOf(r[k]) <= NewestOf(r[j])
    BY <1>2 DEF Around
  <2> HIDE DEF u, r, U, R
  <2>3. 0..n \subseteq Nat
    OBVIOUS
  <2> QED BY <2>1, <2>2, <2>3
<1>4. now \in Nat
  OBVIOUS
<1>5. ASSUME NEW m, NewestOf(m) = now, u # <<>> PROVE Around(Undone(mgr, m), NewestOf(Last(u)))
  <2> DEFINE a == Append(r, m)
  <2>1. /\ DOMAIN a = 1..R + 1 /\ a[R + 1] = m /\ \A k \in 1..R : a[k] = r[k]
    BY <1>1, <1>2
  <2>2. U \in 1..U /\ Last(u) = u[U]
    BY <1>1, <1>2, <1>5 DEF Last
  <2>3. Undone(mgr, m).u = u /\ Undone(mgr, m).r = a
    BY <1>1 DEF Undone
  <2> HIDE DEF a, u, r, U, R
  <2>4. \A j, k \in 1..R + 1 : j < k => NewestOf(a[k]) <= NewestOf(a[j])
    <3>1. ASSUME NEW j \in 1..R + 1, NEW k \in 1..R + 1, j < k PROVE NewestOf(a[k]) <= NewestOf(a[j])
      <4>1. j \in 1..R
        BY <1>2, <3>1
      <4>2. CASE k = R + 1
        BY <1>3, <1>5, <2>1, <4>1, <4>2
      <4>3. CASE k # R + 1
        <5>1. k \in 1..R
          BY <1>2, <4>3
        <5> QED BY <1>3, <2>1, <3>1, <4>1, <5>1
      <4> QED BY <4>2, <4>3
    <3> QED BY <3>1
  <2>5. NewestOf(u[U]) \in Nat /\ NewestOf(u[U]) <= now
    BY <1>3, <2>2
  <2>6. \A k \in 1..R + 1 : NewestOf(u[U]) <= NewestOf(a[k])
    <3>1. ASSUME NEW k \in 1..R + 1 PROVE NewestOf(u[U]) <= NewestOf(a[k])
      <4>1. CASE k = R + 1
        BY <1>5, <2>1, <2>5, <4>1
      <4>2. CASE k # R + 1
        <5>1. k \in 1..R
          BY <1>2, <4>2
        <5> QED BY <1>3, <1>4, <2>1, <2>5, <5>1
      <4> QED BY <4>1, <4>2
    <3> QED BY <3>1
  <2>7. \A k \in 1..U : NewestOf(u[k]) <= NewestOf(u[U])
    <3>1. ASSUME NEW k \in 1..U PROVE NewestOf(u[k]) <= NewestOf(u[U])
      <4>1. k = U \/ k < U
        BY <1>2
      <4> QED BY <1>3, <2>2, <2>5, <4>1
    <3> QED BY <3>1
  <2> QED BY <1>2, <1>3, <2>1, <2>2, <2>3, <2>4, <2>6, <2>7 DEF Around
<1>6. ASSUME r # <<>>
      PROVE  Around(Redone(mgr), NewestOf(Last(r))) /\ now <= NewestOf(Last(r))
  <2> DEFINE a == Front(r)
  <2>1. R \in 1..R /\ Last(r) = r[R] /\ R - 1 \in Nat
    BY <1>1, <1>2, <1>6 DEF Last
  <2>2. DOMAIN a = 1..R - 1 /\ \A k \in 1..R - 1 : a[k] = r[k] /\ k \in 1..R /\ k < R
    <3>1. a = SubSeq(r, 1, R - 1)
      BY DEF Front
    <3> HIDE DEF a, u, r
    <3>2. R - 1 \in 0..Len(r) /\ r \in Seq(Seq(MessagesTo(n)))
      BY <1>1, <2>1
    <3>3. DOMAIN a = 1..R - 1 /\ \A k \in 1..R - 1 : a[k] = r[k]
      BY <3>1, <3>2, Prefix
    <3>4. \A k \in 1..R - 1 : k \in 1..R /\ k < R
      BY <1>2
    <3> QED BY <3>3, <3>4
  <2>3. Redone(mgr).u = u /\ Redone(mgr).r = a
    BY <1>1 DEF Redone
  <2> HIDE DEF a, u, r, U, R
  <2>4. NewestOf(r[R]) \in Nat /\ now <= NewestOf(r[R])
    BY <1>3, <2>1
  <2>5. \A k \in 1..U : NewestOf(u[k]) <= NewestOf(r[R])
    BY <1>3, <1>4, <2>4
  <2>6. \A k \in 1..R - 1 : NewestOf(r[R]) <= NewestOf(a[k])
    BY <1>3, <2>1, <2>2
  <2>7. \A j, k \in 1..R - 1 : j < k => NewestOf(a[k]) <= NewestOf(a[j])
    BY <1>3, <2>2
  <2> QED BY <1>2, <1>3, <2>1, <2>2, <2>3, <2>4, <2>5, <2>6, <2>7 DEF Around
<1>7. ASSUME NEW j \in DOMAIN u PROVE Around(RestoredTo(mgr, j), NewestOf(u[j]))
  <2> DEFINE a == SubSeq(u, 1, j - 1)
  <2>1. j \in 1..U /\ j - 1 \in 0..U
    BY <1>2
  <2>2. DOMAIN a = 1..j - 1 /\ \A k \in 1..j - 1 : a[k] = u[k] /\ k \in 1..U /\ k < j
    <3> HIDE DEF u, r, U
    <3>1. j - 1 \in 0..Len(u)
      BY <2>1 DEF U
    <3>2. DOMAIN a = 1..j - 1 /\ \A k \in 1..j - 1 : a[k] = u[k]
      BY <1>1, <3>1, Prefix
    <3>3. \A k \in 1..j - 1 : k \in 1..U /\ k < j
      BY <1>2, <2>1
    <3> QED BY <3>2, <3>3
  <2>3. RestoredTo(mgr, j).u = a /\ RestoredTo(mgr, j).r = <<>>
    BY DEF RestoredTo
  <2> HIDE DEF a, u, r, U, R
  <2>4. \A k \in 1..j - 1 : NewestOf(a[k]) <= NewestOf(u[j])
    BY <1>3, <2>1, <2>2
  <2>5. \A i, k \in 1..j - 1 : i < k => NewestOf(a[i]) <= NewestOf(a[k])
    BY <1>3, <2>2
  <2> QED BY <2>2, <2>3, <2>4, <2>5 DEF Around
<1>8. ASSUME NEW m, NEW later \in Nat, NewestOf(m) = now, now <= later
      PROVE  Around(Checkpoint(mgr, m), later)
  <2> DEFINE a == Append(u, m)
             b == Tail(a)
             c == Checkpoint(mgr, m).u
  <2>1. /\ DOMAIN a = 1..U + 1 /\ a[U + 1] = m /\ Len(a) = U + 1 /\ \A k \in 1..U : a[k] = u[k]
    BY <1>1, <1>2
  <2>2. DOMAIN b = 1..U /\ \A k \in 1..U : b[k] = a[k + 1]
    <3>1. DOMAIN b = 1..Len(a) - 1 /\ \A k \in 1..Len(a) - 1 : b[k] = a[k + 1]
      BY <2>1
    <3> HIDE DEF b
    <3> QED BY <1>2, <2>1, <3>1
  <2>3. (c = a \/ c = b) /\ Checkpoint(mgr, m).r = <<>>
    BY DEF Checkpoint
  <2> HIDE DEF a, b, c, u, r, U, R
  <2>4. \A k \in 1..U + 1 : NewestOf(a[k]) \in Nat /\ NewestOf(a[k]) <= now
    <3>1. ASSUME NEW k \in 1..U + 1 PROVE NewestOf(a[k]) \in Nat /\ NewestOf(a[k]) <= now
      <4>1. CASE k = U + 1
        BY <1>4, <1>8, <2>1, <4>1
      <4>2. CASE k # U + 1
        <5>1. k \in 1..U
          BY <1>2, <4>2
        <5> QED BY <1>3, <2>1, <5>1
      <4> QED BY <4>1, <4>2
    <3> QED BY <3>1
  <2>5. \A j, k \in 1..U + 1 : j < k => NewestOf(a[j]) <= NewestOf(a[k])
    <3>1. ASSUME NEW j \in 1..U + 1, NEW k \in 1..U + 1, j < k PROVE NewestOf(a[j]) <= NewestOf(a[k])
      <4>1. j \in 1..U
        BY <1>2, <3>1
      <4>2. CASE k = U + 1
        BY <1>8, <2>1, <2>4, <4>2
      <4>3. CASE k # U + 1
        <5>1. k \in 1..U
          BY <1>2, <4>3
        <5> QED BY <1>3, <2>1, <3>1, <4>1, <5>1
      <4> QED BY <4>2, <4>3
    <3> QED BY <3>1
  <2>6. \A k \in 1..U : k + 1 \in 1..U + 1
    BY <1>2
  <2>7. \A k \in DOMAIN c : NewestOf(c[k]) <= later
    <3>1. \A k \in 1..U + 1 : NewestOf(a[k]) <= later
      BY <1>4, <1>8, <2>4
    <3> QED BY <2>1, <2>2, <2>3, <2>6, <3>1
  <2>8. \A j, k \in DOMAIN c : j < k => NewestOf(c[j]) <= NewestOf(c[k])
    <3>1. ASSUME NEW j \in 1..U, NEW k \in 1..U, j < k PROVE NewestOf(b[j]) <= NewestOf(b[k])
      <4>1. j + 1 < k + 1
        BY <3>1
      <4> QED BY <2>2, <2>5, <2>6, <4>1
    <3> QED BY <2>1, <2>2, <2>3, <2>5, <3>1
  <2> QED BY <2>3, <2>7, <2>8 DEF Around, c
<1> QED BY <1>5, <1>6, <1>7, <1>8

\* A thread without a history can be anything.
LEMMA AroundNew == \A now : Around(NewUndo, now)
<1>1. DOMAIN NewUndo.u = {} /\ DOMAIN NewUndo.r = {}
  BY DEF NewUndo
<1> QED BY <1>1 DEF Around

\* Steps between which the pruner rests: a thread's history is dropped, fits what
\* the thread becomes, or stays with it.
LEMMA RedoKeeps ==
  ASSUME RedoInv, ~raced, p.pc = "idle", p' = p,
         \A t \in Thr : \/ undo'[t] = NewUndo
                        \/ InUse(t)' /\ Around(undo'[t], Now(t)')
                        \/ undo'[t] = undo[t] /\ (InUse(t) => InUse(t)' /\ Now(t)' = Now(t))
  PROVE  RedoInv'
<1>1. ASSUME NEW t \in Thr PROVE StacksFit(t)'
  <2>1. StacksFit(t)' <=> IF InUse(t)' THEN Around(undo'[t], Now(t)')
                          ELSE undo'[t] = NewUndo \/ (p'.pc \in {"unmap", "unundo"} /\ t \in p'.thr)
    BY DEF StacksFit
  <2>2. IF InUse(t) THEN Around(undo[t], Now(t)) ELSE undo[t] = NewUndo
    BY DEF RedoInv, StacksFit
  <2> QED BY <2>1, <2>2, AroundNew
<1> QED BY <1>1 DEF RedoInv

\* What the steps of the handler start from.
RedoAt == HistoryAt /\ RedoInv /\ ~raced /\ p.pc = "idle"

\* handle_message up to the dispatch: a thread that is hydrated or created has no
\* history, and get_undo_manager makes an empty one.
LEMMA RedoResolve ==
  ASSUME RedoAt, ~raced',
         \/ \E e \in Ext : Receive(e)
         \/ \E ok \in BOOLEAN : HydrateRead(ok)
         \/ HydrateInsert \/ RegisterMap \/ RegisterSession
         \/ ResolveSession \/ ResolveFind \/ ResolveMap \/ ResolveUndo
  PROVE  RedoInv'
<1>n. /\ IInv /\ Shape /\ HandlerOK /\ WayOK /\ RedoInv /\ ~raced /\ p.pc = "idle" /\ NoSess \notin Sess
      /\ cur # NoSess => cur \in Sess /\ SessId = cur /\ SesWith = ses /\ SessionOK(ses[cur])
  BY ExtAssumption, LookupCur DEF RedoAt, HistoryAt, IInv, PromptInv, Shape
<1>s. ASSUME undo' = undo, p' = p, \A t \in Thr : InUse(t) => InUse(t)' /\ Now(t)' = Now(t)
      PROVE  RedoInv'
  BY <1>s, <1>n, RedoKeeps
<1>1. CASE (\E e \in Ext : Receive(e)) \/ RegisterMap \/ ResolveMap
  <2>1. UNCHANGED <<cur, ses, undo, p>>
    BY <1>1 DEF Receive, RegisterMap, ResolveMap, memory
  <2> QED BY <1>s, <2>1 DEF InUse, Now
<1>2. CASE ResolveSession \/ \E ok \in BOOLEAN : HydrateRead(ok)
  <2>1. undo' = undo /\ p' = p /\ cur' = SessId /\ ses' = SesWith
    BY <1>2 DEF ResolveSession, HydrateRead
  <2> QED BY <1>n, <1>s, <2>1 DEF InUse, Now
<1>3. CASE RegisterSession
  <2>1. undo' = undo /\ p' = p /\ ses' = ses /\ (cur # NoSess => cur' = cur)
    BY <1>3 DEF RegisterSession
  <2> QED BY <1>s, <2>1 DEF InUse, Now
<1>4. CASE HydrateInsert
  <2> DEFINE t0 == Parse[h.ext]
             turns0 == restore_from_messages(h.hist)
             sn == create_thread(ses[h.s], t0)
             new == [sn EXCEPT !.th[t0].turns = turns0]
  <2>1. /\ h.s = cur /\ cur \in Sess /\ t0 \in Thr /\ t0 \notin ses[cur].there
        /\ undo' = undo /\ p' = p /\ cur' = cur /\ ses' = [ses EXCEPT ![h.s] = new]
    BY <1>4, <1>n DEF HydrateInsert, WayOK, HandlerOK, Shape
  <2>2. SessionOK(sn) /\ sn.there = ses[cur].there \cup {t0} /\ sn.th = [ses[cur].th EXCEPT ![t0] = NewThread]
    <3>1. SessionOK(ses[cur]) /\ SessionOK(sn) /\ h.s = cur
      BY <1>n, <2>1, CreateOK
    <3> QED BY <3>1 DEF create_thread, SessionOK, SessionFields
  <2>3. new = [sn EXCEPT !.th = [sn.th EXCEPT ![t0] = [sn.th[t0] EXCEPT !.turns = turns0]]]
    OBVIOUS
  <2> HIDE DEF sn, turns0, new
  <2>4. /\ new.there = ses[cur].there \cup {t0}
        /\ \A t \in Thr : t # t0 => new.th[t] = ses[cur].th[t]
    BY <1>n, <2>1, <2>2, <2>3 DEF SessionOK, SessionFields
  <2>5. ses'[cur] = new
    BY <1>n, <2>1 DEF Shape
  <2> QED BY <1>s, <2>1, <2>4, <2>5 DEF InUse, Now
<1>5. CASE ResolveFind
  <2>1. h.s = cur /\ cur \in Sess /\ undo' = undo /\ p' = p /\ cur' = cur
    BY <1>5, <1>n DEF ResolveFind, WayOK, HandlerOK
  <2>2. CASE map[h.ext] \in ses[h.s].there
    <3>1. ses' = ses
      BY <1>5, <2>2 DEF ResolveFind
    <3> QED BY <1>s, <2>1, <3>1 DEF InUse, Now
  <2>3. CASE map[h.ext] \notin ses[h.s].there
    <3>1. Unused # {} /\ ses' = [ses EXCEPT ![h.s] = create_thread(@, NewId)]
      BY <1>5, <2>3 DEF ResolveFind
    <3>2. NewId \in Unused
      BY <3>1 DEF NewId
    <3>3. NewId \in Thr /\ NewId \notin ses[cur].there
      BY <2>1, <3>2, UnusedIsNew DEF Thr
    <3>4. ses'[cur] = create_thread(ses[cur], NewId)
      BY <1>n, <2>1, <3>1 DEF Shape
    <3>5. /\ create_thread(ses[cur], NewId).there = ses[cur].there \cup {NewId}
          /\ \A t \in Thr : t # NewId => create_thread(ses[cur], NewId).th[t] = ses[cur].th[t]
      BY <1>n, <2>1, <3>3, CreateOK DEF create_thread, Shape, SessionOK, SessionFields
    <3> QED BY <1>s, <2>1, <3>3, <3>4, <3>5 DEF InUse, Now
  <2> QED BY <2>2, <2>3
<1>6. CASE ResolveUndo
  <2>1. UNCHANGED <<cur, ses, p>> /\ undo' = [undo EXCEPT ![h.t] = NewUndo]
    BY <1>6 DEF ResolveUndo
  <2>2. undo = [t \in Thr |-> undo[t]]
    BY DEF RedoAt, HistoryAt, HistoryInv, Undos
  <2>3. \A t \in Thr : undo'[t] = NewUndo \/ undo'[t] = undo[t]
    BY <2>1, <2>2
  <2> QED BY <1>n, <2>1, <2>3, RedoKeeps DEF InUse, Now
<1> QED BY <1>1, <1>2, <1>3, <1>4, <1>5, <1>6

\* Where the handler writes: the thread in hand is in use.
LEMMA HandInUse ==
  ASSUME RedoAt, h.pc \in {"dispatch", "loop", "tools"}
  PROVE  /\ h.s = cur /\ cur \in Sess /\ cur # NoSess /\ h.t \in Thr /\ h.t \in ses[cur].there
         /\ ThreadFields \subseteq DOMAIN T /\ T.turns \in Seq(TurnsTo(nin)) /\ nin \in Nat
         /\ Around(undo[h.t], Newest(T.turns)) /\ UndoFits(undo[h.t], h.t, nin, overlap)
         /\ undo = [t \in Thr |-> undo[t]]
<1>1. /\ h.s = cur /\ cur \in Sess /\ cur # NoSess /\ h.t \in Thr /\ h.t \in ses[cur].there
  BY ExtAssumption DEF RedoAt, HistoryAt, PromptInv, WayOK, IInv, HandlerOK
<1>2. ThreadFields \subseteq DOMAIN T /\ T.turns \in Seq(TurnsTo(nin)) /\ nin \in Nat
  BY <1>1, HandFits, Numbers DEF RedoAt, HistoryAt
<1>3. UndoFits(undo[h.t], h.t, nin, overlap) /\ undo = [t \in Thr |-> undo[t]]
  BY <1>1 DEF RedoAt, HistoryAt, HistoryInv, Undos
<1>4. StacksFit(h.t) /\ InUse(h.t) /\ Now(h.t) = Newest(T.turns)
  BY <1>1 DEF RedoAt, RedoInv, InUse, Now, T
<1>5. Around(undo[h.t], Newest(T.turns))
  BY <1>4 DEF StacksFit
<1> QED BY <1>1, <1>2, <1>3, <1>5

\* The thread in hand becomes th.
HandBecomes(th) ==
    /\ cur' = cur /\ ses'[cur].there = ses[cur].there
    /\ \A t \in Thr : ses'[cur].th[t] = IF t = h.t THEN th ELSE ses[cur].th[t]

\* The end of a message, and a write in the course of a turn.
LEMMA HandWrites ==
  ASSUME RedoAt, h.pc \in {"dispatch", "loop", "tools"}, NEW th, cur' = cur,
         ThreadFields \subseteq DOMAIN th, Finish(th) \/ ses' = Put(h.s, h.t, th)
  PROVE  HandBecomes(th)
<1>1. h.s = cur /\ cur \in Sess /\ h.t \in Thr /\ Shape
  BY HandInUse DEF RedoAt, HistoryAt, IInv
<1>2. ses'[cur] = Put(h.s, h.t, th)[cur]
  BY <1>1 DEF Finish, Put
<1>3. /\ Put(h.s, h.t, th)[cur].there = ses[cur].there
      /\ \A t \in Thr : Put(h.s, h.t, th)[cur].th[t] = IF t = h.t THEN th ELSE ses[cur].th[t]
  BY <1>1, PutOK, PutFields
<1> QED BY <1>2, <1>3 DEF HandBecomes

\* Such a step keeps the invariant if the history of the thread fits what it becomes.
LEMMA RedoHand ==
  ASSUME RedoAt, h.pc \in {"dispatch", "loop", "tools"}, NEW th, HandBecomes(th), p' = p,
         NEW mgr, undo' = [undo EXCEPT ![h.t] = mgr], Around(mgr, Newest(th.turns))
  PROVE  RedoInv'
<1>1. h.s = cur /\ cur \in Sess /\ cur # NoSess /\ h.t \in Thr /\ h.t \in ses[cur].there
      /\ undo = [t \in Thr |-> undo[t]]
  BY HandInUse
<1>2. \A t \in Thr : /\ InUse(t)' <=> InUse(t)
                     /\ Now(t)' = IF t = h.t THEN Newest(th.turns) ELSE Now(t)
                     /\ undo'[t] = IF t = h.t THEN mgr ELSE undo[t]
  BY <1>1 DEF HandBecomes, InUse, Now
<1>3. \A t \in Thr : t = h.t => InUse(t)
  BY <1>1 DEF InUse
<1>4. \A t \in Thr : \/ InUse(t)' /\ Around(undo'[t], Now(t)')
                     \/ undo'[t] = undo[t] /\ (InUse(t) => InUse(t)' /\ Now(t)' = Now(t))
  <2>1. ASSUME NEW t \in Thr
        PROVE  \/ InUse(t)' /\ Around(undo'[t], Now(t)')
               \/ undo'[t] = undo[t] /\ (InUse(t) => InUse(t)' /\ Now(t)' = Now(t))
    BY <1>2, <1>3
  <2> QED BY <2>1
<1> QED BY <1>4, RedoKeeps DEF RedoAt

\* Commands and answers to prompts.
LEMMA RedoCommand ==
  ASSUME RedoAt, Command
  PROVE  RedoInv'
<1> DEFINE now == Newest(T.turns)
           mgr0 == undo[h.t]
<1>0. /\ h.pc = "dispatch" /\ p' = p
  <2>1. CASE ProcessUndo \/ ProcessRedo \/ \E j \in 1..MaxCheckpoints : ProcessResume(j)
    BY <2>1 DEF ProcessUndo, ProcessRedo, ProcessResume, Restore
  <2>2. CASE ProcessInterrupt \/ ProcessClear \/ ProcessCompact \/ ProcessOther
    BY <2>2 DEF ProcessInterrupt, ProcessClear, ProcessCompact, ProcessOther, Decline
  <2>3. CASE ProcessNewThread \/ \E t \in Thr : ProcessSwitchThread(t)
    BY <2>3 DEF ProcessNewThread, ProcessSwitchThread, OnSession
  <2>4. ASSUME NEW id, AnswerMissed(id) \/ Denied(id) \/ \E always \in BOOLEAN : Approved(id, always)
        PROVE  h.pc = "dispatch" /\ p' = p
    BY <2>4 DEF AnswerMissed, Decline, Denied, Approved
  <2> QED BY <2>1, <2>2, <2>3, <2>4 DEF Command
<1>1. /\ h.s = cur /\ cur \in Sess /\ cur # NoSess /\ h.t \in Thr /\ ThreadFields \subseteq DOMAIN T
      /\ T.turns \in Seq(TurnsTo(nin)) /\ nin \in Nat /\ Around(mgr0, now)
      /\ UndoFits(mgr0, h.t, nin, overlap) /\ undo = [t \in Thr |-> undo[t]]
  BY <1>0, HandInUse
<1>2. now \in 0..nin /\ NewestOf(messages(T.turns)) = now /\ Newest(<<>>) = 0
  BY <1>1, NewestOK
<1>3. /\ mgr0.u # <<>> => Around(Undone(mgr0, messages(T.turns)), NewestOf(Last(mgr0.u)))
      /\ mgr0.r # <<>> => Around(Redone(mgr0), NewestOf(Last(mgr0.r)))
      /\ \A j \in DOMAIN mgr0.u : Around(RestoredTo(mgr0, j), NewestOf(mgr0.u[j]))
  <2> HIDE DEF now, mgr0
  <2> QED BY <1>1, <1>2, AroundEdits
<1>4. ASSUME NEW m, Restore(m), NEW mgr, undo' = [undo EXCEPT ![h.t] = mgr], Around(mgr, NewestOf(m))
      PROVE  RedoInv'
  <2> DEFINE th == [T EXCEPT !.st = "Idle", !.turns = restore_from_messages(m)]
  <2>1. Finish(th) /\ cur' = cur
    BY <1>4 DEF Restore
  <2>2. th.turns = restore_from_messages(m) /\ ThreadFields \subseteq DOMAIN th
    BY <1>1 DEF ThreadFields
  <2> HIDE DEF th
  <2>3. HandBecomes(th)
    BY <1>0, <2>1, <2>2, HandWrites
  <2> QED BY <1>0, <1>4, <2>2, <2>3, RedoHand DEF NewestOf
\* The history stays.
<1>5. ASSUME NEW th, HandBecomes(th), Newest(th.turns) = now, undo' = undo PROVE RedoInv'
  <2>1. undo' = [undo EXCEPT ![h.t] = mgr0]
    BY <1>1, <1>5
  <2> QED BY <1>0, <1>1, <1>5, <2>1, RedoHand
<1>6. ASSUME NEW th, Finish(th), ThreadFields \subseteq DOMAIN th, Newest(th.turns) = now,
             UNCHANGED <<cur, undo>>
      PROVE  RedoInv'
  <2>1. HandBecomes(th)
    BY <1>0, <1>6, HandWrites
  <2> QED BY <1>5, <1>6, <2>1
<1>7. CASE ProcessUndo
  <2>1. /\ undo' = [undo EXCEPT ![h.t] = Undone(@, messages(T.turns))] /\ mgr0.u # <<>>
        /\ Restore(Last(mgr0.u))
    BY <1>7 DEF ProcessUndo
  <2>2. undo' = [undo EXCEPT ![h.t] = Undone(mgr0, messages(T.turns))]
    BY <1>1, <2>1
  <2> HIDE DEF mgr0
  <2> QED BY <1>3, <1>4, <2>1, <2>2
<1>8. CASE ProcessRedo
  <2>1. undo' = [undo EXCEPT ![h.t] = Redone(@)] /\ mgr0.r # <<>> /\ Restore(Last(mgr0.r))
    BY <1>8 DEF ProcessRedo
  <2>2. undo' = [undo EXCEPT ![h.t] = Redone(mgr0)]
    BY <1>1, <2>1
  <2> HIDE DEF mgr0
  <2> QED BY <1>3, <1>4, <2>1, <2>2
<1>9. ASSUME NEW j, ProcessResume(j) PROVE RedoInv'
  <2>1. undo' = [undo EXCEPT ![h.t] = RestoredTo(@, j)] /\ j \in DOMAIN mgr0.u /\ Restore(mgr0.u[j])
    BY <1>9 DEF ProcessResume
  <2>2. undo' = [undo EXCEPT ![h.t] = RestoredTo(mgr0, j)]
    BY <1>1, <2>1
  <2> HIDE DEF mgr0
  <2> QED BY <1>3, <1>4, <2>1, <2>2
<1>10. CASE ProcessInterrupt
  <2>1. Finish([T EXCEPT !.st = "Interrupted"]) /\ UNCHANGED <<cur, undo>>
    BY <1>10 DEF ProcessInterrupt, interrupt
  <2> QED BY <1>1, <1>6, <2>1 DEF ThreadFields
<1>11. CASE ProcessCompact
  <2>1. PICK turns \in Compacted(T.turns) :
           Finish([T EXCEPT !.turns = turns]) /\ UNCHANGED <<cur, undo>>
    BY <1>11 DEF ProcessCompact
  <2>2. Newest(turns) = now
    BY <1>1, <2>1, CompactedOK DEF Newest
  <2>3. [T EXCEPT !.turns = turns].turns = turns /\ ThreadFields \subseteq DOMAIN [T EXCEPT !.turns = turns]
    BY <1>1 DEF ThreadFields
  <2> QED BY <1>6, <2>1, <2>2, <2>3
<1>12. CASE ProcessClear
  <2> DEFINE th == [T EXCEPT !.st = "Idle", !.turns = <<>>]
  <2>1. Finish(th) /\ cur' = cur /\ undo' = [undo EXCEPT ![h.t] = NewUndo]
    BY <1>12 DEF ProcessClear
  <2>2. ThreadFields \subseteq DOMAIN th
    BY <1>1 DEF ThreadFields
  <2> HIDE DEF th
  <2>3. HandBecomes(th)
    BY <1>0, <2>1, <2>2, HandWrites
  <2> QED BY <1>0, <2>1, <2>3, AroundNew, RedoHand
<1>13. ASSUME NEW id, AnswerMissed(id) \/ ProcessOther PROVE RedoInv'
  <2>1. Finish(T) /\ UNCHANGED <<cur, undo>>
    BY <1>13 DEF AnswerMissed, ProcessOther, Decline
  <2> QED BY <1>1, <1>6, <2>1
<1>14. ASSUME NEW id, Denied(id) PROVE RedoInv'
  <2>1. Finish([T EXCEPT !.st = "Idle", !.pend = NoReq]) /\ UNCHANGED <<cur, undo>>
    BY <1>14 DEF Denied, clear_pending_approval
  <2> QED BY <1>1, <1>6, <2>1 DEF ThreadFields
<1>15. ASSUME NEW id, NEW always \in BOOLEAN, Approved(id, always) PROVE RedoInv'
  <2> DEFINE th == [T EXCEPT !.st = "Processing", !.pend = NoReq]
             auto == IF always THEN ses[h.s].auto \cup {ToolOf[T.pend.call]} ELSE ses[h.s].auto
             put == Put(h.s, h.t, th)
  <2>1. ses[cur] = [ses EXCEPT ![cur] = ses[cur]][cur] /\ Shape /\ SessionOK(ses[cur])
    BY <1>1 DEF RedoAt, HistoryAt, IInv, Shape
  <2>2. undo' = undo /\ cur' = cur /\ ses' = [put EXCEPT ![h.s].auto = auto]
    BY <1>1, <1>15, <2>1 DEF Approved, Put, Shape, SessionOK, SessionFields
  <2>3. ThreadFields \subseteq DOMAIN th /\ th.turns = T.turns
    BY <1>1 DEF ThreadFields
  <2> HIDE DEF th, auto
  <2>4. /\ put = [s \in Sess |-> put[s]] /\ SessionOK(put[cur]) /\ put[cur].there = ses[cur].there
        /\ \A t \in Thr : put[cur].th[t] = IF t = h.t THEN th ELSE ses[cur].th[t]
    BY <1>1, <2>1, <2>3, PutOK, PutFields
  <2> HIDE DEF put
  <2>5. ses'[cur].th = put[cur].th /\ ses'[cur].there = put[cur].there
    BY <1>1, <2>2, <2>4 DEF SessionOK, SessionFields
  <2>6. HandBecomes(th)
    BY <2>2, <2>4, <2>5 DEF HandBecomes
  <2> QED BY <1>5, <2>2, <2>3, <2>6
\* /new and /thread.
<1>16. ASSUME NEW sn, OnSession(sn), ses[cur].there \subseteq sn.there,
              \A t \in ses[cur].there : sn.th[t] = ses[cur].th[t]
       PROVE  RedoInv'
  <2>1. undo' = undo /\ cur' = SessId /\ ses' = [s \in Sess |-> IF s = SessId THEN sn ELSE NewSession]
    BY <1>16 DEF OnSession
  <2>2. SessId = cur
    BY <1>1 DEF SessId
  <2>3. cur' = cur /\ ses'[cur] = sn
    BY <1>1, <2>1, <2>2
  <2>4. \A t \in Thr : InUse(t) => InUse(t)' /\ Now(t)' = Now(t)
    BY <1>1, <1>16, <2>3 DEF InUse, Now
  <2> QED BY <1>0, <2>1, <2>4, RedoKeeps DEF RedoAt
<1>17. SessId = cur /\ SesWith = ses /\ SessionOK(ses[cur])
  BY <1>1 DEF SessId, SesWith, RedoAt, HistoryAt, IInv, Shape
<1>18. CASE ProcessNewThread
  <2>1. Unused # {} /\ OnSession(create_thread(ses[cur], NewId))
    BY <1>17, <1>18, FS_EmptySet DEF ProcessNewThread
  <2>2. NewId \in Unused
    BY <2>1 DEF NewId
  <2>3. NewId \in Thr /\ NewId \notin ses[cur].there
    BY <1>1, <2>2, UnusedIsNew DEF Thr
  <2>4. /\ create_thread(ses[cur], NewId).there = ses[cur].there \cup {NewId}
        /\ \A t \in Thr : t # NewId => create_thread(ses[cur], NewId).th[t] = ses[cur].th[t]
    BY <1>17, <2>3, CreateOK DEF create_thread, SessionOK, SessionFields
  <2>5. ses[cur].there \subseteq Thr
    BY <1>17 DEF SessionOK
  <2> QED BY <1>16, <2>1, <2>3, <2>4, <2>5
<1>19. ASSUME NEW t \in Thr, ProcessSwitchThread(t) PROVE RedoInv'
  <2> DEFINE sn == [ses[cur] EXCEPT !.stale = FALSE]
  <2>1. OnSession(sn)
    BY <1>17, <1>19 DEF ProcessSwitchThread, switch_thread
  <2>2. sn.there = ses[cur].there /\ sn.th = ses[cur].th
    BY <1>17 DEF SessionOK, SessionFields
  <2> HIDE DEF sn
  <2> QED BY <1>16, <2>1, <2>2
<1> QED
  BY <1>7, <1>8, <1>9, <1>10, <1>11, <1>12, <1>13, <1>14, <1>15, <1>18, <1>19 DEF Command

\* A turn: the checkpoint it takes holds the turns before it, and it is newer than
\* they are, so nothing is left to redo.
LEMMA RedoTurn ==
  ASSUME RedoAt,
         \/ BeginTurn
         \/ LoopError \/ Nudge \/ LoopText \/ (\E b \in Batches : LoopCalls(b)) \/ ToolRuns \/ ToolGated
  PROVE  RedoInv'
<1> DEFINE now == Newest(T.turns)
           mgr0 == undo[h.t]
<1>0. h.pc \in {"dispatch", "loop", "tools"} /\ p' = p /\ cur' = cur
  <2>1. CASE BeginTurn \/ LoopError \/ LoopText \/ ToolGated
    BY <2>1 DEF BeginTurn, LoopError, LoopText, ToolGated
  <2>2. CASE Nudge \/ ToolRuns \/ \E b \in Batches : LoopCalls(b)
    BY <2>2 DEF Nudge, ToolRuns, LoopCalls, memory
  <2> QED BY <2>1, <2>2
<1>1. /\ h.s = cur /\ cur \in Sess /\ cur # NoSess /\ h.t \in Thr /\ ThreadFields \subseteq DOMAIN T
      /\ T.turns \in Seq(TurnsTo(nin)) /\ nin \in Nat /\ Around(mgr0, now)
      /\ UndoFits(mgr0, h.t, nin, overlap) /\ undo = [t \in Thr |-> undo[t]]
  BY <1>0, HandInUse
<1>2. now \in 0..nin
  BY <1>1, NewestOK
<1>3. ASSUME NEW th, Finish(th), ThreadFields \subseteq DOMAIN th, Newest(th.turns) = now, undo' = undo
      PROVE  RedoInv'
  <2>1. HandBecomes(th)
    BY <1>0, <1>3, HandWrites
  <2>2. undo' = [undo EXCEPT ![h.t] = mgr0]
    BY <1>1, <1>3
  <2> QED BY <1>0, <1>1, <1>3, <2>1, <2>2, RedoHand
<1>4. CASE BeginTurn
  <2>1. PICK turns \in Compacted(T.turns) :
           /\ undo' = [undo EXCEPT ![h.t] = Checkpoint(@, messages(turns))]
           /\ ses' = [ses EXCEPT ![h.s].th[h.t] = start_turn([@ EXCEPT !.turns = turns], nin + 1)]
    BY <1>4 DEF BeginTurn
  <2> DEFINE m == messages(turns)
             all == Append(turns, [in |-> nin + 1, out |-> 0])
             th == start_turn([T EXCEPT !.turns = turns], nin + 1)
  <2>2. turns \in Seq(TurnsTo(nin)) /\ Newest(turns) = now
    BY <1>1, <2>1, CompactedOK DEF Newest
  <2>3. NewestOf(m) = now
    BY <1>1, <2>2, NewestOK
  <2>4. th = [T EXCEPT !.st = "Processing", !.turns = all]
    BY <1>1 DEF start_turn, ThreadFields
  <2>5. Newest(all) = nin + 1
    <3>1. Len(all) = Len(turns) + 1 /\ all[Len(turns) + 1] = [in |-> nin + 1, out |-> 0] /\ Len(turns) \in Nat
      BY <1>1, <2>2
    <3>2. all # <<>>
      BY <3>1
    <3> HIDE DEF all
    <3> QED BY <3>1, <3>2 DEF Newest
  <2>6. ses' = Put(h.s, h.t, th)
    BY <1>1, <2>1 DEF Put, T, RedoAt, HistoryAt, IInv, Shape, SessionOK, SessionFields
  <2> HIDE DEF all, m
  <2>7. th.turns = all /\ ThreadFields \subseteq DOMAIN th
    BY <1>1, <2>4 DEF ThreadFields
  <2> HIDE DEF th
  <2>8. HandBecomes(th)
    BY <1>0, <2>6, <2>7, HandWrites
  <2>9. undo' = [undo EXCEPT ![h.t] = Checkpoint(mgr0, m)]
    BY <1>1, <2>1 DEF m
  <2>10. Around(Checkpoint(mgr0, m), nin + 1)
    <3>1. nin + 1 \in Nat /\ now <= nin + 1
      BY <1>1, <1>2
    <3> HIDE DEF now, mgr0
    <3> QED BY <1>1, <1>2, <2>3, <3>1, AroundEdits
  <2> QED BY <1>0, <2>5, <2>7, <2>8, <2>9, <2>10, RedoHand
<1>5. CASE LoopError
  <2>1. Finish([T EXCEPT !.st = "Idle"]) /\ undo' = undo
    BY <1>5 DEF LoopError, fail_turn
  <2> QED BY <1>1, <1>3, <2>1 DEF ThreadFields
<1>6. CASE LoopText
  <2> DEFINE th == complete_turn(T, h.in)
  <2>1. Finish(th) /\ undo' = undo
    BY <1>6 DEF LoopText
  <2>2. ThreadFields \subseteq DOMAIN th /\ (T.turns = <<>> => th.turns = T.turns)
        /\ (T.turns # <<>> => th.turns = [T.turns EXCEPT ![Len(T.turns)].out = h.in])
    BY <1>1 DEF complete_turn, ThreadFields
  <2> HIDE DEF th
  <2>3. ASSUME T.turns # <<>> PROVE Newest(th.turns) = now
    <3> DEFINE turns == T.turns
               n == Len(turns)
    <3>1. n \in 1..n /\ turns[n] \in TurnsTo(nin)
      BY <1>1, <2>3
    <3>2. Len(th.turns) = n /\ th.turns[n] = [turns[n] EXCEPT !.out = h.in] /\ th.turns # <<>>
      BY <1>1, <2>2, <2>3, <3>1
    <3>3. th.turns[n].in = turns[n].in
      BY <3>1, <3>2 DEF TurnsTo
    <3> HIDE DEF n
    <3> QED BY <2>3, <3>2, <3>3 DEF Newest, n
  <2> QED BY <1>3, <2>1, <2>2, <2>3
<1>7. CASE Nudge \/ ToolRuns \/ \E b \in Batches : LoopCalls(b)
  <2>1. UNCHANGED <<cur, ses, undo, p>>
    BY <1>7 DEF Nudge, ToolRuns, LoopCalls, memory
  <2>2. \A t \in Thr : undo'[t] = undo[t] /\ (InUse(t) => InUse(t)' /\ Now(t)' = Now(t))
    BY <2>1 DEF InUse, Now
  <2> QED BY <2>1, <2>2, RedoKeeps DEF RedoAt
<1>8. CASE ToolGated
  <2> DEFINE q == [id |-> nreq + 1, in |-> h.in, call |-> Head(h.calls)]
  <2>1. Finish([T EXCEPT !.st = "AwaitingApproval", !.pend = q]) /\ undo' = undo
    BY <1>8 DEF ToolGated, await_approval
  <2> HIDE DEF q
  <2> QED BY <1>1, <1>3, <2>1 DEF ThreadFields
<1> QED BY <1>4, <1>5, <1>6, <1>7, <1>8

\* The pruner forgets a session before the undo histories of its threads; until it
\* gets to them nobody creates these threads anew.
LEMMA RedoOthers ==
  ASSUME HistoryAt, RedoInv, ~raced, ~raced',
         Pruner \/ Tick \/ Restart \/ UNCHANGED vars \/ \E i \in Inputs : Writer(i)
  PROVE  RedoInv'
<1>1. /\ \A t \in Thr : IF InUse(t) THEN Around(undo[t], Now(t))
                        ELSE undo[t] = NewUndo \/ (p.pc \in {"unmap", "unundo"} /\ t \in p.thr)
      /\ p.pc = "remove" /\ cur # NoSess => ses[cur].there \subseteq p.thr
      /\ PrunerOK /\ Shape /\ HandlerOK /\ NoSess \notin Sess /\ DOMAIN p = {"pc", "thr"}
  BY ExtAssumption DEF RedoInv, StacksFit, HistoryAt, PromptInv, IInv, HistoryInv, Plain
<1>2. ASSUME cur' = cur, ses' = ses PROVE \A t \in Thr : (InUse(t)' <=> InUse(t)) /\ Now(t)' = Now(t)
  BY <1>2 DEF InUse, Now
<1>3. ASSUME \A t \in Thr : IF InUse(t)' THEN Around(undo'[t], Now(t)')
                            ELSE undo'[t] = NewUndo \/ (p'.pc \in {"unmap", "unundo"} /\ t \in p'.thr),
             p'.pc = "remove" /\ cur' # NoSess => ses'[cur'].there \subseteq p'.thr
      PROVE  RedoInv'
  BY <1>3 DEF RedoInv, StacksFit
<1>4. CASE UNCHANGED vars \/ \E i \in Inputs : Writer(i)
  <2>1. UNCHANGED <<cur, ses, undo, p>>
    BY <1>4 DEF vars, memory, Writer, PersistUser, PersistAssistant, Write
  <2> QED BY <1>1, <1>2, <1>3, <2>1
<1>5. CASE PruneScan
  <2>1. UNCHANGED <<cur, ses, undo>> /\ p.pc = "idle" /\ p' = [p EXCEPT !.pc = "collect"]
    BY <1>5 DEF PruneScan, memory
  <2>2. p'.pc = "collect"
    BY <1>1, <2>1
  <2> QED BY <1>1, <1>2, <1>3, <2>1, <2>2
<1>6. CASE PruneCollect
  <2>1. UNCHANGED <<cur, ses, undo>> /\ p.pc = "collect"
    BY <1>6 DEF PruneCollect, memory
  <2>2. p' = [pc |-> "remove", thr |-> IF cur = NoSess THEN {} ELSE ses[cur].there]
    BY <1>1, <1>6, <2>1 DEF PruneCollect, PrunerOK
  <2>3. p'.pc = "remove" /\ (cur # NoSess => p'.thr = ses[cur].there)
    BY <2>2
  <2> QED BY <1>1, <1>2, <1>3, <2>1, <2>3
<1>7. CASE PruneRemove
  <2>1. cur' = NoSess /\ undo' = undo /\ p.pc = "remove" /\ p' = [p EXCEPT !.pc = "unmap"]
    BY <1>7 DEF PruneRemove
  <2>2. p'.pc = "unmap" /\ p'.thr = p.thr
    BY <1>1, <2>1
  <2>3. \A t \in Thr : ~InUse(t)'
    BY <2>1 DEF InUse
  <2>4. \A t \in Thr : undo[t] = NewUndo \/ t \in p.thr
    BY <1>1, <2>1 DEF InUse
  <2> QED BY <1>3, <2>1, <2>2, <2>3, <2>4
<1>8. CASE PruneMap
  <2>1. UNCHANGED <<cur, ses, undo>> /\ p.pc = "unmap" /\ p' = [p EXCEPT !.pc = "unundo"]
    BY <1>8 DEF PruneMap
  <2>2. p'.pc = "unundo" /\ p'.thr = p.thr
    BY <1>1, <2>1
  <2> QED BY <1>1, <1>2, <1>3, <2>1, <2>2
<1>9. CASE PruneUndo
  <2>1. /\ UNCHANGED <<cur, ses>> /\ p.pc = "unundo" /\ p'.pc = "idle"
        /\ undo' = [t \in Thr |-> IF t \in p.thr THEN NewUndo ELSE undo[t]]
    BY <1>9 DEF PruneUndo
  <2> QED BY <1>1, <1>2, <1>3, <2>1, AroundNew
<1>10. CASE Tick
  <2>1. /\ UNCHANGED <<cur, undo, p>> /\ p.pc = "idle" /\ cur \in Sess
        /\ ses' = [ses EXCEPT ![cur].stale = TRUE]
    BY <1>1, <1>10 DEF Tick, HandlerOK
  <2>2. ses'[cur].there = ses[cur].there /\ ses'[cur].th = ses[cur].th
    BY <1>1, <2>1 DEF Shape, SessionOK, SessionFields
  <2>3. \A t \in Thr : (InUse(t)' <=> InUse(t)) /\ Now(t)' = Now(t)
    BY <2>1, <2>2 DEF InUse, Now
  <2> QED BY <1>1, <1>3, <2>1, <2>3
<1>11. CASE Restart
  <2>1. cur' = NoSess /\ undo' = [t \in Thr |-> NewUndo] /\ p'.pc = "idle"
    BY <1>11 DEF Restart
  <2> QED BY <1>3, <2>1, AroundNew
<1> QED BY <1>4, <1>5, <1>6, <1>7, <1>8, <1>9, <1>10, <1>11 DEF Pruner

\* A prune that overlapped is never forgotten.
LEMMA RacedStays == [Next]_vars => (~raced' => ~raced)
<1> SUFFICES ASSUME [Next]_vars, ~raced' PROVE ~raced
  OBVIOUS
<1>1. CASE \E e \in Ext : Receive(e)
  BY <1>1 DEF Receive
<1>2. CASE Handler
  <2>1. CASE Command
    <3>1. CASE ProcessUndo \/ ProcessRedo \/ \E j \in 1..MaxCheckpoints : ProcessResume(j)
      BY <3>1 DEF ProcessUndo, ProcessRedo, ProcessResume, Restore, Revoke
    <3>2. CASE ProcessInterrupt \/ ProcessClear \/ ProcessCompact \/ ProcessOther
      BY <3>2 DEF ProcessInterrupt, ProcessClear, ProcessCompact, ProcessOther, Decline, Revoke, history
    <3>3. CASE ProcessNewThread \/ \E t \in Thr : ProcessSwitchThread(t)
      BY <3>3 DEF ProcessNewThread, ProcessSwitchThread, OnSession, history
    <3>4. ASSUME NEW id, AnswerMissed(id) \/ Denied(id) \/ \E always \in BOOLEAN : Approved(id, always)
          PROVE  ~raced
      BY <3>4 DEF AnswerMissed, Decline, Denied, Approved, Revoke, history
    <3> QED BY <2>1, <3>1, <3>2, <3>3, <3>4 DEF Command
  <2>2. CASE ~Command
    BY <1>2, <2>2 DEF Handler, HydrateRead, HydrateInsert, RegisterMap, RegisterSession, ResolveSession,
       ResolveFind, ResolveMap, ResolveUndo, BeginTurn, LoopError, Nudge, LoopText, LoopCalls, ToolRuns,
       ToolGated, history
  <2> QED BY <2>1, <2>2
<1>3. CASE Pruner \/ Tick \/ Restart
  BY <1>3 DEF Pruner, PruneScan, PruneCollect, PruneRemove, PruneMap, PruneUndo, Tick, Restart, history
<1>4. CASE \E i \in Inputs : Writer(i)
  BY <1>4 DEF Writer, PersistUser, PersistAssistant, Write
<1>5. CASE UNCHANGED vars
  BY <1>5 DEF vars, history
<1> QED BY <1>1, <1>2, <1>3, <1>4, <1>5 DEF Next

LEMMA RedoInit == Init => RedoInv
<1> SUFFICES ASSUME Init PROVE RedoInv
  OBVIOUS
<1>1. cur = NoSess /\ p.pc = "idle" /\ \A t \in Thr : undo[t] = NewUndo
  BY DEF Init
<1> QED BY <1>1, AroundNew DEF RedoInv, StacksFit

LEMMA RedoStep == IInv /\ PromptInv /\ HistoryInv /\ RedoInv /\ [Next]_vars => RedoInv'
<1> SUFFICES ASSUME HistoryAt, RedoInv, [Next]_vars, ~raced' PROVE RedoInv'
  BY DEF HistoryAt, RedoInv
<1>1. ~raced
  BY RacedStays
<1>2. h.pc # "idle" => RedoAt
  BY <1>1 DEF RedoAt, HistoryAt, PromptInv, PrunerOK
<1>3. CASE \E e \in Ext : Receive(e)
  <2>1. p.pc = "idle"
    BY <1>3 DEF Receive
  <2> QED BY <1>1, <1>3, <2>1, RedoResolve DEF RedoAt
<1>4. CASE Handler
  <2>1. CASE Command
    <3>1. h.pc = "dispatch"
      BY <2>1 DEF Command, ProcessUndo, ProcessRedo, ProcessResume, ProcessInterrupt, ProcessCompact,
         ProcessClear, ProcessNewThread, ProcessSwitchThread, ProcessOther, AnswerMissed, Denied, Approved
    <3> QED BY <1>2, <2>1, <3>1, RedoCommand
  <2>2. CASE \/ \E ok \in BOOLEAN : HydrateRead(ok)
             \/ HydrateInsert \/ RegisterMap \/ RegisterSession
             \/ ResolveSession \/ ResolveFind \/ ResolveMap \/ ResolveUndo
    <3>1. h.pc # "idle"
      BY <2>2 DEF HydrateRead, HydrateInsert, RegisterMap, RegisterSession, ResolveSession,
         ResolveFind, ResolveMap, ResolveUndo
    <3> QED BY <1>2, <2>2, <3>1, RedoResolve
  <2>3. CASE \/ BeginTurn
             \/ LoopError \/ Nudge \/ LoopText \/ (\E b \in Batches : LoopCalls(b)) \/ ToolRuns \/ ToolGated
    <3>1. h.pc # "idle"
      BY <2>3 DEF BeginTurn, LoopError, Nudge, LoopText, LoopCalls, ToolRuns, ToolGated
    <3> QED BY <1>2, <2>3, <3>1, RedoTurn
  <2> QED BY <1>4, <2>1, <2>2, <2>3 DEF Handler
<1> QED BY <1>1, <1>3, <1>4, RedoOthers DEF Next

\* What /redo brings back was taken off the thread by an /undo, and every turn
\* since then would have emptied the stack.
LEMMA RedoGoesForward ==
  ASSUME HistoryAt, RedoInv, ~raced, ProcessRedo
  PROVE  Newest(ses'[h.s].th[h.t].turns) >= Newest(T.turns)
<1> DEFINE now == Newest(T.turns)
           r == undo[h.t].r
           th == [T EXCEPT !.st = "Idle", !.turns = restore_from_messages(Last(r))]
<1>1. h.pc = "dispatch" /\ r # <<>> /\ Finish(th) /\ cur' = cur
  BY DEF ProcessRedo, Restore
<1>2. RedoAt
  BY <1>1 DEF RedoAt, HistoryAt, PromptInv, PrunerOK
<1>3. /\ h.s = cur /\ h.t \in Thr /\ ThreadFields \subseteq DOMAIN T /\ T.turns \in Seq(TurnsTo(nin))
      /\ nin \in Nat /\ Around(undo[h.t], now) /\ UndoFits(undo[h.t], h.t, nin, overlap)
  BY <1>1, <1>2, HandInUse
<1>4. now \in 0..nin
  BY <1>3, NewestOK
<1>5. now <= NewestOf(Last(r))
  <2> HIDE DEF now
  <2> QED BY <1>1, <1>3, <1>4, AroundEdits
<1>6. NewestOf(Last(r)) \in Nat
  <2>1. r \in Seq(Seq(MessagesTo(nin)))
    BY <1>3 DEF UndoFits, StackFits
  <2> HIDE DEF r
  <2>2. Last(r) \in Seq(MessagesTo(nin))
    BY <1>1, <2>1 DEF Last
  <2> QED BY <1>3, <2>2, NewestOK
<1>7. th.turns = restore_from_messages(Last(r)) /\ ThreadFields \subseteq DOMAIN th
  BY <1>3 DEF ThreadFields
<1> HIDE DEF th, r, now
<1>8. HandBecomes(th)
  BY <1>1, <1>2, <1>7, HandWrites
<1>9. ses'[h.s].th[h.t] = th
  BY <1>3, <1>8 DEF HandBecomes
<1> QED BY <1>4, <1>5, <1>6, <1>7, <1>9 DEF NewestOf, now

\* /redo never takes the conversation back to an older turn than the one it
\* replaces, unless a prune that overlapped left a stack behind (undo.rs:81).
THEOREM RedoNeverGoesBack == Spec => RedoLosesNothing
<1>1. IInv /\ PromptInv /\ HistoryInv /\ RedoInv /\ [Next]_vars
        => [ProcessRedo /\ ~raced
              => Newest(ses'[h.s].th[h.t].turns) >= Newest(T.turns)]_vars
  BY RedoGoesForward DEF HistoryAt
<1>2. Spec => [](IInv /\ PromptInv /\ HistoryInv /\ RedoInv)
  BY InitOK, StepOK, PromptInit, PromptStep, HistoryInit, HistoryStep, RedoInit, RedoStep, PTL DEF Spec
<1> QED
  BY <1>1, <1>2, PTL DEF Spec, RedoLosesNothing
=============================================================================
