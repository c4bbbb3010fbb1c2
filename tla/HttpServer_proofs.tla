--------------------------- MODULE HttpServer_proofs ---------------------------
(***************************************************************************)
(* Safety of HttpServer for any set of connections and any number of       *)
(* starts.                                                                 *)
(***************************************************************************)
EXTENDS HttpServer, SequenceTheorems, FiniteSetTheorems, TLAPS

\* A thread leaves the list, wherever it was on it; the others stay.
LEMMA RemoveOne ==
  ASSUME NEW S, NEW s \in Seq(S), IsInjective(s), NEW i \in DOMAIN s
  PROVE  /\ RemoveAt(s, i) \in Seq(S)
         /\ IsInjective(RemoveAt(s, i))
         /\ \A c : Contains(RemoveAt(s, i), c) <=> Contains(s, c) /\ c # s[i]
  <1> DEFINE t == RemoveAt(s, i)
  <1>1. DOMAIN s = 1..Len(s) /\ i \in 1..Len(s) /\ Len(s) \in Nat
    OBVIOUS
  <1>2. \A j \in 1..Len(s) : s[j] \in S
    OBVIOUS
  <1>3. /\ SubSeq(s, 1, i - 1) \in Seq(S) /\ Len(SubSeq(s, 1, i - 1)) = i - 1
        /\ \A j \in 1..(i - 1) : SubSeq(s, 1, i - 1)[j] = s[j]
    BY <1>1, <1>2
  <1>4. /\ SubSeq(s, i + 1, Len(s)) \in Seq(S) /\ Len(SubSeq(s, i + 1, Len(s))) = Len(s) - i
        /\ \A j \in 1..(Len(s) - i) : SubSeq(s, i + 1, Len(s))[j] = s[i + j]
    <2>1. i + 1 \in Int /\ Len(s) \in Int /\ \A j \in (i + 1)..Len(s) : s[j] \in S
      BY <1>1, <1>2
    <2>2. /\ SubSeq(s, i + 1, Len(s)) \in Seq(S)
          /\ Len(SubSeq(s, i + 1, Len(s)))
               = IF i + 1 <= Len(s) THEN Len(s) - (i + 1) + 1 ELSE 0
          /\ \A j \in 1..(Len(s) - (i + 1) + 1) :
               SubSeq(s, i + 1, Len(s))[j] = s[(i + 1) + j - 1]
      BY <2>1, SubSeqProperties
    <2> QED
      BY <1>1, <2>2
  <1>5. /\ t \in Seq(S) /\ Len(t) = Len(s) - 1 /\ DOMAIN t = 1..(Len(s) - 1)
        /\ \A j \in 1..(Len(s) - 1) : t[j] = IF j < i THEN s[j] ELSE s[j + 1]
    <2> DEFINE u == SubSeq(s, 1, i - 1)
               v == SubSeq(s, i + 1, Len(s))
    <2>1. t = u \o v
      BY DEF RemoveAt
    <2>2. /\ u \o v \in Seq(S) /\ Len(u \o v) = Len(u) + Len(v)
          /\ \A j \in 1..(Len(u) + Len(v)) :
               (u \o v)[j] = IF j <= Len(u) THEN u[j] ELSE v[j - Len(u)]
      BY <1>3, <1>4, ConcatProperties
    <2>3. Len(u) = i - 1 /\ Len(v) = Len(s) - i
      BY <1>3, <1>4
    <2> HIDE DEF t, u, v
    <2>4. t \in Seq(S) /\ Len(t) = Len(s) - 1
      BY <1>1, <2>1, <2>2, <2>3
    <2>5. ASSUME NEW j \in 1..(Len(s) - 1)
          PROVE  t[j] = IF j < i THEN s[j] ELSE s[j + 1]
      <3>1. t[j] = IF j <= i - 1 THEN u[j] ELSE v[j - (i - 1)]
        <4>1. j \in 1..(Len(u) + Len(v))
          BY <1>1, <2>3
        <4> QED
          BY <2>1, <2>2, <2>3, <4>1
      <3>2. CASE j < i
        <4>1. j \in 1..(i - 1) /\ j <= i - 1
          BY <1>1, <3>2
        <4> QED
          BY <1>3, <3>1, <3>2, <4>1 DEF u
      <3>3. CASE ~(j < i)
        <4>1. j - (i - 1) \in 1..(Len(s) - i) /\ ~(j <= i - 1) /\ i + (j - (i - 1)) = j + 1
          BY <1>1, <3>3
        <4> QED
          BY <1>4, <3>1, <3>3, <4>1 DEF v
      <3> QED
        BY <3>2, <3>3
    <2> QED
      BY <2>4, <2>5
  <1> HIDE DEF t
  <1>6. IsInjective(t)
    <2>1. ASSUME NEW j \in DOMAIN t, NEW k \in DOMAIN t, t[j] = t[k]
          PROVE  j = k
      <3> DEFINE At(n) == IF n < i THEN n ELSE n + 1
      <3>1. /\ At(j) \in 1..Len(s) /\ s[At(j)] = t[j]
            /\ At(k) \in 1..Len(s) /\ s[At(k)] = t[k]
        BY <1>1, <1>5
      <3>2. At(j) = At(k)
        BY <1>1, <2>1, <3>1 DEF IsInjective
      <3> QED
        BY <1>1, <1>5, <3>2
    <2> QED
      BY <2>1 DEF IsInjective
  <1>7. ASSUME NEW c  PROVE  Contains(t, c) <=> Contains(s, c) /\ c # s[i]
    <2>1. ASSUME NEW j \in 1..Len(t), t[j] = c
          PROVE  Contains(s, c) /\ c # s[i]
      <3>1. PICK k \in 1..Len(s) : s[k] = c /\ k # i
        BY <1>1, <1>5, <2>1
      <3> QED
        BY <1>1, <3>1 DEF Contains, IsInjective
    <2>2. ASSUME NEW j \in 1..Len(s), s[j] = c, c # s[i]
          PROVE  Contains(t, c)
      <3>1. CASE j < i
        BY <1>1, <1>5, <2>2, <3>1 DEF Contains
      <3>2. CASE j > i
        <4>1. j - 1 \in 1..Len(t) /\ t[j - 1] = s[j]
          BY <1>1, <1>5, <2>2, <3>2
        <4> QED
          BY <2>2, <4>1 DEF Contains
      <3> QED
        BY <1>1, <2>2, <3>1, <3>2
    <2> QED
      BY <2>1, <2>2 DEF Contains
  <1> QED
    BY <1>5, <1>6, <1>7 DEF t
--------------------------------------------------------------------------------
(* The inductive invariant.                                                  *)

Places == {"idle", "gone"} \cup AcceptPc \cup ClientPc
Typed == TypeOK /\ pc \in [Procs -> Places]

\* isRunning is what a stopper looks at: it is set from the creation of the pthread
\* until its action has returned.
RunningIsExact ==
  /\ thread["accept"].isRunning <=> pc["accept"] \notin {"none", "ended"}
  /\ \A c \in Conns : thread[c].isRunning <=> pc[c] \notin {"none", "free", "ended"}

\* Where a stop goes back to, and which client it has taken.
Returning ==
  /\ pc["app"] \in StopPc => after["app"] \in {"idle", "close"}
  /\ \A c \in Conns : pc[c] \in StopPc => after[c] \in {"serving", "close"}
  /\ \A p \in Stoppers : pc[p] \in {"deleteClient", "joinClient", "freeClient"} =>
       target[p] \in Conns

\* Only a listener asks to delete a server while its threads run, and then the
\* application is not in a call on it.
Requested ==
  /\ deletePending => deleter = "listener"
  /\ deleter = "listener" => pc["app"] = "idle"
  /\ \A c \in Conns : pc[c] \in {"delete"} \cup StopPc => deletePending

\* The accept thread is there until a stop has joined it, and no client is taken
\* before that.
AcceptOwned ==
  /\ acceptThread => object["accept"] = "live" /\ hasList
  /\ ~acceptThread => pc["accept"] \in {"none", "ended"}
  /\ ~thread["accept"].deletePending
  /\ \A p \in Stoppers :
       /\ pc[p] = "freeAccept" => pc["accept"] \in {"none", "ended"}
       /\ pc[p] \in {"pop", "deleteClient", "joinClient", "freeClient", "close"} => ~acceptThread

Clean(c) == ~ownerStopping[c] /\ ~thread[c].deletePending

\* The client that the accept thread makes is on the list until it cannot be started.
Accepting ==
  pc["accept"] \in {"starting", "unlisting", "discarding"} =>
    /\ target["accept"] \in Conns
    /\ pc[target["accept"]] = "none" /\ object[target["accept"]] = "live"
    /\ Clean(target["accept"])
    /\ Listed(target["accept"]) <=> pc["accept"] # "discarding"

\* Without an object there is no pthread, and no pthread without its object.
Backed ==
  \A c \in Conns :
    /\ object[c] = "none" => pc[c] = "none" /\ Clean(c)
    /\ pc[c] \notin {"none", "ended"} => object[c] = "live"
    /\ pc[c] = "free" => thread[c].deletePending

\* A client on the list is nobody's yet: it serves, or its listener stops the server.
OnList ==
  \A c \in Conns : Listed(c) =>
    /\ object[c] = "live" /\ Clean(c)
    /\ pc[c] \in {"none", "serving", "finishing"} \cup (StopPc \ {"close"})
    /\ pc[c] \in StopPc => after[c] = "serving"
    /\ pc[c] = "none" => pc["accept"] \in {"starting", "unlisting"} /\ target["accept"] = c

\* A client is on the list as long as there is an accept thread, or a stop that will
\* take it.
Attended ==
  \A c \in Conns : Listed(c) =>
    hasList /\ (acceptThread \/ \E p \in Stoppers : pc[p] \in StopPc \ {"close"})

\* A client that a stop has taken is that stop's alone, and does not delete itself.
Taken ==
  \A p \in Stoppers, c \in Conns : Deleting(p, c) =>
    /\ object[c] = "live" /\ ownerStopping[c] /\ ~thread[c].deletePending
    /\ pc[c] \notin {"none", "free"}
    /\ p = c => pc[p] = "deleteClient"
    /\ pc[p] = "freeClient" => pc[c] = "ended"
    /\ \A q \in Stoppers : Deleting(q, c) => q = p

\* Serving, or in a stop that its listener called.
InAction(c) ==
  pc[c] \in {"serving", "finishing"} \/ (pc[c] \in StopPc /\ after[c] = "serving")

\* A client in its action is on the list, or a stop has it, its own perhaps.
Accounted ==
  \A c \in Conns :
    /\ InAction(c) =>
         Listed(c) \/ (\E p \in Stoppers : Deleting(p, c)) \/ thread[c].deletePending
    /\ thread[c].deletePending => deletePending \/ pc[c] \in {"returned", "free", "ended"}

HttpInv ==
  /\ Typed /\ RunningIsExact /\ Returning /\ Requested /\ AcceptOwned /\ Accepting
  /\ Backed /\ OnList /\ Attended /\ Taken /\ Accounted

\* The application deletes the server, or the listener of its only connection does.
OneDeleter == deleter = "app" \/ ListenerConns <= 1

\* A server that its listener deletes has had one connection at most.
OneConnection ==
  deleter = "listener" =>
    /\ ListenerConns <= 1
    /\ \A c, d \in Conns : object[c] # "none" /\ object[d] # "none" => c = d

\* When the application has stopped the server no client is in its action.
Stopped ==
  deleter = "app" =>
    /\ ~hasList => \A c \in Conns : ~InAction(c)
    /\ pc["app"] = "close" => ~hasList

\* Nobody is left on a server that is gone.
Deserted ==
  ~serverAlive =>
    /\ pc["app"] \notin StopPc /\ pc["accept"] \in {"none", "returned", "ended"}
    /\ \A c \in Conns : pc[c] \notin {"serving", "finishing", "delete"} \cup StopPc

SingleInv == OneConnection /\ Stopped /\ Deserted

--------------------------------------------------------------------------------
\* The names of the two other processes are no connections.
LEMMA Names ==
  /\ "app" \notin Conns /\ "accept" \notin Conns /\ "none" \notin Conns
  /\ "app" \in Procs /\ "app" \in Stoppers /\ "app" \notin Threads
  /\ "accept" \in Procs /\ "accept" \in Threads /\ "accept" \notin Stoppers
  /\ \A c \in Conns : c \in Procs /\ c \in Stoppers /\ c \in Threads /\ c # "app" /\ c # "accept"
  /\ \A p \in Stoppers : p \in Procs /\ p # "accept" /\ (p = "app" \/ p \in Conns)
  BY HttpAssumption DEF Procs, Stoppers, Threads

\* What each section on stateMutex does to the fields that the server depends on.
LEMMA ThreadOps ==
  ASSUME NEW t \in ThreadState
  PROVE  /\ NewThread \in ThreadState
         /\ ~NewThread.isRunning /\ ~NewThread.deletePending
         /\ Started(t) \in ThreadState
         /\ Started(t).isRunning /\ ~Started(t).deletePending
         /\ StartFailed(t) \in ThreadState
         /\ ~StartFailed(t).isRunning /\ ~StartFailed(t).deletePending
         /\ StopRequested(t) \in ThreadState
         /\ StopRequested(t).isRunning = t.isRunning
         /\ StopRequested(t).deletePending = t.deletePending
         /\ SelfDeleted(t) \in ThreadState
         /\ SelfDeleted(t).isRunning = t.isRunning
         /\ SelfDeleted(t).deletePending
         /\ ActionReturned(t) \in ThreadState
         /\ ~ActionReturned(t).isRunning
         /\ ActionReturned(t).deletePending = t.deletePending
  BY DEF ThreadState, NewThread, Started, StartFailed, StopRequested, SelfDeleted, ActionReturned

\* The list stays, or it changes by one client.
LEMMA ListKept ==
  ASSUME clientThreads' = clientThreads
  PROVE  \A c : Listed(c)' <=> Listed(c)
  BY DEF Listed, Contains

LEMMA ListGrows ==
  ASSUME Typed, NEW c \in Conns, ~Listed(c), clientThreads' = Append(clientThreads, c)
  PROVE  /\ clientThreads' \in Seq(Conns) /\ IsInjective(clientThreads')
         /\ \A d : Listed(d)' <=> Listed(d) \/ d = c
  <1> DEFINE s == clientThreads
             t == Append(s, c)
  <1>1. s \in Seq(Conns) /\ IsInjective(s) /\ Len(s) \in Nat
    BY DEF Typed, TypeOK
  <1>2. /\ t \in Seq(Conns) /\ Len(t) = Len(s) + 1 /\ DOMAIN t = 1..(Len(s) + 1)
        /\ \A i \in 1..Len(s) : t[i] = s[i]
        /\ t[Len(s) + 1] = c
    BY <1>1
  <1>3. \A i \in 1..Len(s) : s[i] # c
    BY DEF Listed, Contains
  <1>4. clientThreads' = t
    OBVIOUS
  <1> HIDE DEF s, t
  <1>5. DOMAIN s = 1..Len(s)
    BY <1>1
  <1>6. IsInjective(t)
    BY <1>1, <1>2, <1>3, <1>5 DEF IsInjective
  <1>7. ASSUME NEW d  PROVE  Contains(t, d) <=> Contains(s, d) \/ d = c
    BY <1>1, <1>2 DEF Contains
  <1> QED
    BY <1>2, <1>4, <1>6, <1>7 DEF Listed, s

LEMMA ListLoses ==
  ASSUME Typed, NEW c, clientThreads' = Unlisted(c)
  PROVE  /\ clientThreads' \in Seq(Conns) /\ IsInjective(clientThreads')
         /\ \A d : Listed(d)' <=> Listed(d) /\ d # c
  <1>1. clientThreads \in Seq(Conns) /\ IsInjective(clientThreads)
    BY DEF Typed, TypeOK
  <1>2. CASE Listed(c)
    <2> DEFINE i == CHOOSE i \in DOMAIN clientThreads : clientThreads[i] = c
    <2>1. \E j \in DOMAIN clientThreads : clientThreads[j] = c
      BY <1>1, <1>2 DEF Listed, Contains
    <2>2. i \in DOMAIN clientThreads /\ clientThreads[i] = c
      BY <2>1
    <2>3. clientThreads' = RemoveAt(clientThreads, i)
      BY <1>2 DEF Unlisted
    <2> HIDE DEF i
    <2> QED
      BY <1>1, <2>2, <2>3, RemoveOne DEF Listed
  <1>3. CASE ~Listed(c)
    BY <1>1, <1>3 DEF Listed, Unlisted
  <1> QED
    BY <1>2, <1>3

LEMMA ListPops ==
  ASSUME Typed, clientThreads # <<>>, clientThreads' = Tail(clientThreads)
  PROVE  /\ clientThreads' \in Seq(Conns) /\ IsInjective(clientThreads')
         /\ Head(clientThreads) \in Conns /\ Listed(Head(clientThreads))
         /\ \A d : Listed(d)' <=> Listed(d) /\ d # Head(clientThreads)
  <1> DEFINE s == clientThreads
             t == Tail(s)
  <1>1. s \in Seq(Conns) /\ IsInjective(s) /\ Len(s) \in Nat \ {0}
    BY DEF Typed, TypeOK
  <1>2. /\ Head(s) \in Conns /\ t \in Seq(Conns) /\ Len(t) = Len(s) - 1
        /\ \A i \in 1..Len(t) : t[i] = s[i + 1]
    BY <1>1, HeadTailProperties
  <1>3. Head(s) = s[1]
    BY <1>1
  <1>4. clientThreads' = t
    OBVIOUS
  <1> HIDE DEF s, t
  <1>5. DOMAIN s = 1..Len(s) /\ DOMAIN t = 1..Len(t)
    BY <1>1, <1>2
  <1>6. IsInjective(t)
    <2>1. ASSUME NEW i \in DOMAIN t, NEW j \in DOMAIN t, t[i] = t[j]
          PROVE  i = j
      <3>1. i + 1 \in DOMAIN s /\ j + 1 \in DOMAIN s /\ s[i + 1] = s[j + 1]
        BY <1>1, <1>2, <1>5, <2>1
      <3>2. i + 1 = j + 1
        BY <1>1, <3>1 DEF IsInjective
      <3> QED
        BY <1>5, <1>2, <3>2
    <2> QED
      BY <2>1 DEF IsInjective
  <1>7. ASSUME NEW d  PROVE  Contains(t, d) <=> Contains(s, d) /\ d # s[1]
    <2>1. ASSUME NEW j \in 1..Len(t), t[j] = d
          PROVE  Contains(s, d) /\ d # s[1]
      <3>1. j + 1 \in 1..Len(s) /\ 1 \in 1..Len(s) /\ j + 1 # 1 /\ s[j + 1] = d
        BY <1>1, <1>2, <2>1
      <3> QED
        BY <1>1, <1>5, <3>1 DEF Contains, IsInjective
    <2>2. ASSUME NEW j \in 1..Len(s), s[j] = d, d # s[1]
          PROVE  Contains(t, d)
      <3>1. j - 1 \in 1..Len(t) /\ t[j - 1] = s[j]
        BY <1>1, <1>2, <2>2
      <3> QED
        BY <2>2, <3>1 DEF Contains
    <2> QED
      BY <2>1, <2>2 DEF Contains
  <1>8. Contains(s, s[1])
    BY <1>1 DEF Contains
  <1>9. /\ clientThreads' \in Seq(Conns) /\ IsInjective(clientThreads')
        /\ \A d : Listed(d)' <=> Contains(s, d) /\ d # Head(s)
    BY <1>2, <1>3, <1>4, <1>6, <1>7 DEF Listed
  <1>10. Head(s) \in Conns /\ Contains(s, Head(s))
    BY <1>2, <1>3, <1>8
  <1> QED
    BY <1>9, <1>10 DEF Listed, s

--------------------------------------------------------------------------------
(* Every step keeps the invariant: one lemma for each action, and in it a    *)
(* step for each part, or for the parts together that follow alike.          *)

\* What Typed says of each variable.
Shaped ==
  /\ pc \in [Procs -> Places] /\ thread \in [Threads -> ThreadState]
  /\ object \in [Threads -> {"none", "live", "freed"}]
  /\ ownerStopping \in [Conns -> BOOLEAN]
  /\ target \in [Procs -> Conns \cup {"none"}]
  /\ after \in [Stoppers -> {"none", "idle", "serving", "close", "deleteSelf"}]

LEMMA Shapes == HttpInv => Shaped
  BY DEF HttpInv, Typed, TypeOK, Shaped

LEMMA AcceptReturnsKeeps ==
  ASSUME HttpInv, ThreadReturns("accept")
  PROVE  HttpInv'
  <1> USE Names
  <1>1. \A d : Listed(d)' <=> Listed(d)
    BY ListKept DEF ThreadReturns, serverVars
  <1>2. Shaped
    BY Shapes
  <1>3. /\ ActionReturned(thread["accept"]) \in ThreadState
        /\ ~ActionReturned(thread["accept"]).isRunning
        /\ ~ActionReturned(thread["accept"]).deletePending
    BY <1>2, ThreadOps DEF Shaped, HttpInv, AcceptOwned
  <1>4. Typed'
    BY <1>1, <1>2, <1>3
       DEF HttpInv, Shaped, Typed, TypeOK, Returning, Places, AcceptPc, ClientPc, StopPc,
           AcceptOwned, serverVars, threadVars, Goto, ThreadReturns, WrapperFrees
  <1>5. (RunningIsExact /\ Returning /\ Requested /\ AcceptOwned)'
    BY <1>1, <1>2, <1>3
       DEF HttpInv, Shaped, RunningIsExact, AcceptOwned, Returning, StopPc, Requested,
           serverVars, threadVars, Goto, ThreadReturns, WrapperFrees
  <1>6. (Accepting /\ Backed /\ OnList /\ Attended)'
    BY <1>1, <1>2, <1>3
       DEF HttpInv, Shaped, Accepting, Clean, Backed, OnList, StopPc, Attended, serverVars,
           threadVars, Goto, ThreadReturns, WrapperFrees
  <1>7. (Taken /\ Accounted)'
    BY <1>1, <1>2, <1>3
       DEF HttpInv, Shaped, Taken, Deleting, Accounted, InAction, StopPc, serverVars,
           threadVars, Goto, ThreadReturns, WrapperFrees
  <1> QED
    BY <1>4, <1>5, <1>6, <1>7 DEF HttpInv

LEMMA ClientReturnsKeeps ==
  ASSUME HttpInv, NEW c \in Conns, ThreadReturns(c)
  PROVE  HttpInv'
  <1> USE Names
  <1>1. \A d : Listed(d)' <=> Listed(d)
    BY ListKept DEF ThreadReturns, serverVars
  <1>2. Shaped
    BY Shapes
  <1>3. /\ ActionReturned(thread[c]) \in ThreadState
        /\ ~ActionReturned(thread[c]).isRunning
        /\ ActionReturned(thread[c]).deletePending = thread[c].deletePending
    BY <1>2, ThreadOps DEF Shaped
  <1>4. Typed'
    BY <1>1, <1>2, <1>3
       DEF HttpInv, Shaped, Typed, TypeOK, Returning, Places, AcceptPc, ClientPc, StopPc,
           serverVars, threadVars, Goto, ThreadReturns, WrapperFrees
  <1>5. (RunningIsExact /\ Returning /\ Requested /\ AcceptOwned)'
    BY <1>1, <1>2, <1>3
       DEF HttpInv, Shaped, RunningIsExact, Returning, StopPc, Requested, AcceptOwned,
           serverVars, threadVars, Goto, ThreadReturns, WrapperFrees
  <1>6. (Accepting /\ Backed /\ OnList /\ Attended)'
    BY <1>1, <1>2, <1>3
       DEF HttpInv, Shaped, Accepting, Clean, Backed, OnList, StopPc, Attended, serverVars,
           threadVars, Goto, ThreadReturns, WrapperFrees
  <1>7. (Taken /\ Accounted)'
    BY <1>1, <1>2, <1>3
       DEF HttpInv, Shaped, Taken, Deleting, WrapperFrees, Accounted, InAction, StopPc,
           serverVars, threadVars, Goto, ThreadReturns
  <1> QED
    BY <1>4, <1>5, <1>6, <1>7 DEF HttpInv

LEMMA WrapperFreeKeeps ==
  ASSUME HttpInv, NEW c \in Conns, WrapperFree(c)
  PROVE  HttpInv'
  <1> USE Names
  <1>1. \A d : Listed(d)' <=> Listed(d)
    BY ListKept DEF WrapperFree, serverVars
  <1>2. Shaped
    BY Shapes
  <1>3. Typed'
    BY <1>1, <1>2
       DEF HttpInv, Shaped, Typed, TypeOK, Returning, Places, AcceptPc, ClientPc, StopPc,
           serverVars, threadVars, Goto, WrapperFree
  <1>4. (RunningIsExact /\ Returning /\ Requested /\ AcceptOwned)'
    BY <1>1, <1>2
       DEF HttpInv, Shaped, RunningIsExact, Returning, StopPc, Requested, AcceptOwned,
           serverVars, threadVars, Goto, WrapperFree
  <1>5. (Accepting /\ Backed /\ OnList /\ Attended)'
    BY <1>1, <1>2
       DEF HttpInv, Shaped, Accepting, Clean, OnList, Backed, StopPc, Attended, serverVars,
           threadVars, Goto, WrapperFree
  <1>6. (Taken /\ Accounted)'
    BY <1>1, <1>2
       DEF HttpInv, Shaped, Taken, Deleting, Backed, Accounted, InAction, StopPc,
           serverVars, threadVars, Goto, WrapperFree
  <1> QED
    BY <1>3, <1>4, <1>5, <1>6 DEF HttpInv

LEMMA ServerStartKeeps ==
  ASSUME HttpInv, ServerStart
  PROVE  HttpInv'
  <1> USE Names
  <1>1. /\ clientThreads' \in Seq(Conns) /\ IsInjective(clientThreads')
        /\ \A d : ~Listed(d)'
    BY DEF ServerStart, Listed, Contains, IsInjective
  <1>2. Shaped
    BY Shapes
  <1>3. /\ Started(NewThread) \in ThreadState /\ Started(NewThread).isRunning
        /\ ~Started(NewThread).deletePending
    BY <1>2, ThreadOps DEF Shaped
  <1>4. \A p \in Stoppers : pc[p] \notin StopPc
    BY DEF HttpInv, Requested, ServerStart, StopPc
  <1>5. starts' \in 0..MaxStarts
    BY HttpAssumption DEF HttpInv, Typed, TypeOK, ServerStart
  <1>6. Typed'
    <2>1. /\ pc' \in [Procs -> Places] /\ pc'["accept"] \in AcceptPc
          /\ pc'["app"] \in {"idle", "gone"} \cup StopPc /\ \A d \in Conns : pc'[d] \in ClientPc
      BY <1>1, <1>2, <1>3, <1>4, <1>5
         DEF HttpInv, Shaped, Typed, TypeOK, Places, AcceptPc, ClientPc, StopPc, Goto,
             ServerStart
    <2> QED
      BY <2>1, <1>1, <1>2, <1>3, <1>4, <1>5
         DEF HttpInv, Shaped, Typed, TypeOK, serverVars, threadVars, ServerStart
  <1>7. (RunningIsExact /\ Returning /\ Requested /\ AcceptOwned)'
    BY <1>1, <1>2, <1>3, <1>4, <1>5
       DEF HttpInv, Shaped, RunningIsExact, Returning, StopPc, Requested, AcceptOwned,
           serverVars, threadVars, Goto, ServerStart
  <1>8. (Accepting /\ Backed /\ OnList /\ Attended)'
    BY <1>1, <1>2, <1>3, <1>4, <1>5
       DEF HttpInv, Shaped, Accepting, Clean, Backed, OnList, StopPc, Attended, serverVars,
           threadVars, Goto, ServerStart
  <1>9. (Taken /\ Accounted)'
    BY <1>1, <1>2, <1>3, <1>4, <1>5
       DEF HttpInv, Shaped, Taken, Deleting, Accounted, InAction, StopPc, Attended,
           serverVars, threadVars, Goto, ServerStart
  <1> QED
    BY <1>6, <1>7, <1>8, <1>9 DEF HttpInv

LEMMA AcceptChecksKeeps ==
  ASSUME HttpInv, AcceptChecks
  PROVE  HttpInv'
  <1> USE Names
  <1>1. \A d : Listed(d)' <=> Listed(d)
    BY ListKept DEF AcceptChecks, serverVars
  <1>2. Shaped
    BY Shapes
  <1>3. Typed'
    BY <1>1, <1>2
       DEF HttpInv, Shaped, Typed, TypeOK, Returning, Places, AcceptPc, ClientPc, StopPc,
           serverVars, threadVars, Goto, AcceptChecks
  <1>4. (RunningIsExact /\ Returning /\ Requested /\ AcceptOwned)'
    BY <1>1, <1>2
       DEF HttpInv, Shaped, RunningIsExact, Returning, StopPc, Requested, AcceptOwned,
           serverVars, threadVars, Goto, AcceptChecks
  <1>5. (Accepting /\ Backed /\ OnList /\ Attended)'
    BY <1>1, <1>2
       DEF HttpInv, Shaped, Accepting, Clean, Backed, OnList, StopPc, Attended, serverVars,
           threadVars, Goto, AcceptChecks
  <1>6. (Taken /\ Accounted)'
    BY <1>1, <1>2
       DEF HttpInv, Shaped, Taken, Deleting, Accounted, InAction, StopPc, serverVars,
           threadVars, Goto, AcceptChecks
  <1> QED
    BY <1>3, <1>4, <1>5, <1>6 DEF HttpInv

LEMMA AcceptsKeeps ==
  ASSUME HttpInv, NEW c \in Conns, Accepts(c)
  PROVE  HttpInv'
  <1> USE Names
  <1>1. /\ clientThreads' \in Seq(Conns) /\ IsInjective(clientThreads')
        /\ \A d : Listed(d)' <=> Listed(d) \/ d = c
    BY ListGrows DEF HttpInv, OnList, Accepts
  <1>2. Shaped
    BY Shapes
  <1>3. Typed'
    BY <1>1, <1>2
       DEF HttpInv, Shaped, Typed, TypeOK, Returning, Places, AcceptPc, ClientPc, StopPc,
           serverVars, threadVars, Goto, Accepts
  <1>4. (RunningIsExact /\ Returning /\ Requested /\ AcceptOwned)'
    BY <1>1, <1>2
       DEF HttpInv, Shaped, RunningIsExact, Returning, StopPc, Requested, AcceptOwned,
           serverVars, threadVars, Goto, Accepts
  <1>5. (Accepting /\ Backed /\ OnList /\ Attended)'
    BY <1>1, <1>2
       DEF HttpInv, Shaped, Accepting, Clean, Backed, OnList, StopPc, Attended, AcceptOwned,
           serverVars, threadVars, Goto, Accepts
  <1>6. (Taken /\ Accounted)'
    BY <1>1, <1>2
       DEF HttpInv, Shaped, Taken, Deleting, Backed, Accounted, InAction, StopPc,
           serverVars, threadVars, Goto, Accepts
  <1> QED
    BY <1>3, <1>4, <1>5, <1>6 DEF HttpInv

LEMMA AcceptDropsKeeps ==
  ASSUME HttpInv, AcceptDrops
  PROVE  HttpInv'
  <1> USE Names
  <1>1. \A d : Listed(d)' <=> Listed(d)
    BY ListKept DEF AcceptDrops, serverVars
  <1>2. Shaped
    BY Shapes
  <1>3. Typed'
    BY <1>1, <1>2
       DEF HttpInv, Shaped, Typed, TypeOK, Returning, Places, AcceptPc, ClientPc, StopPc,
           serverVars, threadVars, Goto, AcceptDrops
  <1>4. (RunningIsExact /\ Returning /\ Requested /\ AcceptOwned)'
    BY <1>1, <1>2
       DEF HttpInv, Shaped, RunningIsExact, Returning, StopPc, Requested, AcceptOwned,
           serverVars, threadVars, Goto, AcceptDrops
  <1>5. (Accepting /\ Backed /\ OnList /\ Attended)'
    BY <1>1, <1>2
       DEF HttpInv, Shaped, Accepting, Clean, Backed, OnList, StopPc, Attended, serverVars,
           threadVars, Goto, AcceptDrops
  <1>6. (Taken /\ Accounted)'
    BY <1>1, <1>2
       DEF HttpInv, Shaped, Taken, Deleting, Accounted, InAction, StopPc, serverVars,
           threadVars, Goto, AcceptDrops
  <1> QED
    BY <1>3, <1>4, <1>5, <1>6 DEF HttpInv

LEMMA AcceptFailsKeeps ==
  ASSUME HttpInv, AcceptFails
  PROVE  HttpInv'
  <1> USE Names
  <1>1. \A d : Listed(d)' <=> Listed(d)
    BY ListKept DEF AcceptFails, serverVars
  <1>2. Shaped
    BY Shapes
  <1>3. Typed'
    BY <1>1, <1>2
       DEF HttpInv, Shaped, Typed, TypeOK, Returning, Places, AcceptPc, ClientPc, StopPc,
           serverVars, threadVars, Goto, AcceptFails
  <1>4. (RunningIsExact /\ Returning /\ Requested /\ AcceptOwned)'
    BY <1>1, <1>2
       DEF HttpInv, Shaped, RunningIsExact, Returning, StopPc, Requested, AcceptOwned,
           serverVars, threadVars, Goto, AcceptFails
  <1>5. (Accepting /\ Backed /\ OnList /\ Attended)'
    BY <1>1, <1>2
       DEF HttpInv, Shaped, Accepting, Clean, Backed, OnList, StopPc, Attended, serverVars,
           threadVars, Goto, AcceptFails
  <1>6. (Taken /\ Accounted)'
    BY <1>1, <1>2
       DEF HttpInv, Shaped, Taken, Deleting, Accounted, InAction, StopPc, serverVars,
           threadVars, Goto, AcceptFails
  <1> QED
    BY <1>3, <1>4, <1>5, <1>6 DEF HttpInv

LEMMA StartsClientKeeps ==
  ASSUME HttpInv, StartsClient
  PROVE  HttpInv'
  <1> USE Names
  <1>1. \A d : Listed(d)' <=> Listed(d)
    BY ListKept DEF StartsClient, serverVars
  <1>2. Shaped
    BY Shapes
  <1>3. /\ target["accept"] \in Conns /\ target["accept"] \in Threads
        /\ LET t == thread[target["accept"]] IN
             /\ Started(t) \in ThreadState /\ Started(t).isRunning /\ ~Started(t).deletePending
             /\ StartFailed(t) \in ThreadState
             /\ ~StartFailed(t).isRunning /\ ~StartFailed(t).deletePending
    BY <1>2, ThreadOps DEF Shaped, HttpInv, Accepting, StartsClient
  <1>4. Typed'
    <2> DEFINE c == target["accept"]
    <2>1. pc' \in [Procs -> Places] /\ pc'["app"] = pc["app"] /\ pc'["accept"] \in AcceptPc
          /\ \A d \in Conns : pc'[d] = pc[d] \/ pc'[d] = "serving"
      BY <1>2, <1>3 DEF Shaped, StartsClient, Places, AcceptPc, ClientPc
    <2>2. thread' \in [Threads -> ThreadState]
      BY <1>2, <1>3 DEF Shaped, StartsClient
    <2>3. /\ UNCHANGED <<deleter, serverAlive, acceptThread, hasList, clientThreads, deletePending,
                        object, ownerStopping, target, after, starts>>
      BY DEF StartsClient, serverVars
    <2> QED
      BY <2>1, <2>2, <2>3 DEF HttpInv, Typed, TypeOK, ClientPc
  <1>5. (RunningIsExact /\ Returning /\ Requested /\ AcceptOwned)'
    BY <1>1, <1>2, <1>3
       DEF HttpInv, Shaped, RunningIsExact, Accepting, Returning, StopPc, Requested,
           AcceptOwned, serverVars, threadVars, Goto, StartsClient
  <1>6. (Accepting /\ Backed /\ OnList /\ Attended)'
    BY <1>1, <1>2, <1>3
       DEF HttpInv, Shaped, Accepting, Clean, Backed, OnList, StopPc, Attended, serverVars,
           threadVars, Goto, StartsClient
  <1>7. (Taken /\ Accounted)'
    BY <1>1, <1>2, <1>3
       DEF HttpInv, Shaped, Taken, Deleting, Accepting, Accounted, InAction, StopPc,
           serverVars, threadVars, Goto, StartsClient
  <1> QED
    BY <1>4, <1>5, <1>6, <1>7 DEF HttpInv

LEMMA UnlistsClientKeeps ==
  ASSUME HttpInv, UnlistsClient
  PROVE  HttpInv'
  <1> USE Names
  <1>1. /\ clientThreads' \in Seq(Conns) /\ IsInjective(clientThreads')
        /\ \A d : Listed(d)' <=> Listed(d) /\ d # target["accept"]
    BY ListLoses DEF HttpInv, UnlistsClient
  <1>2. Shaped
    BY Shapes
  <1>3. Typed'
    BY <1>1, <1>2
       DEF HttpInv, Shaped, Typed, TypeOK, Returning, Places, AcceptPc, ClientPc, StopPc,
           serverVars, threadVars, Goto, UnlistsClient
  <1>4. (RunningIsExact /\ Returning /\ Requested /\ AcceptOwned)'
    BY <1>1, <1>2
       DEF HttpInv, Shaped, RunningIsExact, Returning, StopPc, Requested, AcceptOwned,
           serverVars, threadVars, Goto, UnlistsClient
  <1>5. (Accepting /\ Backed /\ OnList /\ Attended)'
    BY <1>1, <1>2
       DEF HttpInv, Shaped, Accepting, Clean, Backed, OnList, StopPc, Attended, serverVars,
           threadVars, Goto, UnlistsClient
  <1>6. (Taken /\ Accounted)'
    BY <1>1, <1>2
       DEF HttpInv, Shaped, Taken, Deleting, Accounted, InAction, StopPc, Accepting, Backed,
           serverVars, threadVars, Goto, UnlistsClient
  <1> QED
    BY <1>3, <1>4, <1>5, <1>6 DEF HttpInv

LEMMA DiscardsClientKeeps ==
  ASSUME HttpInv, DiscardsClient
  PROVE  HttpInv'
  <1> USE Names
  <1>1. \A d : Listed(d)' <=> Listed(d)
    BY ListKept DEF DiscardsClient, serverVars
  <1>2. Shaped
    BY Shapes
  <1>3. Typed'
    BY <1>1, <1>2
       DEF HttpInv, Shaped, Typed, TypeOK, Returning, Places, AcceptPc, ClientPc, StopPc,
           Accepting, serverVars, threadVars, Goto, DiscardsClient
  <1>4. (RunningIsExact /\ Returning /\ Requested /\ AcceptOwned)'
    BY <1>1, <1>2
       DEF HttpInv, Shaped, RunningIsExact, Returning, StopPc, Requested, AcceptOwned,
           Accepting, serverVars, threadVars, Goto, DiscardsClient
  <1>5. (Accepting /\ Backed /\ OnList /\ Attended)'
    BY <1>1, <1>2
       DEF HttpInv, Shaped, Accepting, Clean, Backed, OnList, StopPc, Attended, serverVars,
           threadVars, Goto, DiscardsClient
  <1>6. (Taken /\ Accounted)'
    BY <1>1, <1>2
       DEF HttpInv, Shaped, Taken, Deleting, Accepting, Accounted, InAction, StopPc,
           serverVars, threadVars, Goto, DiscardsClient
  <1> QED
    BY <1>3, <1>4, <1>5, <1>6 DEF HttpInv

LEMMA StopsServingKeeps ==
  ASSUME HttpInv, NEW c \in Conns, StopsServing(c)
  PROVE  HttpInv'
  <1> USE Names
  <1>1. \A d : Listed(d)' <=> Listed(d)
    BY ListKept DEF StopsServing, serverVars
  <1>2. Shaped
    BY Shapes
  <1>3. Typed'
    BY <1>1, <1>2
       DEF HttpInv, Shaped, Typed, TypeOK, Returning, Places, AcceptPc, ClientPc, StopPc,
           serverVars, threadVars, Goto, StopsServing
  <1>4. (RunningIsExact /\ Returning /\ Requested /\ AcceptOwned)'
    BY <1>1, <1>2
       DEF HttpInv, Shaped, RunningIsExact, Returning, StopPc, Requested, AcceptOwned,
           serverVars, threadVars, Goto, StopsServing
  <1>5. (Accepting /\ Backed /\ OnList /\ Attended)'
    BY <1>1, <1>2
       DEF HttpInv, Shaped, Accepting, Clean, Backed, OnList, StopPc, Attended, serverVars,
           threadVars, Goto, StopsServing
  <1>6. (Taken /\ Accounted)'
    BY <1>1, <1>2
       DEF HttpInv, Shaped, Taken, Deleting, Accounted, InAction, StopPc, serverVars,
           threadVars, Goto, StopsServing
  <1> QED
    BY <1>3, <1>4, <1>5, <1>6 DEF HttpInv

LEMMA FinishesKeeps ==
  ASSUME HttpInv, NEW c \in Conns, Finishes(c)
  PROVE  HttpInv'
  <1> USE Names
  <1>1. /\ clientThreads' \in Seq(Conns) /\ IsInjective(clientThreads')
        /\ \A d : Listed(d)' <=> Listed(d) /\ d # c
    BY ListKept, ListLoses DEF HttpInv, Typed, TypeOK, OnList, Clean, Finishes
  <1>2. Shaped
    BY Shapes
  <1>3. Typed'
    BY <1>1, <1>2
       DEF HttpInv, Shaped, Typed, TypeOK, Returning, Places, AcceptPc, ClientPc, StopPc,
           serverVars, threadVars, Goto, Finishes
  <1>4. (RunningIsExact /\ Returning /\ Requested /\ AcceptOwned)'
    BY <1>1, <1>2
       DEF HttpInv, Shaped, RunningIsExact, Returning, StopPc, Requested, AcceptOwned,
           serverVars, threadVars, Goto, Finishes
  <1>5. (Accepting /\ Backed /\ OnList /\ Attended)'
    BY <1>1, <1>2
       DEF HttpInv, Shaped, Accepting, Clean, OnList, Backed, StopPc, Attended, serverVars,
           threadVars, Goto, Finishes
  <1>6. (Taken /\ Accounted)'
    BY <1>1, <1>2
       DEF HttpInv, Shaped, Taken, Deleting, Accounted, InAction, StopPc, serverVars,
           threadVars, Goto, Finishes
  <1> QED
    BY <1>3, <1>4, <1>5, <1>6 DEF HttpInv

LEMMA DeletesSelfKeeps ==
  ASSUME HttpInv, NEW c \in Conns, DeletesSelf(c)
  PROVE  HttpInv'
  <1> USE Names
  <1>1. \A d : Listed(d)' <=> Listed(d)
    BY ListKept DEF DeletesSelf, serverVars
  <1>2. Shaped
    BY Shapes
  <1>3. /\ SelfDeleted(thread[c]) \in ThreadState /\ SelfDeleted(thread[c]).deletePending
        /\ SelfDeleted(thread[c]).isRunning = thread[c].isRunning
    BY <1>2, ThreadOps DEF Shaped
  <1>4. Typed'
    BY <1>1, <1>2, <1>3
       DEF HttpInv, Shaped, Typed, TypeOK, Returning, Places, AcceptPc, ClientPc, StopPc,
           serverVars, threadVars, Goto, DeletesSelf
  <1>5. (RunningIsExact /\ Returning /\ Requested /\ AcceptOwned)'
    BY <1>1, <1>2, <1>3
       DEF HttpInv, Shaped, RunningIsExact, Returning, StopPc, Requested, AcceptOwned,
           serverVars, threadVars, Goto, DeletesSelf
  <1>6. (Accepting /\ Backed /\ OnList /\ Attended)'
    BY <1>1, <1>2, <1>3
       DEF HttpInv, Shaped, Accepting, Clean, Backed, OnList, StopPc, Attended, serverVars,
           threadVars, Goto, DeletesSelf
  <1>7. (Taken /\ Accounted)'
    BY <1>1, <1>2, <1>3
       DEF HttpInv, Shaped, Taken, Deleting, Accounted, InAction, StopPc, serverVars,
           threadVars, Goto, DeletesSelf
  <1> QED
    BY <1>4, <1>5, <1>6, <1>7 DEF HttpInv

LEMMA AppStopsKeeps ==
  ASSUME HttpInv, AppStops
  PROVE  HttpInv'
  <1> USE Names
  <1>1. \A d : Listed(d)' <=> Listed(d)
    BY ListKept DEF AppStops, serverVars
  <1>2. Shaped
    BY Shapes
  <1>3. Typed'
    BY <1>1, <1>2
       DEF HttpInv, Shaped, Typed, TypeOK, Returning, Places, AcceptPc, ClientPc, StopPc,
           serverVars, threadVars, Goto, AppStops, CallStop
  <1>4. (RunningIsExact /\ Returning /\ Requested /\ AcceptOwned)'
    BY <1>1, <1>2
       DEF HttpInv, Shaped, RunningIsExact, Returning, StopPc, Requested, AcceptOwned,
           serverVars, threadVars, Goto, AppStops, CallStop
  <1>5. (Accepting /\ Backed /\ OnList /\ Attended)'
    BY <1>1, <1>2
       DEF HttpInv, Shaped, Accepting, Clean, Backed, OnList, StopPc, Attended, serverVars,
           threadVars, Goto, AppStops, CallStop
  <1>6. (Taken /\ Accounted)'
    BY <1>1, <1>2
       DEF HttpInv, Shaped, Taken, Deleting, Accounted, InAction, StopPc, serverVars,
           threadVars, Goto, AppStops, CallStop
  <1> QED
    BY <1>3, <1>4, <1>5, <1>6 DEF HttpInv

LEMMA StopsAcceptKeeps ==
  ASSUME HttpInv, NEW p \in Stoppers, StopsAccept(p)
  PROVE  HttpInv'
  <1> USE Names
  <1>1. \A d : Listed(d)' <=> Listed(d)
    BY ListKept DEF StopsAccept, serverVars
  <1>2. Shaped
    BY Shapes
  <1>3. /\ StopRequested(thread["accept"]) \in ThreadState
        /\ StopRequested(thread["accept"]).isRunning = thread["accept"].isRunning
        /\ StopRequested(thread["accept"]).deletePending = thread["accept"].deletePending
    BY <1>2, ThreadOps DEF Shaped
  <1>4. /\ pc[p] \in StopPc /\ after[p] \in {"idle", "serving", "close"}
        /\ (p = "app" => after[p] # "serving") /\ (p \in Conns => after[p] # "idle")
    BY DEF HttpInv, Returning, StopPc, StopsAccept, Goto
  <1>5. Typed'
    BY <1>1, <1>2, <1>3, <1>4
       DEF HttpInv, Shaped, Typed, TypeOK, Returning, Places, AcceptPc, ClientPc, StopPc,
           serverVars, threadVars, Goto, StopsAccept
  <1>6. (RunningIsExact /\ Returning /\ Requested /\ AcceptOwned)'
    BY <1>1, <1>2, <1>3, <1>4
       DEF HttpInv, Shaped, RunningIsExact, Returning, StopPc, Requested, AcceptOwned,
           serverVars, threadVars, Goto, StopsAccept
  <1>7. (Accepting /\ Backed /\ OnList /\ Attended)'
    BY <1>1, <1>2, <1>3, <1>4
       DEF HttpInv, Shaped, Accepting, Clean, Backed, OnList, StopPc, Returning, Attended,
           serverVars, threadVars, Goto, StopsAccept
  <1>8. (Taken /\ Accounted)'
    BY <1>1, <1>2, <1>3, <1>4
       DEF HttpInv, Shaped, Taken, Deleting, Accounted, InAction, StopPc, Returning,
           serverVars, threadVars, Goto, StopsAccept
  <1> QED
    BY <1>5, <1>6, <1>7, <1>8 DEF HttpInv

LEMMA JoinsAcceptKeeps ==
  ASSUME HttpInv, NEW p \in Stoppers, JoinsAccept(p)
  PROVE  HttpInv'
  <1> USE Names
  <1>1. \A d : Listed(d)' <=> Listed(d)
    BY ListKept DEF JoinsAccept, serverVars
  <1>2. Shaped
    BY Shapes
  <1>3. Typed'
    BY <1>1, <1>2
       DEF HttpInv, Shaped, Typed, TypeOK, Returning, Places, AcceptPc, ClientPc, StopPc,
           serverVars, threadVars, Goto, JoinsAccept
  <1>4. (RunningIsExact /\ Returning /\ Requested /\ AcceptOwned)'
    BY <1>1, <1>2
       DEF HttpInv, Shaped, RunningIsExact, Returning, StopPc, Requested, AcceptOwned,
           serverVars, threadVars, Goto, JoinsAccept
  <1>5. (Accepting /\ Backed /\ OnList /\ Attended)'
    BY <1>1, <1>2
       DEF HttpInv, Shaped, Accepting, Clean, Backed, OnList, StopPc, Attended, serverVars,
           threadVars, Goto, JoinsAccept
  <1>6. (Taken /\ Accounted)'
    BY <1>1, <1>2
       DEF HttpInv, Shaped, Taken, Deleting, Accounted, InAction, StopPc, serverVars,
           threadVars, Goto, JoinsAccept
  <1> QED
    BY <1>3, <1>4, <1>5, <1>6 DEF HttpInv

LEMMA FreesAcceptKeeps ==
  ASSUME HttpInv, NEW p \in Stoppers, FreesAccept(p)
  PROVE  HttpInv'
  <1> USE Names
  <1>1. \A d : Listed(d)' <=> Listed(d)
    BY ListKept DEF FreesAccept, serverVars
  <1>2. Shaped
    BY Shapes
  <1>3. /\ pc[p] \in StopPc /\ after[p] \in {"idle", "serving", "close"}
        /\ (p = "app" => after[p] # "serving") /\ (p \in Conns => after[p] # "idle")
    BY DEF HttpInv, Returning, StopPc, FreesAccept, Goto
  <1>4. Typed'
    <2>1. /\ pc' \in [Procs -> Places] /\ pc'["accept"] \in AcceptPc
          /\ pc'["app"] \in {"idle", "gone"} \cup StopPc /\ \A d \in Conns : pc'[d] \in ClientPc
      BY <1>1, <1>2, <1>3
         DEF HttpInv, Shaped, Typed, TypeOK, Returning, Places, AcceptPc, ClientPc, StopPc,
             Goto, FreesAccept
    <2> QED
      BY <2>1, <1>1, <1>2, <1>3
         DEF HttpInv, Shaped, Typed, TypeOK, serverVars, threadVars, FreesAccept
  <1>5. (RunningIsExact /\ Returning /\ Requested /\ AcceptOwned)'
    BY <1>1, <1>2, <1>3
       DEF HttpInv, Shaped, RunningIsExact, Returning, StopPc, Requested, AcceptOwned,
           serverVars, threadVars, Goto, FreesAccept
  <1>6. (Accepting /\ Backed /\ OnList /\ Attended)'
    BY <1>1, <1>2, <1>3
       DEF HttpInv, Shaped, Accepting, Clean, Backed, OnList, StopPc, Returning, Attended,
           serverVars, threadVars, Goto, FreesAccept
  <1>7. (Taken /\ Accounted)'
    BY <1>1, <1>2, <1>3
       DEF HttpInv, Shaped, Taken, Deleting, Accounted, InAction, StopPc, Returning,
           serverVars, threadVars, Goto, FreesAccept
  <1> QED
    BY <1>4, <1>5, <1>6, <1>7 DEF HttpInv

LEMMA PopsKeeps ==
  ASSUME HttpInv, NEW p \in Stoppers, Pops(p)
  PROVE  HttpInv'
  <1> USE Names
  <1>1. /\ clientThreads' \in Seq(Conns) /\ IsInjective(clientThreads')
        /\ Head(clientThreads) \in Conns /\ Listed(Head(clientThreads))
        /\ \A d : Listed(d)' <=> Listed(d) /\ d # Head(clientThreads)
    BY ListPops DEF HttpInv, Pops
  <1>2. Shaped
    BY Shapes
  <1>3. Typed'
    BY <1>1, <1>2
       DEF HttpInv, Shaped, Typed, TypeOK, Returning, Places, AcceptPc, ClientPc, StopPc,
           serverVars, threadVars, Goto, Pops
  <1>4. (RunningIsExact /\ Returning /\ Requested /\ AcceptOwned)'
    BY <1>1, <1>2
       DEF HttpInv, Shaped, RunningIsExact, Returning, StopPc, Requested, AcceptOwned,
           serverVars, threadVars, Goto, Pops
  <1>5. (Accepting /\ Backed /\ OnList /\ Attended)'
    BY <1>1, <1>2
       DEF HttpInv, Shaped, Accepting, Clean, AcceptOwned, Backed, OnList, StopPc, Attended,
           serverVars, threadVars, Goto, Pops
  <1>6. Taken'
    BY <1>1, <1>2
       DEF HttpInv, Shaped, Taken, Deleting, OnList, Clean, AcceptOwned, StopPc, serverVars,
           threadVars, Goto, Pops
  <1>7. Accounted'
    BY <1>1, <1>2
       DEF HttpInv, Shaped, Accounted, InAction, StopPc, Deleting, OnList, serverVars,
           threadVars, Goto, Pops
  <1> QED
    BY <1>3, <1>4, <1>5, <1>6, <1>7 DEF HttpInv

LEMMA StopsClientKeeps ==
  ASSUME HttpInv, NEW p \in Stoppers, StopsClient(p)
  PROVE  HttpInv'
  <1> USE Names
  <1>1. \A d : Listed(d)' <=> Listed(d)
    BY ListKept DEF StopsClient, serverVars
  <1>2. Shaped
    BY Shapes
  <1>3. /\ target[p] \in Conns /\ Deleting(p, target[p])
        /\ LET t == thread[target[p]] IN
             /\ SelfDeleted(t) \in ThreadState /\ SelfDeleted(t).deletePending
             /\ SelfDeleted(t).isRunning = t.isRunning
             /\ StopRequested(t) \in ThreadState
             /\ StopRequested(t).isRunning = t.isRunning
             /\ StopRequested(t).deletePending = t.deletePending
    BY <1>2, ThreadOps DEF Shaped, HttpInv, Returning, StopsClient, Deleting
  <1>4. Typed'
    BY <1>1, <1>2, <1>3
       DEF HttpInv, Shaped, Typed, TypeOK, Returning, Places, AcceptPc, ClientPc, StopPc,
           serverVars, threadVars, Goto, StopsClient
  <1>5. (RunningIsExact /\ Returning /\ Requested /\ AcceptOwned)'
    BY <1>1, <1>2, <1>3
       DEF HttpInv, Shaped, RunningIsExact, Returning, StopPc, Requested, AcceptOwned,
           serverVars, threadVars, Goto, StopsClient
  <1>6. (Accepting /\ Backed /\ OnList /\ Attended)'
    BY <1>1, <1>2, <1>3
       DEF HttpInv, Shaped, Accepting, Clean, Taken, Deleting, Backed, OnList, StopPc,
           Attended, serverVars, threadVars, Goto, StopsClient
  <1>7. (Taken /\ Accounted)'
    BY <1>1, <1>2, <1>3
       DEF HttpInv, Shaped, Taken, Deleting, RunningIsExact, Accounted, InAction, StopPc,
           Requested, serverVars, threadVars, Goto, StopsClient
  <1> QED
    BY <1>4, <1>5, <1>6, <1>7 DEF HttpInv

LEMMA JoinsClientKeeps ==
  ASSUME HttpInv, NEW p \in Stoppers, JoinsClient(p)
  PROVE  HttpInv'
  <1> USE Names
  <1>1. \A d : Listed(d)' <=> Listed(d)
    BY ListKept DEF JoinsClient, serverVars
  <1>2. Shaped
    BY Shapes
  <1>3. Typed'
    BY <1>1, <1>2
       DEF HttpInv, Shaped, Typed, TypeOK, Returning, Places, AcceptPc, ClientPc, StopPc,
           serverVars, threadVars, Goto, JoinsClient
  <1>4. (RunningIsExact /\ Returning /\ Requested /\ AcceptOwned)'
    BY <1>1, <1>2
       DEF HttpInv, Shaped, RunningIsExact, Returning, StopPc, Requested, AcceptOwned,
           serverVars, threadVars, Goto, JoinsClient
  <1>5. (Accepting /\ Backed /\ OnList /\ Attended)'
    BY <1>1, <1>2
       DEF HttpInv, Shaped, Accepting, Clean, Backed, OnList, StopPc, Attended, serverVars,
           threadVars, Goto, JoinsClient
  <1>6. (Taken /\ Accounted)'
    BY <1>1, <1>2
       DEF HttpInv, Shaped, Taken, Deleting, RunningIsExact, Accounted, InAction, StopPc,
           serverVars, threadVars, Goto, JoinsClient
  <1> QED
    BY <1>3, <1>4, <1>5, <1>6 DEF HttpInv

LEMMA FreesClientKeeps ==
  ASSUME HttpInv, NEW p \in Stoppers, FreesClient(p)
  PROVE  HttpInv'
  <1> USE Names
  <1>1. \A d : Listed(d)' <=> Listed(d)
    BY ListKept DEF FreesClient, serverVars
  <1>2. Shaped
    BY Shapes
  <1>3. target[p] \in Conns /\ Deleting(p, target[p])
    BY DEF HttpInv, Returning, FreesClient, Deleting, Goto
  <1>4. Typed'
    BY <1>1, <1>2, <1>3
       DEF HttpInv, Shaped, Typed, TypeOK, Returning, Places, AcceptPc, ClientPc, StopPc,
           serverVars, threadVars, Goto, FreesClient
  <1>5. (RunningIsExact /\ Returning /\ Requested /\ AcceptOwned)'
    BY <1>1, <1>2, <1>3
       DEF HttpInv, Shaped, RunningIsExact, Returning, StopPc, Requested, AcceptOwned,
           serverVars, threadVars, Goto, FreesClient
  <1>6. (Accepting /\ Backed /\ OnList /\ Attended)'
    BY <1>1, <1>2, <1>3
       DEF HttpInv, Shaped, Accepting, Clean, Taken, Backed, OnList, StopPc, Attended,
           serverVars, threadVars, Goto, FreesClient
  <1>7. (Taken /\ Accounted)'
    BY <1>1, <1>2, <1>3
       DEF HttpInv, Shaped, Taken, Deleting, Accounted, InAction, StopPc, serverVars,
           threadVars, Goto, FreesClient
  <1> QED
    BY <1>4, <1>5, <1>6, <1>7 DEF HttpInv

LEMMA DropsListKeeps ==
  ASSUME HttpInv, NEW p \in Stoppers, DropsList(p)
  PROVE  HttpInv'
  <1> USE Names
  <1>1. \A d : Listed(d)' <=> Listed(d)
    BY ListKept DEF DropsList, serverVars
  <1>2. Shaped
    BY Shapes
  <1>3. \A c : ~Listed(c)
    BY DEF DropsList, Listed, Contains
  <1>4. /\ pc[p] \in StopPc /\ after[p] \in {"idle", "serving", "close"}
        /\ (p = "app" => after[p] # "serving") /\ (p \in Conns => after[p] # "idle")
    BY DEF HttpInv, Returning, StopPc, DropsList, Goto
  <1>5. Typed'
    <2>1. /\ pc' \in [Procs -> Places] /\ pc'["accept"] \in AcceptPc
          /\ pc'["app"] \in {"idle", "gone"} \cup StopPc /\ \A d \in Conns : pc'[d] \in ClientPc
      BY <1>1, <1>2, <1>3, <1>4
         DEF HttpInv, Shaped, Typed, TypeOK, Returning, Places, AcceptPc, ClientPc, StopPc,
             Goto, DropsList
    <2> QED
      BY <2>1, <1>1, <1>2, <1>3, <1>4
         DEF HttpInv, Shaped, Typed, TypeOK, serverVars, threadVars, DropsList
  <1>6. (RunningIsExact /\ Returning /\ Requested /\ AcceptOwned)'
    BY <1>1, <1>2, <1>3, <1>4
       DEF HttpInv, Shaped, RunningIsExact, Returning, StopPc, Requested, AcceptOwned,
           serverVars, threadVars, Goto, DropsList
  <1>7. (Accepting /\ Backed /\ OnList /\ Attended)'
    BY <1>1, <1>2, <1>3, <1>4
       DEF HttpInv, Shaped, Accepting, Clean, Backed, OnList, StopPc, Returning, Attended,
           serverVars, threadVars, Goto, DropsList
  <1>8. (Taken /\ Accounted)'
    BY <1>1, <1>2, <1>3, <1>4
       DEF HttpInv, Shaped, Taken, Deleting, Accounted, InAction, StopPc, Returning,
           serverVars, threadVars, Goto, DropsList
  <1> QED
    BY <1>5, <1>6, <1>7, <1>8 DEF HttpInv

LEMMA AppDeletesKeeps ==
  ASSUME HttpInv, AppDeletes
  PROVE  HttpInv'
  <1> USE Names
  <1>1. \A d : Listed(d)' <=> Listed(d)
    BY ListKept DEF AppDeletes, serverVars
  <1>2. Shaped
    BY Shapes
  <1>3. Typed'
    BY <1>1, <1>2
       DEF HttpInv, Shaped, Typed, TypeOK, Returning, Places, AcceptPc, ClientPc, StopPc,
           serverVars, threadVars, Goto, AppDeletes, CallStop
  <1>4. (RunningIsExact /\ Returning /\ Requested /\ AcceptOwned)'
    BY <1>1, <1>2
       DEF HttpInv, Shaped, RunningIsExact, Returning, StopPc, Requested, AcceptOwned,
           serverVars, threadVars, Goto, AppDeletes, CallStop
  <1>5. (Accepting /\ Backed /\ OnList /\ Attended)'
    BY <1>1, <1>2
       DEF HttpInv, Shaped, Accepting, Clean, Backed, OnList, StopPc, Attended, serverVars,
           threadVars, Goto, AppDeletes, CallStop
  <1>6. (Taken /\ Accounted)'
    BY <1>1, <1>2
       DEF HttpInv, Shaped, Taken, Deleting, Accounted, InAction, StopPc, serverVars,
           threadVars, Goto, AppDeletes, CallStop
  <1> QED
    BY <1>3, <1>4, <1>5, <1>6 DEF HttpInv

LEMMA ListenerDeletesKeeps ==
  ASSUME HttpInv, NEW c \in Conns, ListenerDeletes(c)
  PROVE  HttpInv'
  <1> USE Names
  <1>1. \A d : Listed(d)' <=> Listed(d)
    BY ListKept DEF ListenerDeletes, serverVars
  <1>2. Shaped
    BY Shapes
  <1>3. Typed'
    <2>1. /\ pc' \in [Procs -> Places] /\ pc'["accept"] \in AcceptPc
          /\ pc'["app"] \in {"idle", "gone"} \cup StopPc /\ \A d \in Conns : pc'[d] \in ClientPc
      BY <1>1, <1>2
         DEF HttpInv, Shaped, Typed, TypeOK, Places, AcceptPc, ClientPc, StopPc, Goto,
             ListenerDeletes, CallStop
    <2> QED
      BY <2>1, <1>1, <1>2
         DEF HttpInv, Shaped, Typed, TypeOK, serverVars, threadVars, ListenerDeletes,
             CallStop
  <1>4. (RunningIsExact /\ Returning /\ Requested /\ AcceptOwned)'
    BY <1>1, <1>2
       DEF HttpInv, Shaped, RunningIsExact, Returning, StopPc, Requested, AcceptOwned,
           serverVars, threadVars, Goto, ListenerDeletes, CallStop
  <1>5. (Accepting /\ Backed /\ OnList /\ Attended)'
    BY <1>1, <1>2
       DEF HttpInv, Shaped, Accepting, Clean, Backed, OnList, StopPc, Attended, serverVars,
           threadVars, Goto, ListenerDeletes, CallStop
  <1>6. (Taken /\ Accounted)'
    BY <1>1, <1>2
       DEF HttpInv, Shaped, Taken, Deleting, Accounted, InAction, StopPc, serverVars,
           threadVars, Goto, ListenerDeletes, CallStop
  <1> QED
    BY <1>3, <1>4, <1>5, <1>6 DEF HttpInv

LEMMA DeferredDeleteKeeps ==
  ASSUME HttpInv, NEW c \in Conns, DeferredDelete(c)
  PROVE  HttpInv'
  <1> USE Names
  <1>1. \A d : Listed(d)' <=> Listed(d)
    BY ListKept DEF DeferredDelete, serverVars
  <1>2. Shaped
    BY Shapes
  <1>3. ~Listed(c) /\ pc[c] = "delete"
    BY DEF HttpInv, OnList, StopPc, DeferredDelete, CallStop, Goto
  <1>4. /\ pc' = [pc EXCEPT ![c] = "stop"] /\ after' = [after EXCEPT ![c] = "close"]
        /\ UNCHANGED <<serverVars, threadVars, ownerStopping, target, starts>>
    BY <1>3 DEF DeferredDelete, CallStop, Goto, serverVars
  <1>5. Typed'
    BY <1>1, <1>2, <1>3, <1>4
       DEF HttpInv, Shaped, Typed, TypeOK, Returning, Places, AcceptPc, ClientPc, StopPc,
           serverVars, threadVars, Goto, DeferredDelete, CallStop
  <1>6. (RunningIsExact /\ Returning /\ Requested /\ AcceptOwned)'
    BY <1>1, <1>2, <1>3, <1>4
       DEF HttpInv, Shaped, RunningIsExact, Returning, StopPc, Requested, AcceptOwned,
           serverVars, threadVars, Goto, DeferredDelete, CallStop
  <1>7. (Accepting /\ Backed /\ OnList /\ Attended)'
    BY <1>1, <1>2, <1>3, <1>4
       DEF HttpInv, Shaped, Accepting, Clean, Backed, OnList, StopPc, Attended, serverVars,
           threadVars, Goto, DeferredDelete, CallStop
  <1>8. (Taken /\ Accounted)'
    BY <1>1, <1>2, <1>3, <1>4
       DEF HttpInv, Shaped, Taken, Deleting, Accounted, InAction, StopPc, serverVars,
           threadVars, Goto, DeferredDelete, CallStop
  <1> QED
    BY <1>5, <1>6, <1>7, <1>8 DEF HttpInv

LEMMA FreesServerKeeps ==
  ASSUME HttpInv, NEW p \in Stoppers, FreesServer(p)
  PROVE  HttpInv'
  <1> USE Names
  <1>1. \A d : Listed(d)' <=> Listed(d)
    BY ListKept DEF FreesServer, serverVars
  <1>2. Shaped
    BY Shapes
  <1>3. Typed'
    <2>1. /\ pc' \in [Procs -> Places] /\ pc'["accept"] \in AcceptPc
          /\ pc'["app"] \in {"idle", "gone"} \cup StopPc /\ \A d \in Conns : pc'[d] \in ClientPc
      BY <1>1, <1>2
         DEF HttpInv, Shaped, Typed, TypeOK, Places, AcceptPc, ClientPc, StopPc, Goto,
             FreesServer
    <2> QED
      BY <2>1, <1>1, <1>2
         DEF HttpInv, Shaped, Typed, TypeOK, serverVars, threadVars, FreesServer
  <1>4. (RunningIsExact /\ Returning /\ Requested /\ AcceptOwned)'
    BY <1>1, <1>2
       DEF HttpInv, Shaped, RunningIsExact, Returning, StopPc, Requested, AcceptOwned,
           serverVars, threadVars, Goto, FreesServer
  <1>5. (Accepting /\ Backed /\ OnList /\ Attended)'
    BY <1>1, <1>2
       DEF HttpInv, Shaped, Accepting, Clean, Backed, OnList, StopPc, Attended, serverVars,
           threadVars, Goto, FreesServer
  <1>6. (Taken /\ Accounted)'
    BY <1>1, <1>2
       DEF HttpInv, Shaped, Taken, Deleting, Accounted, InAction, StopPc, serverVars,
           threadVars, Goto, FreesServer
  <1> QED
    BY <1>3, <1>4, <1>5, <1>6 DEF HttpInv

--------------------------------------------------------------------------------
LEMMA InitHolds == Init => HttpInv
  <1> SUFFICES ASSUME Init  PROVE HttpInv
    OBVIOUS
  <1> USE Names
  <1>1. \A c : ~Listed(c)
    BY DEF Init, Listed, Contains
  <1>2. NewThread \in ThreadState /\ ~NewThread.isRunning /\ ~NewThread.deletePending
    BY DEF NewThread, ThreadState
  <1>3. Typed
    <2>1. clientThreads \in Seq(Conns) /\ IsInjective(clientThreads)
      BY DEF Init, IsInjective
    <2>2. starts \in 0..MaxStarts
      BY HttpAssumption DEF Init
    <2>3. pc \in [Procs -> Places] /\ pc["app"] = "idle" /\ \A p \in Procs \ {"app"} : pc[p] = "none"
      BY DEF Init, Places, AcceptPc
    <2>4. thread \in [Threads -> ThreadState] /\ object \in [Threads -> {"none", "live", "freed"}]
      BY <1>2 DEF Init
    <2> QED
      BY <2>1, <2>2, <2>3, <2>4 DEF Init, Typed, TypeOK, AcceptPc, ClientPc
  <1>4. RunningIsExact /\ Returning /\ Requested /\ Accepting /\ AcceptOwned
    BY <1>2 DEF Init, RunningIsExact, Returning, Requested, Accepting, AcceptOwned, StopPc
  <1>5. Backed /\ OnList /\ Attended /\ Taken
    BY <1>1, <1>2 DEF Init, Backed, OnList, Attended, Taken, Deleting, Clean
  <1>6. Accounted
    BY <1>2 DEF Init, Accounted, InAction, StopPc
  <1> QED
    BY <1>3, <1>4, <1>5, <1>6 DEF HttpInv

LEMMA StepKeeps == HttpInv /\ [Next]_vars => HttpInv'
  <1> SUFFICES ASSUME HttpInv, [Next]_vars  PROVE HttpInv'
    OBVIOUS
  <1>1. CASE UNCHANGED vars
    <2>1. \A c : Listed(c)' <=> Listed(c)
      BY <1>1, ListKept DEF vars, serverVars
    <2>2. (Typed /\ RunningIsExact /\ Returning /\ Requested)'
      BY <1>1 DEF vars, serverVars, threadVars, HttpInv, Typed, TypeOK, RunningIsExact,
                  Returning, Requested
    <2>3. (AcceptOwned /\ Accepting /\ Backed /\ OnList /\ Attended)'
      BY <1>1, <2>1 DEF vars, serverVars, threadVars, HttpInv, AcceptOwned, Accepting, Backed,
                        OnList, Attended, Clean
    <2>4. (Taken /\ Accounted)'
      BY <1>1, <2>1 DEF vars, serverVars, threadVars, HttpInv, Taken, Accounted, Deleting,
                        InAction
    <2> QED
      BY <2>2, <2>3, <2>4 DEF HttpInv
  <1>2. CASE ServerStart \/ AppStops \/ AppDeletes
    BY <1>2, ServerStartKeeps, AppStopsKeeps, AppDeletesKeeps
  <1>3. CASE AcceptStep \/ AcceptDrops \/ AcceptFails
    BY <1>3, AcceptChecksKeeps, StartsClientKeeps, UnlistsClientKeeps, DiscardsClientKeeps,
       AcceptReturnsKeeps, AcceptDropsKeeps, AcceptFailsKeeps DEF AcceptStep
  <1>4. ASSUME NEW c \in Conns, Accepts(c) \/ StopsServing(c) \/ ListenerDeletes(c) \/ ClientStep(c)
        PROVE  HttpInv'
    BY <1>4, AcceptsKeeps, StopsServingKeeps, ListenerDeletesKeeps, FinishesKeeps,
       DeletesSelfKeeps, DeferredDeleteKeeps, ClientReturnsKeeps, WrapperFreeKeeps DEF ClientStep
  <1>5. ASSUME NEW p \in Stoppers, StopStep(p)
        PROVE  HttpInv'
    BY <1>5, StopsAcceptKeeps, JoinsAcceptKeeps, FreesAcceptKeeps, PopsKeeps, StopsClientKeeps,
       JoinsClientKeeps, FreesClientKeeps, DropsListKeeps, FreesServerKeeps DEF StopStep
  <1> QED
    BY <1>1, <1>2, <1>3, <1>4, <1>5 DEF Next

\* Whatever the application, listeners, the accept thread and the client threads do in
\* whatever order, the parts of the invariant hold between their steps.
THEOREM ServerIsInvariant == Spec => []HttpInv
  BY InitHolds, StepKeeps, PTL DEF Spec

\* Type correctness: a connection is on the list of clients once.
THEOREM TypesHold == Spec => []TypeOK
  <1>1. HttpInv => TypeOK
    BY DEF HttpInv, Typed
  <1> QED
    BY <1>1, ServerIsInvariant, PTL

\* A thread object is freed by one side only, its own thread, the accept thread or a
\* stop, and when neither a pthread nor the list nor another side refers to it, also
\* when several threads stop the server at once.
THEOREM ThreadsAreOwned == Spec => []ThreadsOutliveUse
  <1>1. HttpInv => ThreadsOutliveUse
    <2> SUFFICES ASSUME HttpInv, NEW t \in Threads, object[t] = "freed"
                 PROVE  /\ ~PthreadOn(t) /\ ~Listed(t) /\ \A p \in Procs : ~Deleting(p, t)
                        /\ t = "accept" => ~acceptThread
      BY DEF ThreadsOutliveUse
    <2> USE Names
    <2>1. CASE t = "accept"
      <3>1. ~Listed(t)
        BY <2>1 DEF HttpInv, Typed, TypeOK, Listed, Contains
      <3>2. \A p \in Procs : target[p] # t
        BY <2>1 DEF HttpInv, Typed, TypeOK
      <3> QED
        BY <2>1, <3>1, <3>2 DEF HttpInv, AcceptOwned, PthreadOn, Deleting
    <2>2. CASE t \in Conns
      <3>1. ~Listed(t) /\ ~PthreadOn(t)
        BY <2>2 DEF HttpInv, OnList, Backed, PthreadOn
      <3>2. ASSUME NEW p \in Stoppers  PROVE ~Deleting(p, t)
        BY <2>2 DEF HttpInv, Taken
      <3>3. ~Deleting("accept", t)
        <4>1. pc["accept"] \notin {"deleteClient", "joinClient", "freeClient"}
          BY DEF HttpInv, Typed, TypeOK, AcceptPc
        <4> QED
          BY <2>2, <4>1 DEF HttpInv, Accepting, Deleting
      <3> QED
        BY <2>2, <3>1, <3>2, <3>3 DEF Procs, Threads, Stoppers
    <2> QED
      BY <2>1, <2>2 DEF Threads
  <1> QED
    BY <1>1, ServerIsInvariant, PTL

--------------------------------------------------------------------------------
(* A server that the application deletes, or a listener that has the only    *)
(* connection: there is one stop at a time.                                  *)

\* Only Accepts makes an object, the first one if a listener deletes the server.
LEMMA OneConnectionKept ==
  ASSUME HttpInv, OneConnection, Next
  PROVE  OneConnection'
  <1> USE Names
  <1>1. deleter' = deleter
    BY DEF Next, AcceptStep, StopStep, ClientStep, ServerStart, AppStops, AppDeletes, AcceptChecks,
           StartsClient, UnlistsClient, DiscardsClient, ThreadReturns, AcceptDrops, AcceptFails,
           Accepts, StopsServing, ListenerDeletes, Finishes, DeletesSelf, DeferredDelete,
           WrapperFree, StopsAccept, JoinsAccept, FreesAccept, Pops, StopsClient, JoinsClient,
           FreesClient, DropsList, FreesServer, serverVars
  <1>2. object \in [Threads -> {"none", "live", "freed"}]
    BY Shapes DEF Shaped
  <1>3. ASSUME NEW e \in Conns, Accepts(e), deleter = "listener"
        PROVE  \A c \in Conns : object'[c] # "none" => c = e
    <2> DEFINE Made == {d \in Conns : object[d] # "none"}
    <2>1. Cardinality(Made) < ListenerConns /\ ListenerConns <= 1
      BY <1>3 DEF Accepts, OneConnection
    <2>2. ASSUME NEW c \in Conns, object[c] # "none"
          PROVE  FALSE
      <3>1. Made = {c}
        BY <1>3, <2>2 DEF OneConnection
      <3>2. Cardinality({c}) = 1
        BY FS_Singleton
      <3> HIDE DEF Made
      <3> QED
        BY <2>1, <3>1, <3>2, HttpAssumption
    <2> QED
      BY <1>2, <1>3, <2>2 DEF Accepts
  <1>4. CASE \E e \in Conns : Accepts(e)
    BY <1>1, <1>3, <1>4 DEF OneConnection
  <1>5. ASSUME NEW c \in Conns, ~\E e \in Conns : Accepts(e)
        PROVE  object'[c] # "none" => object[c] # "none"
    <2>1. CASE ServerStart \/ AppStops \/ AppDeletes
      BY <1>2, <2>1 DEF ServerStart, AppStops, AppDeletes, threadVars
    <2>2. CASE AcceptStep \/ AcceptDrops \/ AcceptFails
      BY <1>2, <2>2 DEF AcceptStep, AcceptChecks, StartsClient, UnlistsClient, DiscardsClient,
                        ThreadReturns, AcceptDrops, AcceptFails, threadVars, HttpInv, Accepting, Goto
    <2>3. ASSUME NEW d \in Conns, StopsServing(d) \/ ListenerDeletes(d) \/ ClientStep(d)
          PROVE  object'[c] # "none" => object[c] # "none"
      BY <1>2, <2>3 DEF ClientStep, StopsServing, ListenerDeletes, Finishes, DeletesSelf,
                        DeferredDelete, ThreadReturns, WrapperFree, threadVars, HttpInv, Backed, Goto
    <2>4. ASSUME NEW p \in Stoppers, StopStep(p)
          PROVE  object'[c] # "none" => object[c] # "none"
      BY <1>2, <2>4 DEF StopStep, StopsAccept, JoinsAccept, FreesAccept, Pops, StopsClient,
                        JoinsClient, FreesClient, DropsList, FreesServer, threadVars, HttpInv,
                        Taken, Deleting, Goto
    <2> QED
      BY <1>5, <2>1, <2>2, <2>3, <2>4 DEF Next
  <1>6. CASE ~\E e \in Conns : Accepts(e)
    BY <1>1, <1>5, <1>6 DEF OneConnection
  <1> QED
    BY <1>4, <1>6

\* When the list is dropped every client but the one that drops it is past its action.
LEMMA LastOneDrops ==
  ASSUME HttpInv, OneConnection, NEW p \in Stoppers, DropsList(p), NEW c \in Conns
  PROVE  /\ pc[c] \notin {"serving", "finishing"}
         /\ deleter = "app" => ~InAction(c) /\ p = "app"
  <1> USE Names
  <1>1. pc[p] = "pop" /\ ~Listed(c)
    BY DEF DropsList, Goto, Listed, Contains
  <1>2. CASE deleter = "app"
    <2>1. ~deletePending /\ pc[c] \notin StopPc /\ p = "app"
      BY <1>1, <1>2 DEF HttpInv, Requested, StopPc
    <2>2. ASSUME NEW q \in Stoppers  PROVE ~Deleting(q, c)
      <3>1. CASE q = "app"
        BY <1>1, <2>1, <3>1 DEF Deleting
      <3>2. CASE q \in Conns
        <4>1. pc[q] \notin StopPc /\ pc[q] \in ClientPc
          BY <2>1, <3>2 DEF HttpInv, Requested, Typed, TypeOK
        <4> QED
          BY <4>1 DEF Deleting, StopPc, ClientPc
      <3> QED
        BY <3>1, <3>2
    <2>3. ~InAction(c)
      BY <1>1, <2>1, <2>2 DEF HttpInv, Accounted, InAction
    <2> QED
      BY <2>1, <2>3 DEF InAction
  <1>3. CASE deleter = "listener"
    <2>1. p \in Conns /\ object[p] # "none"
      BY <1>1, <1>3 DEF HttpInv, Requested, Backed
    <2>2. pc[c] # "none" => c = p
      BY <1>3, <2>1 DEF HttpInv, Backed, OneConnection
    <2> QED
      BY <1>1, <1>3, <2>2
  <1> QED
    BY <1>2, <1>3 DEF HttpInv, Typed, TypeOK

\* Where a server that the application deletes is stopped, nobody begins to serve.
LEMMA StoppedKept ==
  ASSUME HttpInv, OneConnection, Stopped, Next
  PROVE  Stopped'
  <1> USE Names
  <1>1. SUFFICES ASSUME deleter' = "app"
                 PROVE  /\ ~hasList' => \A c \in Conns : ~InAction(c)'
                        /\ pc'["app"] = "close" => ~hasList'
    BY DEF Stopped
  <1>3. /\ pc \in [Procs -> Places]
        /\ after \in [Stoppers -> {"none", "idle", "serving", "close", "deleteSelf"}]
    BY Shapes DEF Shaped
  <1>4. CASE ServerStart \/ AppStops \/ AppDeletes
    BY <1>1, <1>3, <1>4 DEF ServerStart, AppStops, AppDeletes, CallStop, Goto, serverVars, Stopped,
                            InAction, StopPc
  <1>5. CASE AcceptStep \/ AcceptDrops \/ AcceptFails
    <2>1. hasList' = hasList /\ deleter' = deleter /\ after' = after
      BY <1>5 DEF AcceptStep, AcceptChecks, StartsClient, UnlistsClient, DiscardsClient,
                  ThreadReturns, AcceptDrops, AcceptFails, serverVars
    <2>2. hasList \/ UNCHANGED vars \/ ThreadReturns("accept")
      BY <1>5 DEF AcceptStep, AcceptChecks, StartsClient, UnlistsClient, DiscardsClient,
                  AcceptDrops, AcceptFails, HttpInv, AcceptOwned, Goto
    <2>3. pc'["app"] = pc["app"]
      BY <1>3, <1>5 DEF AcceptStep, AcceptChecks, StartsClient, UnlistsClient, DiscardsClient,
                        ThreadReturns, AcceptDrops, AcceptFails, HttpInv, Accepting, Goto
    <2>4. CASE hasList
      BY <1>1, <2>1, <2>3, <2>4 DEF Stopped
    <2>5. CASE UNCHANGED vars \/ ThreadReturns("accept")
      BY <1>1, <1>3, <2>1, <2>3, <2>5 DEF Stopped, InAction, vars, ThreadReturns, Goto
    <2> QED
      BY <2>2, <2>4, <2>5
  <1>6. ASSUME NEW c \in Conns, Accepts(c) \/ StopsServing(c) \/ ListenerDeletes(c) \/ ClientStep(c)
        PROVE  /\ ~hasList' => \A d \in Conns : ~InAction(d)'
               /\ pc'["app"] = "close" => ~hasList'
    <2>1. deleter' = deleter /\ hasList' = hasList
      BY <1>6 DEF Accepts, StopsServing, ListenerDeletes, ClientStep, Finishes, DeletesSelf,
                  DeferredDelete, ThreadReturns, WrapperFree, serverVars
    <2>2. pc'["app"] = pc["app"]
      BY <1>3, <1>6 DEF Accepts, StopsServing, ListenerDeletes, ClientStep, Finishes, DeletesSelf,
                        DeferredDelete, ThreadReturns, WrapperFree, CallStop, Goto
    <2>3. ~deletePending
      BY <1>1, <2>1 DEF HttpInv, Requested
    <2>4. ASSUME NEW d \in Conns, InAction(d)'  PROVE InAction(d)
      BY <1>1, <1>3, <1>6, <2>1, <2>3, <2>4
         DEF Accepts, StopsServing, ListenerDeletes, ClientStep, Finishes, DeletesSelf, DeferredDelete,
             ThreadReturns, WrapperFree, CallStop, Goto, InAction, StopPc, HttpInv, Requested
    <2> QED
      BY <1>1, <2>1, <2>2, <2>4 DEF Stopped
  <1>7. ASSUME NEW p \in Stoppers, StopStep(p)
        PROVE  /\ ~hasList' => \A d \in Conns : ~InAction(d)'
               /\ pc'["app"] = "close" => ~hasList'
    <2>1. deleter' = deleter
      BY <1>7 DEF StopStep, StopsAccept, JoinsAccept, FreesAccept, Pops, StopsClient, JoinsClient,
                  FreesClient, DropsList, FreesServer, serverVars
    <2>2. p = "app" /\ \A c \in Conns : pc[c] \notin StopPc
      BY <1>1, <1>7, <2>1 DEF HttpInv, Requested, StopPc, StopStep, StopsAccept, JoinsAccept,
           FreesAccept, Pops, StopsClient, JoinsClient, FreesClient, DropsList, FreesServer, Goto
    <2>3. \A c \in Conns : pc'[c] = pc[c]
      BY <1>3, <1>7, <2>2 DEF StopStep, StopsAccept, JoinsAccept, FreesAccept, Pops, StopsClient,
           JoinsClient, FreesClient, DropsList, FreesServer, Goto
    <2>4. \A c \in Conns : InAction(c)' => InAction(c)
      BY <2>2, <2>3 DEF InAction
    <2>5. CASE DropsList(p)
      <3>1. \A c \in Conns : ~InAction(c)
        BY <1>1, <2>1, <2>5, LastOneDrops
      <3> QED
        BY <2>4, <2>5, <3>1 DEF DropsList
    <2>6. CASE ~DropsList(p)
      <3>1. hasList' = hasList
        BY <1>7, <2>6 DEF StopStep, StopsAccept, JoinsAccept, FreesAccept, Pops, StopsClient,
             JoinsClient, FreesClient, FreesServer, serverVars
      <3>2. pc'["app"] = "close" => ~hasList
        BY <1>3, <1>7, <2>2, <2>6 DEF StopStep, StopsAccept, JoinsAccept, FreesAccept, Pops,
             StopsClient, JoinsClient, FreesClient, FreesServer, Goto
      <3> QED
        BY <1>1, <2>1, <2>4, <3>1, <3>2 DEF Stopped
    <2> QED
      BY <2>5, <2>6
  <1> QED
    BY <1>4, <1>5, <1>6, <1>7 DEF Next

\* The server is freed when nobody is left on it, and nobody comes to it afterwards.
LEMMA DesertedKept ==
  ASSUME HttpInv, OneConnection, Stopped, Deserted, Next
  PROVE  Deserted'
  <1> USE Names
  <1>1. pc \in [Procs -> Places]
    BY Shapes DEF Shaped
  <1>2. ASSUME NEW p \in Stoppers, FreesServer(p)
        PROVE  Deserted'
    <2>1. pc[p] = "close" /\ ~acceptThread /\ pc["accept"] \in {"none", "ended"}
      BY <1>2 DEF FreesServer, Goto, HttpInv, AcceptOwned
    <2>2. CASE p = "app"
      <3>1. deleter = "app" /\ ~deletePending
        BY <2>1, <2>2 DEF HttpInv, Requested, Typed, TypeOK
      <3>2. \A c \in Conns : pc[c] \notin {"serving", "finishing", "delete"} \cup StopPc
        BY <2>1, <2>2, <3>1 DEF HttpInv, Requested, Stopped, InAction
      <3> QED
        BY <1>1, <1>2, <2>1, <2>2, <3>2 DEF FreesServer, Goto, Deserted, StopPc
    <2>3. CASE p \in Conns
      <3>1. deleter = "listener" /\ pc["app"] = "idle" /\ object[p] # "none"
        BY <2>1, <2>3 DEF HttpInv, Requested, Backed, StopPc
      <3>2. \A c \in Conns \ {p} : pc[c] = "none"
        BY <2>3, <3>1 DEF HttpInv, Backed, OneConnection
      <3> QED
        BY <1>1, <1>2, <2>1, <2>3, <3>1, <3>2 DEF FreesServer, Goto, Deserted, StopPc
    <2> QED
      BY <2>2, <2>3
  <1>3. CASE ~\E p \in Stoppers : FreesServer(p)
    <2>1. serverAlive' = serverAlive
      BY <1>3 DEF Next, AcceptStep, StopStep, ClientStep, ServerStart, AppStops, AppDeletes,
           AcceptChecks, StartsClient, UnlistsClient, DiscardsClient, ThreadReturns, AcceptDrops,
           AcceptFails, Accepts, StopsServing, ListenerDeletes, Finishes, DeletesSelf,
           DeferredDelete, WrapperFree, StopsAccept, JoinsAccept, FreesAccept, Pops, StopsClient,
           JoinsClient, FreesClient, DropsList, serverVars
    <2>2. SUFFICES ASSUME ~serverAlive
                   PROVE  /\ pc'["app"] \notin StopPc
                          /\ pc'["accept"] \in {"none", "returned", "ended"}
                          /\ \A c \in Conns :
                               pc'[c] \notin {"serving", "finishing", "delete"} \cup StopPc
      BY <2>1 DEF Deserted
    <2>3. /\ pc["app"] \notin StopPc /\ pc["accept"] \in {"none", "returned", "ended"}
          /\ \A c \in Conns : pc[c] \notin {"serving", "finishing", "delete"} \cup StopPc
      BY <2>2 DEF Deserted
    <2>4. ~ServerStart /\ ~AppStops /\ ~AppDeletes
      BY <2>2 DEF ServerStart, AppStops, AppDeletes
    <2>5. AcceptStep \/ AcceptDrops \/ AcceptFails => ThreadReturns("accept")
      BY <2>3 DEF AcceptStep, AcceptChecks, StartsClient, UnlistsClient, DiscardsClient, AcceptDrops,
                  AcceptFails, Goto
    <2>6. ASSUME NEW c \in Conns,
                 Accepts(c) \/ StopsServing(c) \/ ListenerDeletes(c) \/ ClientStep(c)
          PROVE  DeletesSelf(c) \/ ThreadReturns(c) \/ WrapperFree(c)
      BY <2>3, <2>6 DEF Accepts, StopsServing, ListenerDeletes, ClientStep, Finishes,
                        DeferredDelete, CallStop, Goto
    <2>7. ASSUME NEW p \in Stoppers  PROVE ~StopStep(p)
      BY <2>3 DEF StopPc, StopStep, StopsAccept, JoinsAccept, FreesAccept, Pops, StopsClient,
                  JoinsClient, FreesClient, DropsList, FreesServer, Goto
    <2>8. \E t \in Threads : ThreadReturns(t) \/ (t \in Conns /\ (DeletesSelf(t) \/ WrapperFree(t)))
      BY <2>4, <2>5, <2>6, <2>7 DEF Next
    <2>9. ~WrapperFrees(thread["accept"])
      BY DEF HttpInv, AcceptOwned, WrapperFrees
    <2>10. PICK t \in Threads, next \in {"returned", "free", "ended"} :
             pc' = [pc EXCEPT ![t] = next] /\ (t = "accept" => next # "free")
      <3>1. ASSUME NEW t \in Threads, ThreadReturns(t)
            PROVE  \E next \in {"returned", "free", "ended"} :
                     pc' = [pc EXCEPT ![t] = next] /\ (t = "accept" => next # "free")
        <4>1. CASE WrapperFrees(thread[t])
          BY <2>9, <3>1, <4>1 DEF ThreadReturns, Goto
        <4>2. CASE ~WrapperFrees(thread[t])
          BY <3>1, <4>2 DEF ThreadReturns, Goto
        <4> QED
          BY <4>1, <4>2
      <3> QED
        BY <2>8, <3>1 DEF DeletesSelf, WrapperFree, Goto
    <2> QED
      BY <1>1, <2>3, <2>10 DEF StopPc, Threads
  <1> QED
    BY <1>2, <1>3

LEMMA SingleHolds ==
  Spec /\ OneDeleter => []SingleInv
  <1>1. Init /\ OneDeleter => SingleInv
    BY Names DEF Init, OneDeleter, SingleInv, OneConnection, Stopped, Deserted, InAction, Threads, StopPc
  <1>2. HttpInv /\ SingleInv /\ [Next]_vars => SingleInv'
    <2>1. CASE Next
      BY <2>1, OneConnectionKept, StoppedKept, DesertedKept DEF SingleInv
    <2>2. CASE UNCHANGED vars
      BY <2>2 DEF vars, serverVars, threadVars, SingleInv, OneConnection, Stopped, Deserted, InAction
    <2> QED
      BY <2>1, <2>2
  <1> QED
    BY <1>1, <1>2, ServerIsInvariant, PTL DEF Spec

\* The server is not freed under anybody who still reads it: for any number of
\* connections if the application deletes it, and for one if a listener does.
THEOREM ServerIsOwned ==
  Spec /\ OneDeleter => []ServerOutlivesUse
  <1>1. HttpInv /\ SingleInv => ServerOutlivesUse
    <2> SUFFICES ASSUME HttpInv, SingleInv, ~serverAlive, NEW p \in Procs
                 PROVE  ~UsesServer(p)
      BY DEF ServerOutlivesUse
    <2>1. /\ pc["app"] \notin StopPc /\ pc["accept"] \in {"none", "returned", "ended"}
          /\ \A c \in Conns : pc[c] \notin {"serving", "finishing", "delete"} \cup StopPc
      BY DEF SingleInv, Deserted
    <2>2. CASE p = "app"
      BY <2>1, <2>2 DEF UsesServer
    <2>3. CASE p = "accept"
      BY <2>1, <2>3 DEF UsesServer
    <2>4. CASE p \in Conns
      BY <2>1, <2>4, Names DEF UsesServer
    <2> QED
      BY <2>2, <2>3, <2>4 DEF Procs, Threads
  <1> QED
    BY <1>1, ServerIsInvariant, SingleHolds, PTL

\* mupnp_http_server_stop has joined the action of every client but its caller when it
\* drops the list, under the same condition.
THEOREM StopIsAJoin ==
  Spec /\ OneDeleter => StopJoinsActions
  <1>1. HttpInv /\ SingleInv /\ [Next]_vars =>
          [hasList /\ ~hasList' =>
             \A c \in Conns : pc[c] \in {"serving", "finishing"} => pc[c]' # pc[c]]_vars
    <2> SUFFICES ASSUME HttpInv, SingleInv, Next, hasList, ~hasList', NEW c \in Conns
                 PROVE  pc[c] \notin {"serving", "finishing"}
      BY DEF vars, serverVars
    <2>1. \E p \in Stoppers : DropsList(p)
      BY DEF Next, AcceptStep, StopStep, ClientStep, ServerStart, AppStops, AppDeletes, AcceptChecks,
           StartsClient, UnlistsClient, DiscardsClient, ThreadReturns, AcceptDrops, AcceptFails,
           Accepts, StopsServing, ListenerDeletes, Finishes, DeletesSelf, DeferredDelete,
           WrapperFree, StopsAccept, JoinsAccept, FreesAccept, Pops, StopsClient, JoinsClient,
           FreesClient, FreesServer, serverVars
    <2> QED
      BY <2>1, LastOneDrops DEF SingleInv
  <1> QED
    BY <1>1, ServerIsInvariant, SingleHolds, PTL DEF Spec, StopJoinsActions
================================================================================
