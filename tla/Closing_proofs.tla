------------------------- MODULE Closing_proofs -------------------------
(***************************************************************************)
(* ClientThreads, for any number of descriptors, turns and requests: as    *)
(* long as the program does not call SwitchNetwork, InnerClose is one      *)
(* thread's at a time, and what it closes and releases is the client's     *)
(* own.  KcpReentry, for any number of segments and any size of a packet:  *)
(* however closes and flushes nest, the session is released once, by a     *)
(* close that began as final while attempts are left; and they nest only   *)
(* so deep when one packet holds the acknowledgements.  Both hold of the   *)
(* composition that the run checks.  Extension, for any number of clients: *)
(* whatever the callbacks create and close below the walk of the hook, no  *)
(* client is updated twice, and each close hides at most one.              *)
(***************************************************************************)
EXTENDS MCClosing, MCExtension, FiniteSetTheorems, WellFoundedInduction, SequenceTheorems, TLAPS

Places == {"none", "begin", "release", "null", "stop", "close", "forget", "state"}

\* Some thread is at this place of InnerClose.
SomeAt(place) == \E t \in Threads : close[t].at = place

TypeInv ==
    /\ pc \in [Threads -> {"idle", "block", "join", "deleted",
                           "none", "start", "loop", "drain", "relink", "done"}]
    /\ close \in [Threads -> [at : Places, reason : Int]]
    /\ \A t \in Threads : close[t].at = "none" => close[t] = NoClose
    /\ conn_state \in {"init", "connecting", "logic"}
    /\ tcp_sock \in Fds \cup {0}
    /\ kcp \in Nat
    /\ in_queue \in Seq({"connect", "close"})
    /\ owner \in [Fds -> {"free", "client", "other"}]

\* The net thread closes while it runs its loop; the main thread once it is joined.
OneCloses ==
    /\ close["net"] # NoClose => pc["net"] \in {"loop", "drain", "relink"}
    /\ close["main"] # NoClose => pc["main"] = "deleted"
    /\ pc["main"] = "deleted" => pc["net"] \in {"none", "done"}

\* The request to connect is the first of the queue, and the client is idle
\* until it is run.
Waiting ==
    /\ calls = 0 => pc["net"] = "none" /\ in_queue = <<>> /\ conn_state = "init"
    /\ \A k \in 1 .. Len(in_queue) : in_queue[k] = "connect" =>
          /\ k = 1
          /\ tcp_sock = 0 /\ conn_state = "init"
          /\ pc["net"] \in {"start", "loop", "drain", "done"}
          /\ close["net"] = NoClose

\* The client's descriptor is the one the field names, except between
\* closesocket_ex and the assignment after it.
Descriptors ==
    /\ \A fd \in Fds : owner[fd] = "client" => fd = tcp_sock
    /\ SomeAt("forget") => tcp_sock # 0 /\ owner[tcp_sock] # "client"
    /\ tcp_sock # 0 /\ ~ SomeAt("forget") => owner[tcp_sock] = "client"
    /\ SomeAt("state") => tcp_sock = 0
    /\ conn_state = "init" => tcp_sock = 0

\* Sessions are numbered as they are created: those released are the first.
Sessions ==
    /\ Cardinality(freed) \in Nat
    /\ freed = 1 .. Cardinality(freed)
    /\ SomeAt("null") => kcp = Cardinality(freed) /\ kcp # 0
    /\ ~ SomeAt("null") => kcp \in {0, Cardinality(freed) + 1}

\* The destructor's close always comes to the release of the session.
Deleting ==
    /\ close["main"] # NoClose => close["main"].reason = -1
    /\ close["main"].at \in {"stop", "close", "forget", "state"} => kcp = 0
    /\ pc["main"] = "deleted" /\ close["main"] = NoClose => kcp = 0 /\ tcp_sock = 0

Quiet ==
    /\ TypeInv
    /\ OneCloses
    /\ Waiting
    /\ Descriptors
    /\ Sessions
    /\ Deleting
    /\ ~ misuse

IInv == switched \/ Quiet
-----------------------------------------------------------------------------
\* The least of some numbers is one of them.
LEMMA MinFact ==
    ASSUME NEW T, T \subseteq Nat, T # {}
    PROVE  Min(T) \in T
<1> DEFINE U == {0 .. n : n \in T}
           R == StrictSubsetOrdering(Nat)
<1>1. IsWellFoundedOn(R, FiniteSubsetsOf(Nat))
  BY FS_StrictSubsetOrderingWellFounded
<1>2. U \subseteq FiniteSubsetsOf(Nat) /\ U # {}
  <2>1. \A n \in T : 0 .. n \in FiniteSubsetsOf(Nat)
    <3> TAKE n \in T
    <3>1. IsFiniteSet(0 .. n) /\ 0 .. n \subseteq Nat
      BY FS_Interval
    <3> QED BY <3>1 DEF FiniteSubsetsOf
  <2> QED BY <2>1
<1>3. PICK A \in U : \A B \in U : ~ (<<B, A>> \in R)
  <2> HIDE DEF U, R
  <2> QED BY <1>1, <1>2, WFMin
<1>4. PICK m \in T : A = 0 .. m
  OBVIOUS
<1>5. \A n \in T : m <= n
  <2> SUFFICES ASSUME NEW n \in T, n < m PROVE FALSE
    OBVIOUS
  <2>1. 0 .. n \in U /\ 0 .. n \subseteq 0 .. m /\ 0 .. n # 0 .. m
    OBVIOUS
  <2>2. <<0 .. n, A>> \in R
    BY <1>2, <1>4, <2>1 DEF StrictSubsetOrdering, FiniteSubsetsOf
  <2> QED BY <1>3, <2>1, <2>2
<1> QED BY <1>5 DEF Min

\* The descriptor the kernel gives is one that was free.
LEMMA LowestFree == Free # {} => Min(Free) \in Fds /\ owner[Min(Free)] = "free"
BY ThreadsAssumption, MinFact DEF Free

\* A client just constructed is quiet.
LEMMA InitQuiet == Init => Quiet
<1> SUFFICES ASSUME Init PROVE Quiet
  OBVIOUS
<1> USE DEF Init
<1>1. TypeInv
  BY ThreadsAssumption, EmptySeq DEF TypeInv, Places, NoClose, Threads
<1>2. OneCloses /\ Waiting /\ Deleting
  BY DEF OneCloses, Waiting, Deleting, Threads
<1>3. Descriptors /\ ~ misuse
  BY DEF Descriptors, SomeAt, NoClose, Threads
<1>4. Sessions
  BY FS_EmptySet, FS_Interval DEF Sessions, SomeAt, NoClose, Threads
<1> QED BY <1>1, <1>2, <1>3, <1>4 DEF Quiet

\* While one thread is in InnerClose the other is not.
LEMMA OneAlone ==
    ASSUME Quiet, NEW t \in Threads, close[t] # NoClose
    PROVE  /\ \A u \in Threads : u # t => close[u] = NoClose
           /\ \A place \in Places \ {"none"} : SomeAt(place) <=> close[t].at = place
<1>1. \A u \in Threads : u # t => close[u] = NoClose
  BY DEF Quiet, OneCloses, Threads
<1> QED BY <1>1 DEF SomeAt, NoClose, Places

\* A step of InnerClose moves only that thread's place.
LEMMA StepFact ==
    ASSUME Quiet, NEW t \in Threads, NEW from \in Places \ {"none"},
           NEW to \in Places \ {"none"}, Step(t, from, to), UNCHANGED pc
    PROVE  /\ close[t] # NoClose /\ close[t].at = from
           /\ close' = [close EXCEPT ![t] = [at |-> to, reason |-> close[t].reason]]
           /\ close' \in [Threads -> [at : Places, reason : Int]]
           /\ \A u \in Threads : close'[u].at = "none" => close'[u] = NoClose
           /\ OneCloses'
           /\ \A place \in Places \ {"none"} : SomeAt(place)' <=> to = place
<1>1. close[t] # NoClose /\ close[t].at = from
  BY DEF Step, NoClose
<1>2. close \in [Threads -> [at : Places, reason : Int]]
  BY DEF Quiet, TypeInv
<1>3. close' = [close EXCEPT ![t] = [at |-> to, reason |-> close[t].reason]]
  <2>1. [close[t] EXCEPT !.at = to] = [at |-> to, reason |-> close[t].reason]
    BY <1>2
  <2> QED BY <2>1 DEF Step
<1>4. close' \in [Threads -> [at : Places, reason : Int]]
  BY <1>2, <1>3
<1>5. \A u \in Threads : close'[u].at = "none" => close'[u] = NoClose
  BY <1>2, <1>3 DEF Quiet, TypeInv
<1>6. OneCloses'
  BY <1>1, <1>2, <1>3, Zenon DEF Quiet, OneCloses, Threads
<1>7. \A place \in Places \ {"none"} : SomeAt(place)' <=> to = place
  BY <1>1, <1>2, <1>3, OneAlone DEF SomeAt, NoClose, Places
<1> QED BY <1>1, <1>3, <1>4, <1>5, <1>6, <1>7
-----------------------------------------------------------------------------
(* InnerClose, a step at a time                                            *)

\* What all steps of InnerClose but the last have in common.
LEMMA GoesOn ==
    ASSUME Quiet, NEW t \in Threads, NEW from \in Places \ {"none"},
           NEW to \in Places \ {"none"}, Step(t, from, to),
           UNCHANGED <<pc, conn_state, in_queue, calls>>,
           tcp_sock' \in {tcp_sock, 0}, kcp' \in {kcp, 0},
           owner' \in [Fds -> {"free", "client", "other"}],
           t = "main" /\ to \in {"stop", "close", "forget", "state"} => kcp' = 0
    PROVE  TypeInv' /\ OneCloses' /\ Waiting' /\ Deleting'
<1>1. /\ close[t] # NoClose /\ close[t].at = from
      /\ close' = [close EXCEPT ![t] = [at |-> to, reason |-> close[t].reason]]
      /\ close' \in [Threads -> [at : Places, reason : Int]]
      /\ \A u \in Threads : close'[u].at = "none" => close'[u] = NoClose
      /\ OneCloses'
  BY StepFact
<1>2. TypeInv'
  BY <1>1 DEF Quiet, TypeInv
<1>3. Waiting'
  <2>1. CASE t = "net"
    BY <2>1, <1>1 DEF Quiet, Waiting
  <2>2. CASE t = "main"
    <3>1. close'["net"] = close["net"]
      BY <2>2, <1>1 DEF Quiet, TypeInv, Threads
    <3> QED BY <3>1 DEF Quiet, Waiting
  <2> QED BY <2>1, <2>2 DEF Threads
<1>4. Deleting'
  <2>1. CASE t = "net"
    <3>1. close'["main"] = close["main"] /\ close["main"] = NoClose /\ pc["main"] # "deleted"
      BY <2>1, <1>1 DEF Quiet, TypeInv, Threads, OneCloses
    <3> QED BY <3>1 DEF Quiet, Deleting, NoClose
  <2>2. CASE t = "main"
    <3>1. close'["main"].at = to /\ close'["main"].reason = -1
      BY <2>2, <1>1 DEF Quiet, TypeInv, Threads, Deleting
    <3>2. close'["main"] # NoClose
      BY <3>1 DEF NoClose
    <3> QED BY <2>2, <3>1, <3>2 DEF Deleting
  <2> QED BY <2>1, <2>2 DEF Threads
<1> QED BY <1>1, <1>2, <1>3, <1>4

\* Where the threads are before and after a step.
LEMMA Moves ==
    ASSUME Quiet, NEW t \in Threads, NEW from \in Places \ {"none"},
           NEW to \in Places \ {"none"}, Step(t, from, to), UNCHANGED pc
    PROVE  \A place \in Places \ {"none"} : /\ SomeAt(place) <=> place = from
                                            /\ SomeAt(place)' <=> place = to
BY StepFact, OneAlone

\* The entry of InnerClose: a reason below CLIENT_CONNECT_ERROR is final.
LEMMA CloseBeginsKeeps ==
    ASSUME Quiet, NEW t \in Threads, CloseBegins(t)
    PROVE  Quiet'
<1> DEFINE to == IF Reported(t) < CLIENT_CONNECT_ERROR THEN "release" ELSE "close"
<1>1. Step(t, "begin", to) /\ to \in {"release", "close"}
  BY DEF CloseBegins
<1>2. UNCHANGED <<pc, running, conn_state, tcp_sock, kcp, relink_count, slots, in_queue,
                  loops, calls, owner, others, freed, misuse>>
  BY DEF CloseBegins, object, system
<1>3. t = "main" => to = "release"
  <2> SUFFICES ASSUME t = "main" PROVE Reported(t) < CLIENT_CONNECT_ERROR
    OBVIOUS
  <2>1. close["main"].reason = -1
    BY <1>1 DEF Step, NoClose, Quiet, Deleting
  <2> QED BY <2>1 DEF Reported, CLIENT_CONNECT_ERROR, CLIENT_CONNECT_TIMEOUT
<1> HIDE DEF to
<1>4. TypeInv' /\ OneCloses' /\ Waiting' /\ Deleting'
  BY <1>1, <1>2, <1>3, GoesOn DEF Places, Quiet, TypeInv
<1>5. \A place \in Places \ {"none"} : /\ SomeAt(place) <=> place = "begin"
                                       /\ SomeAt(place)' <=> place = to
  BY <1>1, <1>2, Moves DEF Places
<1>6. Descriptors'
  BY <1>1, <1>2, <1>5 DEF Quiet, Descriptors, Places
<1>7. Sessions'
  BY <1>1, <1>2, <1>5 DEF Quiet, Sessions, Places
<1> QED BY <1>2, <1>4, <1>6, <1>7 DEF Quiet

\* KcpSession::Release frees the session that the pointer names.
LEMMA CloseReleasesKeeps ==
    ASSUME Quiet, NEW t \in Threads, CloseReleases(t)
    PROVE  Quiet'
<1> DEFINE to == IF kcp # 0 THEN "null" ELSE "stop"
<1>1. Step(t, "release", to) /\ to \in {"null", "stop"} /\ (kcp # 0 <=> to = "null")
  BY DEF CloseReleases
<1>2. /\ UNCHANGED <<pc, running, conn_state, tcp_sock, kcp, relink_count, slots, in_queue,
                     loops, calls, owner, others>>
      /\ to = "null" => freed' = freed \cup {kcp} /\ misuse' = (misuse \/ kcp \in freed)
      /\ to = "stop" => UNCHANGED <<freed, misuse>>
  BY DEF CloseReleases, object
<1>3. t = "main" /\ to = "stop" => kcp = 0
  OBVIOUS
<1> HIDE DEF to
<1>4. TypeInv' /\ OneCloses' /\ Waiting' /\ Deleting'
  BY <1>1, <1>2, <1>3, GoesOn DEF Places, Quiet, TypeInv
<1>5. \A place \in Places \ {"none"} : /\ SomeAt(place) <=> place = "release"
                                       /\ SomeAt(place)' <=> place = to
  BY <1>1, <1>2, Moves DEF Places
<1>6. Descriptors'
  BY <1>1, <1>2, <1>5 DEF Quiet, Descriptors, Places
<1>7. Sessions' /\ ~ misuse'
  <2>1. CASE to = "stop"
    BY <2>1, <1>1, <1>2, <1>5 DEF Quiet, Sessions, Places
  <2>2. CASE to = "null"
    <3> DEFINE n == Cardinality(freed)
    <3>1. n \in Nat /\ freed = 1 .. n /\ kcp = n + 1
      BY <2>2, <1>1, <1>5 DEF Quiet, Sessions, Places
    <3>2. freed' = 1 .. n + 1 /\ ~ misuse'
      <4>1. freed' = freed \cup {kcp} /\ misuse' = (misuse \/ kcp \in freed)
        BY <2>2, <1>2
      <4>2. kcp \notin freed /\ freed \cup {kcp} = 1 .. n + 1
        BY <3>1
      <4> QED BY <4>1, <4>2, Zenon DEF Quiet
    <3>3. Cardinality(freed') = n + 1
      BY <3>1, <3>2, FS_Interval
    <3>4. SomeAt("null")' /\ kcp' = kcp
      BY <2>2, <1>2, <1>5 DEF Places
    <3> QED BY <3>1, <3>2, <3>3, <3>4 DEF Sessions
  <2> QED BY <2>1, <2>2, <1>1
<1> QED BY <1>4, <1>6, <1>7 DEF Quiet

\* The pointer to the session is cleared after the release.
LEMMA CloseNullsKeeps ==
    ASSUME Quiet, NEW t \in Threads, CloseNulls(t)
    PROVE  Quiet'
<1>1. Step(t, "null", "stop") /\ kcp' = 0
  BY DEF CloseNulls
<1>2. UNCHANGED <<pc, running, conn_state, tcp_sock, relink_count, slots, in_queue,
                  loops, calls, owner, others, freed, misuse>>
  BY DEF CloseNulls, system
<1>3. TypeInv' /\ OneCloses' /\ Waiting' /\ Deleting'
  BY <1>1, <1>2, GoesOn DEF Places, Quiet, TypeInv
<1>4. \A place \in Places \ {"none"} : /\ SomeAt(place) <=> place = "null"
                                       /\ SomeAt(place)' <=> place = "stop"
  BY <1>1, <1>2, Moves DEF Places
<1>5. Descriptors'
  BY <1>1, <1>2, <1>4 DEF Quiet, Descriptors, Places
<1>6. Sessions'
  BY <1>1, <1>2, <1>4 DEF Quiet, Sessions, Places
<1> QED BY <1>2, <1>3, <1>5, <1>6 DEF Quiet

\* running_ is cleared; the session is gone by then in the destructor.
LEMMA CloseStopsLoopKeeps ==
    ASSUME Quiet, NEW t \in Threads, CloseStopsLoop(t)
    PROVE  Quiet'
<1>1. Step(t, "stop", "close")
  BY DEF CloseStopsLoop
<1>2. UNCHANGED <<pc, conn_state, tcp_sock, kcp, relink_count, slots, in_queue,
                  loops, calls, owner, others, freed, misuse>>
  BY DEF CloseStopsLoop, system
<1>3. t = "main" => kcp = 0
  BY <1>1 DEF Step, Quiet, Deleting
<1>4. TypeInv' /\ OneCloses' /\ Waiting' /\ Deleting'
  BY <1>1, <1>2, <1>3, GoesOn DEF Places, Quiet, TypeInv
<1>5. \A place \in Places \ {"none"} : /\ SomeAt(place) <=> place = "stop"
                                       /\ SomeAt(place)' <=> place = "close"
  BY <1>1, <1>2, Moves DEF Places
<1>6. Descriptors'
  BY <1>1, <1>2, <1>5 DEF Quiet, Descriptors, Places
<1>7. Sessions'
  BY <1>1, <1>2, <1>5 DEF Quiet, Sessions, Places
<1> QED BY <1>2, <1>4, <1>6, <1>7 DEF Quiet

\* closesocket_ex gives the descriptor back to the system.
LEMMA CloseSocketKeeps ==
    ASSUME Quiet, NEW t \in Threads, CloseSocket(t)
    PROVE  Quiet'
<1> DEFINE to == IF tcp_sock # 0 THEN "forget" ELSE "state"
<1>1. Step(t, "close", to) /\ to \in {"forget", "state"} /\ (tcp_sock # 0 <=> to = "forget")
  BY DEF CloseSocket
<1>2. /\ UNCHANGED <<pc, running, conn_state, tcp_sock, kcp, relink_count, slots, in_queue,
                     loops, calls, others, freed>>
      /\ to = "forget" => /\ owner' = [owner EXCEPT ![tcp_sock] = "free"]
                          /\ misuse' = (misuse \/ owner[tcp_sock] = "other")
      /\ to = "state" => UNCHANGED <<owner, misuse>>
  BY DEF CloseSocket, object
<1> HIDE DEF to
<1>3. owner' \in [Fds -> {"free", "client", "other"}]
  BY <1>1, <1>2 DEF Quiet, TypeInv
<1>4. t = "main" => kcp = 0
  BY <1>1 DEF Step, Quiet, Deleting
<1>5. TypeInv' /\ OneCloses' /\ Waiting' /\ Deleting'
  BY <1>1, <1>2, <1>3, <1>4, GoesOn DEF Places
<1>6. \A place \in Places \ {"none"} : /\ SomeAt(place) <=> place = "close"
                                       /\ SomeAt(place)' <=> place = to
  BY <1>1, <1>2, Moves DEF Places
<1>7. Descriptors' /\ ~ misuse'
  <2>1. CASE to = "state"
    BY <2>1, <1>1, <1>2, <1>6 DEF Quiet, Descriptors, Places
  <2>2. CASE to = "forget"
    <3>1. tcp_sock \in Fds /\ tcp_sock # 0 /\ owner[tcp_sock] = "client"
      BY <2>2, <1>1, <1>6 DEF Quiet, TypeInv, Descriptors, Places
    <3>2. owner'[tcp_sock] = "free" /\ \A fd \in Fds \ {tcp_sock} : owner'[fd] = owner[fd]
      BY <2>2, <3>1, <1>2 DEF Quiet, TypeInv
    <3>3. ~ misuse'
      BY <2>2, <3>1, <1>2 DEF Quiet
    <3>4. SomeAt("forget")' /\ ~ SomeAt("state")'
      BY <2>2, <1>6 DEF Places
    <3> QED BY <3>1, <3>2, <3>3, <3>4, <1>2 DEF Quiet, Descriptors
  <2> QED BY <2>1, <2>2, <1>1
<1>8. Sessions'
  BY <1>1, <1>2, <1>6 DEF Quiet, Sessions, Places
<1> QED BY <1>5, <1>7, <1>8 DEF Quiet

\* The field of the closed descriptor is cleared.
LEMMA CloseForgetsKeeps ==
    ASSUME Quiet, NEW t \in Threads, CloseForgets(t)
    PROVE  Quiet'
<1>1. Step(t, "forget", "state") /\ tcp_sock' = 0
  BY DEF CloseForgets, ForgetsSock
<1>2. UNCHANGED <<pc, running, conn_state, kcp, relink_count, slots, in_queue,
                  loops, calls, owner, others, freed, misuse>>
  BY DEF CloseForgets, system
<1>3. t = "main" => kcp = 0
  BY <1>1 DEF Step, Quiet, Deleting
<1>4. TypeInv' /\ OneCloses' /\ Waiting' /\ Deleting'
  BY <1>1, <1>2, <1>3, GoesOn DEF Places, Quiet, TypeInv
<1>5. \A place \in Places \ {"none"} : /\ SomeAt(place) <=> place = "forget"
                                       /\ SomeAt(place)' <=> place = "state"
  BY <1>1, <1>2, Moves DEF Places
<1>6. Descriptors'
  BY <1>1, <1>2, <1>5 DEF Quiet, Descriptors, Places
<1>7. Sessions'
  BY <1>1, <1>2, <1>5 DEF Quiet, Sessions, Places
<1> QED BY <1>2, <1>4, <1>6, <1>7 DEF Quiet

\* conn_state_ is reset, and InnerClose returns.
LEMMA CloseEndsKeeps ==
    ASSUME Quiet, NEW t \in Threads, CloseEnds(t)
    PROVE  Quiet'
<1>1. /\ close[t].at = "state" /\ close' = [close EXCEPT ![t] = NoClose]
      /\ conn_state' = "init"
      /\ UNCHANGED <<pc, running, tcp_sock, kcp, relink_count, slots, in_queue,
                     loops, calls, owner, others, freed, misuse>>
  BY DEF CloseEnds, system
<1>2. close[t] # NoClose /\ tcp_sock = 0
  BY <1>1 DEF NoClose, Quiet, Descriptors, SomeAt
<1>3. \A u \in Threads : close'[u] = NoClose
  BY <1>1, <1>2, OneAlone DEF Quiet, TypeInv
<1>4. \A place \in Places \ {"none"} : /\ SomeAt(place) <=> place = "state"
                                       /\ ~ SomeAt(place)'
  BY <1>1, <1>2, <1>3, OneAlone DEF SomeAt, NoClose
<1>5. TypeInv'
  BY <1>1 DEF Quiet, TypeInv, NoClose, Places
<1>6. OneCloses' /\ Waiting'
  BY <1>1, <1>2, <1>3 DEF Quiet, OneCloses, Waiting, Threads
<1>7. Descriptors' /\ Sessions'
  BY <1>1, <1>2, <1>4 DEF Quiet, Descriptors, Sessions, Places
<1>8. Deleting'
  <2>1. CASE t = "net"
    BY <2>1, <1>1, <1>2, <1>3 DEF Quiet, OneCloses, Deleting, NoClose, Threads
  <2>2. CASE t = "main"
    BY <2>2, <1>1, <1>2, <1>3 DEF Quiet, Deleting, NoClose, Threads
  <2> QED BY <2>1, <2>2 DEF Threads
<1> QED BY <1>1, <1>5, <1>6, <1>7, <1>8 DEF Quiet

\* Every step of InnerClose, on either thread.
LEMMA InnerCloseKeeps ==
    ASSUME Quiet, NEW t \in Threads, InnerClose(t)
    PROVE  Quiet'
BY CloseBeginsKeeps, CloseReleasesKeeps, CloseNullsKeeps, CloseStopsLoopKeeps,
   CloseSocketKeeps, CloseForgetsKeeps, CloseEndsKeeps DEF InnerClose
-----------------------------------------------------------------------------
(* The net thread                                                          *)

\* While no thread is in InnerClose none is at a place of it.
LEMMA NobodyCloses ==
    ASSUME \A u \in Threads : close[u] = NoClose
    PROVE  \A place \in Places \ {"none"} : ~ SomeAt(place)
BY DEF SomeAt, NoClose

\* The net thread, out of InnerClose and not ended, is alone.
LEMMA NetAlone ==
    ASSUME Quiet, close["net"] = NoClose, pc["net"] \notin {"none", "done"}
    PROVE  /\ \A u \in Threads : close[u] = NoClose
           /\ pc["main"] # "deleted"
           /\ \A place \in Places \ {"none"} : ~ SomeAt(place)
BY NobodyCloses DEF Quiet, OneCloses, Threads

\* The net thread begins InnerClose, or goes on without.
LEMMA NetCloses ==
    ASSUME Quiet, close["net"] = NoClose, pc["net"] \notin {"none", "done"},
           NEW reason \in Int, close' \in {close, [close EXCEPT !["net"] = [at |-> "begin", reason |-> reason]]},
           pc' \in [Threads -> {"idle", "block", "join", "deleted",
                                "none", "start", "loop", "drain", "relink", "done"}],
           pc'["main"] = pc["main"],
           pc'["net"] = "done" => close' = close,
           pc'["net"] \in {"loop", "drain", "relink", "done"}
    PROVE  /\ close' \in [Threads -> [at : Places, reason : Int]]
           /\ \A t \in Threads : close'[t].at = "none" => close'[t] = NoClose
           /\ OneCloses'
           /\ Deleting'
           /\ \A place \in Places \ {"none", "begin"} : ~ SomeAt(place)'
<1>1. /\ \A u \in Threads : close[u] = NoClose
      /\ pc["main"] # "deleted"
      /\ close \in [Threads -> [at : Places, reason : Int]]
  BY NetAlone DEF Quiet, TypeInv
<1>2. close' \in [Threads -> [at : Places, reason : Int]]
  BY <1>1 DEF Places
<1>3. close'["main"] = NoClose /\ (close'["net"] = NoClose \/ close'["net"].at = "begin")
  BY <1>1 DEF Threads
<1>4. close'["net"] # NoClose => close' # close
  BY <1>1 DEF Threads
<1>5. OneCloses' /\ Deleting'
  BY <1>1, <1>3, <1>4 DEF OneCloses, Deleting, NoClose
<1>6. \A t \in Threads : close'[t].at = "none" => close'[t] = NoClose
  BY <1>3 DEF NoClose, Threads
<1>7. \A place \in Places \ {"none", "begin"} : ~ SomeAt(place)'
  BY <1>3 DEF SomeAt, NoClose, Threads
<1> QED BY <1>2, <1>5, <1>6, <1>7

\* Passes of the loop that open no socket.
LEMMA PassKeeps ==
    ASSUME Quiet, NetStart \/ NetEnds \/ NetIdle \/ NetError \/ NetDrained \/ NetNoRelink
    PROVE  Quiet'
<1>1. /\ close["net"] = NoClose /\ pc["net"] \in {"start", "loop", "drain", "relink"}
      /\ UNCHANGED <<conn_state, tcp_sock, kcp, in_queue, calls, owner, freed, misuse>>
      /\ close' \in {close, [close EXCEPT !["net"] = [at |-> "begin", reason |-> CLIENT_CONNECT_ERROR]]}
      /\ \E to \in {"loop", "drain", "relink", "done"} :
            /\ pc' = [pc EXCEPT !["net"] = to]
            /\ to = "done" => close' = close
            /\ to = "relink" => in_queue = <<>>
      /\ close' # close => tcp_sock # 0
  BY DEF NetStart, NetEnds, NetIdle, NetError, NetDrained, NetNoRelink, Goto, At, Calls,
         object, system
<1>2. PICK to \in {"loop", "drain", "relink", "done"} : pc' = [pc EXCEPT !["net"] = to]
                                                       /\ (to = "done" => close' = close)
                                                       /\ (to = "relink" => in_queue = <<>>)
  BY <1>1
<1>3. /\ pc' \in [Threads -> {"idle", "block", "join", "deleted",
                               "none", "start", "loop", "drain", "relink", "done"}]
      /\ pc'["main"] = pc["main"] /\ pc'["net"] = to
  BY <1>2 DEF Quiet, TypeInv, Threads
<1>4. /\ close' \in [Threads -> [at : Places, reason : Int]]
      /\ \A t \in Threads : close'[t].at = "none" => close'[t] = NoClose
      /\ OneCloses'
      /\ Deleting'
      /\ \A place \in Places \ {"none", "begin"} : ~ SomeAt(place)'
  BY <1>1, <1>2, <1>3, NetCloses DEF CLIENT_CONNECT_ERROR
<1>5. \A place \in Places \ {"none"} : ~ SomeAt(place)
  BY <1>1, NetAlone
<1>6. TypeInv'
  BY <1>1, <1>3, <1>4 DEF Quiet, TypeInv
<1>7. Waiting'
  <2> SUFFICES ASSUME NEW k \in 1 .. Len(in_queue), in_queue[k] = "connect"
               PROVE  /\ k = 1 /\ tcp_sock = 0 /\ conn_state = "init"
                      /\ pc'["net"] \in {"start", "loop", "drain", "done"}
                      /\ close'["net"] = NoClose
    BY <1>1, <1>3 DEF Quiet, Waiting
  <2>1. k = 1 /\ tcp_sock = 0 /\ conn_state = "init" /\ close["net"] = NoClose /\ in_queue # <<>>
    BY DEF Quiet, Waiting
  <2> QED BY <2>1, <1>1, <1>2, <1>3
<1>8. Descriptors' /\ Sessions'
  BY <1>1, <1>4, <1>5 DEF Quiet, Descriptors, Sessions, Places
<1> QED BY <1>1, <1>4, <1>6, <1>7, <1>8 DEF Quiet

\* A login adds the session to a connection that is being set up.
LEMMA NetLoginKeeps ==
    ASSUME Quiet, NetLogin
    PROVE  Quiet'
<1>1. /\ close["net"] = NoClose /\ pc["net"] = "loop" /\ tcp_sock # 0
      /\ UNCHANGED <<close, tcp_sock, in_queue, calls, owner, freed, misuse>>
      /\ pc' = [pc EXCEPT !["net"] = "drain"]
      /\ conn_state' = "logic"
      /\ kcp' = IF kcp # 0 THEN kcp ELSE Cardinality(freed) + 1
  BY DEF NetLogin, Goto, At, system
<1>2. /\ pc' \in [Threads -> {"idle", "block", "join", "deleted",
                               "none", "start", "loop", "drain", "relink", "done"}]
      /\ pc'["main"] = pc["main"] /\ pc'["net"] = "drain"
  BY <1>1 DEF Quiet, TypeInv, Threads
<1>3. /\ pc["main"] # "deleted"
      /\ \A u \in Threads : close[u] = NoClose
      /\ \A place \in Places \ {"none"} : ~ SomeAt(place) /\ ~ SomeAt(place)'
  BY <1>1, NetAlone, NobodyCloses DEF SomeAt
<1>4. TypeInv'
  BY <1>1, <1>2 DEF Quiet, TypeInv, Sessions
<1>5. OneCloses' /\ Deleting'
  BY <1>1, <1>2, <1>3 DEF OneCloses, Deleting, NoClose, Threads
<1>6. Waiting'
  BY <1>1, <1>2 DEF Quiet, Waiting
<1>7. Descriptors' /\ Sessions'
  BY <1>1, <1>3 DEF Quiet, Descriptors, Sessions, Places
<1> QED BY <1>1, <1>4, <1>5, <1>6, <1>7 DEF Quiet

\* An idle client opens a socket, or fails to and closes.
LEMMA InnerConnectFact ==
    ASSUME Quiet, close["net"] = NoClose, pc["net"] \notin {"none", "done"},
           conn_state = "init", InnerConnect
    PROVE  /\ tcp_sock = 0
           /\ conn_state' \in {"init", "connecting"}
           /\ tcp_sock' \in Fds \cup {0}
           /\ owner' \in [Fds -> {"free", "client", "other"}]
           /\ \A fd \in Fds : owner'[fd] = "client" => fd = tcp_sock'
           /\ tcp_sock' # 0 => owner'[tcp_sock'] = "client"
           /\ conn_state' = "init" => tcp_sock' = 0
           /\ close' \in {close, [close EXCEPT !["net"] = [at |-> "begin", reason |-> CLIENT_CONNECT_ERROR]]}
<1>1. tcp_sock = 0 /\ \A fd \in Fds : owner[fd] # "client"
  BY ThreadsAssumption DEF Quiet, Descriptors
<1>2. owner \in [Fds -> {"free", "client", "other"}]
  BY DEF Quiet, TypeInv
<1>3. CASE Free # {} /\ tcp_sock' = Min(Free) /\ owner' = [owner EXCEPT ![Min(Free)] = "client"]
           /\ conn_state' = "connecting" /\ close' = close
  <2> DEFINE m == Min(Free)
  <2>1. m \in Fds
    BY <1>3, LowestFree
  <2>2. tcp_sock' = m /\ owner' = [owner EXCEPT ![m] = "client"]
    BY <1>3
  <2> HIDE DEF m
  <2> QED BY <1>1, <1>2, <1>3, <2>1, <2>2
<1>4. CASE tcp_sock' = 0 /\ Calls("net", CLIENT_CONNECT_ERROR) /\ UNCHANGED <<owner, conn_state>>
  BY <1>1, <1>2, <1>4 DEF Calls
<1> QED BY <1>3, <1>4 DEF InnerConnect

\* The request to connect is run, or CheckRelink connects again.
LEMMA ConnectsKeeps ==
    ASSUME Quiet, RunConnect \/ NetRelink
    PROVE  Quiet'
<1>1. /\ close["net"] = NoClose /\ pc["net"] \in {"drain", "relink"}
      /\ InnerConnect
      /\ UNCHANGED <<kcp, calls, freed, misuse>>
      /\ \/ /\ pc["net"] = "drain" /\ in_queue # <<>> /\ Head(in_queue) = "connect"
            /\ in_queue' = Tail(in_queue) /\ pc' = pc
         \/ /\ pc["net"] = "relink" /\ conn_state = "init"
            /\ in_queue' = in_queue /\ pc' = [pc EXCEPT !["net"] = "loop"]
  BY DEF RunConnect, NetRelink, Goto, At
<1>2. /\ in_queue \in Seq({"connect", "close"})
      /\ in_queue # <<>> => /\ Len(in_queue) > 0 /\ in_queue[1] = Head(in_queue)
                            /\ Tail(in_queue) \in Seq({"connect", "close"})
                            /\ Len(Tail(in_queue)) = Len(in_queue) - 1
                            /\ \A k \in 1 .. Len(Tail(in_queue)) : Tail(in_queue)[k] = in_queue[k + 1]
  BY HeadTailProperties DEF Quiet, TypeInv
<1>3. conn_state = "init"
  <2>1. CASE pc["net"] = "relink"
    BY <2>1, <1>1
  <2>2. CASE pc["net"] = "drain"
    <3>1. 1 \in 1 .. Len(in_queue) /\ in_queue[1] = "connect"
      BY <2>2, <1>1, <1>2
    <3> QED BY <3>1 DEF Quiet, Waiting
  <2> QED BY <2>1, <2>2, <1>1
<1>4. /\ conn_state' \in {"init", "connecting"}
      /\ tcp_sock' \in Fds \cup {0}
      /\ owner' \in [Fds -> {"free", "client", "other"}]
      /\ \A fd \in Fds : owner'[fd] = "client" => fd = tcp_sock'
      /\ tcp_sock' # 0 => owner'[tcp_sock'] = "client"
      /\ conn_state' = "init" => tcp_sock' = 0
      /\ close' \in {close, [close EXCEPT !["net"] = [at |-> "begin", reason |-> CLIENT_CONNECT_ERROR]]}
  BY <1>1, <1>3, InnerConnectFact
<1>5. /\ pc' \in [Threads -> {"idle", "block", "join", "deleted",
                               "none", "start", "loop", "drain", "relink", "done"}]
      /\ pc'["main"] = pc["main"] /\ pc'["net"] \in {"loop", "drain"}
  BY <1>1 DEF Quiet, TypeInv, Threads
<1>6. /\ close' \in [Threads -> [at : Places, reason : Int]]
      /\ \A t \in Threads : close'[t].at = "none" => close'[t] = NoClose
      /\ OneCloses'
      /\ Deleting'
      /\ \A place \in Places \ {"none", "begin"} : ~ SomeAt(place)'
  BY <1>1, <1>4, <1>5, NetCloses DEF CLIENT_CONNECT_ERROR
<1>7. \A place \in Places \ {"none"} : ~ SomeAt(place)
  BY <1>1, NetAlone
<1>8. \A k \in 1 .. Len(in_queue') : in_queue'[k] # "connect"
  <2>1. CASE pc["net"] = "relink"
    BY <2>1, <1>1 DEF Quiet, Waiting
  <2>2. CASE pc["net"] = "drain"
    <3>1. \A k \in 2 .. Len(in_queue) : in_queue[k] # "connect"
      BY DEF Quiet, Waiting
    <3>2. in_queue' = Tail(in_queue) /\ in_queue # <<>>
      BY <2>2, <1>1
    <3>3. ASSUME NEW k \in 1 .. Len(in_queue') PROVE in_queue'[k] # "connect"
      <4>1. k + 1 \in 2 .. Len(in_queue) /\ in_queue'[k] = in_queue[k + 1]
        BY <3>2, <1>2
      <4> QED BY <3>1, <4>1
    <3> QED BY <3>3
  <2> QED BY <2>1, <2>2, <1>1
<1>9. in_queue' \in Seq({"connect", "close"})
  BY <1>1, <1>2
<1>10. TypeInv'
  BY <1>1, <1>4, <1>5, <1>6, <1>9 DEF Quiet, TypeInv
<1>11. Waiting'
  BY <1>1, <1>8 DEF Quiet, Waiting
<1>12. Descriptors' /\ Sessions'
  BY <1>1, <1>4, <1>6, <1>7 DEF Quiet, Descriptors, Sessions, Places
<1> QED BY <1>1, <1>6, <1>10, <1>11, <1>12 DEF Quiet

\* A request to close that is taken from the queue starts InnerClose.
LEMMA RunCloseKeeps ==
    ASSUME Quiet, RunClose
    PROVE  Quiet'
<1>1. /\ close["net"] = NoClose /\ pc["net"] = "drain"
      /\ in_queue # <<>> /\ Head(in_queue) = "close" /\ in_queue' = Tail(in_queue)
      /\ close' = [close EXCEPT !["net"] = [at |-> "begin", reason |-> -1]]
      /\ UNCHANGED <<pc, conn_state, tcp_sock, kcp, calls, owner, freed, misuse>>
  BY DEF RunClose, At, Calls, object, system
<1>2. /\ Len(in_queue) > 0 /\ in_queue[1] = "close"
      /\ in_queue' \in Seq({"connect", "close"})
      /\ Len(in_queue') = Len(in_queue) - 1
      /\ \A k \in 1 .. Len(in_queue') : in_queue'[k] = in_queue[k + 1]
  BY <1>1, HeadTailProperties DEF Quiet, TypeInv
<1>3. \A k \in 1 .. Len(in_queue) : in_queue[k] # "connect"
  BY <1>2 DEF Quiet, Waiting
<1>4. /\ close' \in [Threads -> [at : Places, reason : Int]]
      /\ \A t \in Threads : close'[t].at = "none" => close'[t] = NoClose
      /\ OneCloses'
      /\ Deleting'
      /\ \A place \in Places \ {"none", "begin"} : ~ SomeAt(place)'
  <2>1. /\ pc' = pc /\ pc \in [Threads -> {"idle", "block", "join", "deleted",
                                             "none", "start", "loop", "drain", "relink", "done"}]
        /\ pc'["net"] = "drain" /\ -1 \in Int
    BY <1>1 DEF Quiet, TypeInv
  <2> QED BY <1>1, <2>1, NetCloses
<1>5. \A place \in Places \ {"none"} : ~ SomeAt(place)
  BY <1>1, NetAlone
<1>6. TypeInv'
  BY <1>1, <1>2, <1>4 DEF Quiet, TypeInv
<1>7. Waiting'
  <2>1. \A k \in 1 .. Len(in_queue') : in_queue'[k] # "connect"
    BY <1>2, <1>3
  <2> QED BY <2>1, <1>1 DEF Quiet, Waiting
<1>8. Descriptors' /\ Sessions'
  BY <1>1, <1>4, <1>5 DEF Quiet, Descriptors, Sessions, Places
<1> QED BY <1>1, <1>4, <1>6, <1>7, <1>8 DEF Quiet

\* Every step of the net thread.
LEMMA NetKeeps ==
    ASSUME Quiet, Net
    PROVE  Quiet'
BY PassKeeps, NetLoginKeeps, ConnectsKeeps, RunCloseKeeps, InnerCloseKeeps DEF Net, Threads
-----------------------------------------------------------------------------
(* The main thread, and the rest of the process                            *)

\* The program asks to connect, once: the net thread is started.
LEMMA EnqueuesKeeps ==
    ASSUME Quiet, NEW to \in {"idle", "block"}, Enqueues(to),
           UNCHANGED <<close, conn_state, tcp_sock, kcp, owner, freed, misuse>>
    PROVE  Quiet'
<1>1. /\ pc["main"] = "idle" /\ calls = 0 /\ pc["net"] = "none" /\ in_queue = <<>>
      /\ close["net"] = NoClose /\ close["main"] = NoClose
      /\ calls' = 1 /\ in_queue' = <<"connect">>
  BY AppendProperties DEF Enqueues, At, Quiet, Waiting, OneCloses
<1>2. /\ pc' \in [Threads -> {"idle", "block", "join", "deleted",
                               "none", "start", "loop", "drain", "relink", "done"}]
      /\ pc'["main"] = to /\ pc'["net"] = "start"
  BY <1>1 DEF Enqueues, Quiet, TypeInv, Threads
<1>3. tcp_sock = 0 /\ conn_state = "init"
  BY <1>1 DEF Quiet, Waiting, Descriptors
<1>4. TypeInv'
  BY <1>1, <1>2 DEF Quiet, TypeInv
<1>5. OneCloses' /\ Deleting'
  BY <1>1, <1>2 DEF OneCloses, Deleting, NoClose
<1>6. Waiting'
  BY <1>1, <1>2, <1>3 DEF Waiting
<1>7. Descriptors' /\ Sessions'
  BY DEF Quiet, Descriptors, Sessions, SomeAt
<1> QED BY <1>4, <1>5, <1>6, <1>7 DEF Quiet

\* The turns of ConnectBlock, the relink vector, and the destructor's beginning.
LEMMA TurnKeeps ==
    ASSUME Quiet, BlockTurn \/ BlockEnds \/ AddRelinkInterval \/ ClearRelinkInterval \/ DeleteBegins
    PROVE  Quiet'
<1>1. /\ pc["main"] \in {"idle", "block"} /\ close["main"] = NoClose
      /\ \E to \in {"idle", "block", "join"} : pc' = [pc EXCEPT !["main"] = to]
      /\ UNCHANGED <<close, conn_state, tcp_sock, kcp, in_queue, calls, owner, freed, misuse>>
  <2>1. pc \in [Threads -> {"idle", "block", "join", "deleted",
                            "none", "start", "loop", "drain", "relink", "done"}]
    BY DEF Quiet, TypeInv
  <2>2. pc["main"] \in {"idle", "block", "join"} => pc = [pc EXCEPT !["main"] = pc["main"]]
    BY <2>1
  <2> QED BY <2>1, <2>2 DEF BlockTurn, BlockEnds, AddRelinkInterval, ClearRelinkInterval,
      DeleteBegins,
                   Goto, At, object, system
<1>2. /\ pc' \in [Threads -> {"idle", "block", "join", "deleted",
                               "none", "start", "loop", "drain", "relink", "done"}]
      /\ pc'["main"] \in {"idle", "block", "join"} /\ pc'["net"] = pc["net"]
  BY <1>1 DEF Quiet, TypeInv, Threads
<1>3. TypeInv'
  BY <1>1, <1>2 DEF Quiet, TypeInv
<1>4. OneCloses' /\ Deleting'
  BY <1>1, <1>2 DEF Quiet, OneCloses, Deleting, NoClose
<1>5. Waiting'
  BY <1>1, <1>2 DEF Quiet, Waiting
<1>6. Descriptors' /\ Sessions'
  BY <1>1 DEF Quiet, Descriptors, Sessions, SomeAt
<1> QED BY <1>1, <1>3, <1>4, <1>5, <1>6 DEF Quiet

\* A request to close waits behind what is queued.
LEMMA CloseKeeps ==
    ASSUME Quiet, Close
    PROVE  Quiet'
<1>1. /\ calls' = 2 /\ in_queue' = Append(in_queue, "close")
      /\ UNCHANGED <<pc, close, conn_state, tcp_sock, kcp, owner, freed, misuse>>
  BY DEF Close, object, system
<1>2. /\ in_queue \in Seq({"connect", "close"})
      /\ in_queue' \in Seq({"connect", "close"})
      /\ \A k \in 1 .. Len(in_queue') : in_queue'[k] = "connect" =>
            k \in 1 .. Len(in_queue) /\ in_queue[k] = "connect"
  BY <1>1, AppendProperties DEF Quiet, TypeInv
<1>3. TypeInv' /\ OneCloses' /\ Deleting'
  BY <1>1, <1>2 DEF Quiet, TypeInv, OneCloses, Deleting
<1>4. Waiting'
  BY <1>1, <1>2 DEF Quiet, Waiting
<1>5. Descriptors' /\ Sessions'
  BY <1>1 DEF Quiet, Descriptors, Sessions, SomeAt
<1> QED BY <1>1, <1>3, <1>4, <1>5 DEF Quiet

\* The destructor closes when the net thread has ended, or was never there.
LEMMA DeleteJoinsKeeps ==
    ASSUME Quiet, DeleteJoins
    PROVE  Quiet'
<1>1. /\ pc["net"] \in {"none", "done"} /\ close["main"] = NoClose /\ pc["main"] = "join"
      /\ pc' = [pc EXCEPT !["main"] = "deleted"]
      /\ close' = [close EXCEPT !["main"] = [at |-> "begin", reason |-> -1]]
      /\ UNCHANGED <<conn_state, tcp_sock, kcp, in_queue, calls, owner, freed, misuse>>
  BY DEF DeleteJoins, Joined, Goto, At, Calls, object, system
<1>2. close["net"] = NoClose
  BY <1>1 DEF Quiet, OneCloses
<1>3. pc'["main"] = "deleted" /\ pc'["net"] = pc["net"]
  BY <1>1 DEF Quiet, TypeInv, Threads
<1>4. /\ close'["net"] = NoClose
      /\ close'["main"].at = "begin" /\ close'["main"].reason = -1 /\ close'["main"] # NoClose
  BY <1>1, <1>2 DEF Quiet, TypeInv, Threads, NoClose
<1>5. close' \in [Threads -> [at : Places, reason : Int]]
  <2>1. [at |-> "begin", reason |-> -1] \in [at : Places, reason : Int]
    BY DEF Places
  <2> QED BY <2>1, <1>1 DEF Quiet, TypeInv
<1>6. TypeInv'
  BY <1>1, <1>4, <1>5 DEF Quiet, TypeInv, Threads
<1>7. OneCloses' /\ Deleting'
  BY <1>1, <1>3, <1>4 DEF OneCloses, Deleting
<1>8. Waiting'
  BY <1>1, <1>2, <1>3, <1>4 DEF Quiet, Waiting
<1>9. \A place \in Places \ {"none", "begin"} : ~ SomeAt(place) /\ ~ SomeAt(place)'
  BY <1>1, <1>2, <1>4 DEF SomeAt, NoClose, Threads
<1>10. Descriptors' /\ Sessions'
  BY <1>1, <1>9 DEF Quiet, Descriptors, Sessions, Places
<1> QED BY <1>1, <1>6, <1>7, <1>8, <1>10 DEF Quiet

\* Another part of the process is given a descriptor that was free.
LEMMA OtherOpensKeeps ==
    ASSUME Quiet, OtherOpens
    PROVE  Quiet'
<1> DEFINE m == Min(Free)
<1>1. m \in Fds /\ owner[m] = "free"
  BY LowestFree DEF OtherOpens
<1>2. /\ owner' = [owner EXCEPT ![m] = "other"]
      /\ UNCHANGED <<pc, close, conn_state, tcp_sock, kcp, in_queue, calls, freed, misuse>>
  BY DEF OtherOpens, object
<1> HIDE DEF m
<1>3. TypeInv' /\ OneCloses' /\ Deleting' /\ Waiting'
  BY <1>1, <1>2 DEF Quiet, TypeInv, OneCloses, Deleting, Waiting
<1>4. Descriptors' /\ Sessions'
  BY <1>1, <1>2 DEF Quiet, TypeInv, Descriptors, Sessions, SomeAt
<1> QED BY <1>2, <1>3, <1>4 DEF Quiet

\* What a step does that is not SwitchNetwork's.
LEMMA StepKeeps == IInv /\ [Next]_vars => IInv'
<1> SUFFICES ASSUME IInv, [Next]_vars, ~ switched' PROVE Quiet'
  BY DEF IInv
<1>1. CASE UNCHANGED vars
  <2>1. Quiet
    BY <1>1 DEF IInv, vars, history
  <2> QED BY <1>1, <2>1 DEF vars, object, system, Quiet, TypeInv, OneCloses, Waiting,
                    Descriptors, Sessions, Deleting, SomeAt
<1>2. CASE Net
  <2>1. Quiet
    BY <1>2 DEF IInv, history, Net, NetStart, NetEnds, NetIdle, NetLogin, NetError, RunConnect,
                RunClose, NetDrained, NetNoRelink, NetRelink, InnerClose, CloseBegins,
                CloseReleases, CloseNulls, CloseStopsLoop, CloseSocket, CloseForgets, CloseEnds
  <2> QED BY <1>2, <2>1, NetKeeps
<1>3. CASE Main
  <2>1. ~ SwitchNetwork
    BY DEF SwitchNetwork
  <2>2. Quiet
    BY <1>3, <2>1 DEF IInv, history, Main, Connect, ConnectBlock, BlockTurn, BlockEnds, Close,
                AddRelinkInterval, ClearRelinkInterval, DeleteBegins, DeleteJoins, InnerClose,
                CloseBegins, CloseReleases, CloseNulls, CloseStopsLoop, CloseSocket,
                CloseForgets, CloseEnds
  <2>3. CASE Connect \/ ConnectBlock
    BY <2>2, <2>3, EnqueuesKeeps DEF Connect, ConnectBlock, object, system
  <2>4. CASE InnerClose("main")
    BY <2>2, <2>4, InnerCloseKeeps DEF Threads
  <2> QED BY <1>3, <2>1, <2>2, <2>3, <2>4, TurnKeeps, CloseKeeps, DeleteJoinsKeeps DEF Main
<1>4. CASE OtherOpens
  <2>1. Quiet
    BY <1>4 DEF IInv, history, OtherOpens
  <2> QED BY <1>4, <2>1, OtherOpensKeeps
<1> QED BY <1>1, <1>2, <1>3, <1>4 DEF Next

\* Until the program calls SwitchNetwork the two threads never close at once,
\* and fields, descriptors and sessions agree (conn_client.cpp, InnerClose).
THEOREM Invariant == Spec => []IInv
<1>1. Init => IInv
  BY InitQuiet DEF IInv
<1> QED BY <1>1, StepKeeps, PTL DEF Spec

\* No descriptor of another is closed and no session is released twice, as
\* long as SwitchNetwork is not called, however the process's descriptors are
\* reused meanwhile.
THEOREM OwnOnly == Spec => []NoMisuse
<1>1. IInv => NoMisuse
  BY DEF IInv, Quiet, NoMisuse
<1> QED BY <1>1, Invariant, PTL

\* The destructor's close finds all there is: neither a session nor a
\* descriptor of the client survives it.
THEOREM NothingLeft == Spec => []DeletedClean
<1>1. IInv => DeletedClean
  BY ThreadsAssumption DEF IInv, Quiet, Deleting, Descriptors, DeletedClean
<1> QED BY <1>1, Invariant, PTL
\* In the composition that the run checks too no descriptor of another is closed and no session is
\* released twice before SwitchNetwork, and the destructor leaves nothing.
THEOREM BothThreads == MCSpec => [](NoMisuse /\ DeletedClean)
<1>1. MCInit => IInv
  BY InitQuiet DEF MCInit, IInv
<1>2. IInv /\ [MCNext]_all => IInv'
  BY StepKeeps DEF MCNext, all
<1>3. IInv => NoMisuse /\ DeletedClean
  BY ThreadsAssumption DEF IInv, Quiet, Deleting, Descriptors, DeletedClean, NoMisuse
<1> QED BY <1>1, <1>2, <1>3, PTL DEF MCSpec

-----------------------------------------------------------------------------
(* The calls below a flush (KcpReentry), alone and in the composition.     *)

\* The calls on the stack.
CloseFrames == [op : {"close"}, at : {"flush", "release", "sockets"}, reason : Int]
FlushFrames == [op : {"flush"}, at : {"start", "acks", "segs", "dups", "end"},
                count : Nat, dups : Nat, size : 0 .. PerPacket]
Frames == CloseFrames \cup FlushFrames
Blocks == [acks : 0 .. MaxAcks, due : 0 .. MaxDue, dups : 0 .. MaxDups, live : BOOLEAN]

CallTypeInv ==
    /\ stack \in Seq(Frames)
    /\ session \in Blocks
    /\ session_ \in BOOLEAN /\ more \in BOOLEAN
    /\ frees \in Nat

\* The block is released with the pointer.
Owned == IF session_ THEN session.live /\ frees = 0 ELSE ~ session.live /\ frees = 1

\* A close calls only flush; a flush calls only a close, for an error.
Alternate ==
    \A k \in 1 .. Len(stack) - 1 :
        /\ stack[k].op = "close" => stack[k + 1].op = "flush"
        /\ stack[k].op = "flush" => /\ stack[k + 1].op = "close"
                                    /\ stack[k + 1].reason = Calling!CLIENT_CONNECT_ERROR

\* What comes to the release is final: by its own reason while attempts are left.
Final ==
    \A k \in 1 .. Len(stack) :
        stack[k].op = "close" /\ stack[k].at = "release" /\ more => Calling!IsFinal(stack[k].reason)

CallInv == CallTypeInv /\ Owned /\ Alternate /\ Final

(* What bounds the depth.                                                  *)

\* One packet holds all the acknowledgements a flush finds: the assumption
\* under which the depth is bounded.
OnePacket == MaxAcks <= PerPacket

\* What flush has left to mark.
Left == session.due + session.dups
Most == MaxDue + MaxDups

\* The flush has marked something since it began, or began among the first two.
Consumed(k) ==
    \/ k < Len(stack)
    \/ stack[k].size > 0
    \/ stack[k].at = "dups" /\ stack[k].dups > session.dups

Slack(k) == IF stack[k].op = "close" THEN 3 ELSE IF Consumed(k) THEN 2 ELSE 4

\* A flush is deeper by two than the flush below it, which has marked
\* something the deeper one does not find any more.
Deep == \A k \in 1 .. Len(stack) : k + 2 * Left <= 2 * Most + Slack(k)

\* Acknowledgements are put out by the first flush, in one packet.
FirstAcks ==
    /\ session.acks > 0 => \A k \in 1 .. Len(stack) :
            stack[k].op = "flush" => stack[k].at \in {"start", "acks"}
    /\ \A k \in 1 .. Len(stack) : stack[k].op = "flush" =>
          /\ stack[k].at = "start" => k = Len(stack) /\ stack[k].size = 0
          /\ stack[k].at = "acks" =>
                /\ k = Len(stack)
                /\ stack[k].size + stack[k].count <= PerPacket
                /\ k > 2 => stack[k].size = 0 /\ stack[k].count = 0

DepthInv == Deep /\ FirstAcks
-----------------------------------------------------------------------------
(* The stack                                                               *)

\* What the top is when a call runs.
LEMMA TopFact ==
    ASSUME CallTypeInv, stack # <<>>
    PROVE  /\ Len(stack) \in Nat \ {0}
           /\ Calling!Top \in Frames
           /\ Calling!Top.op = "flush" => Calling!Top \in FlushFrames
           /\ Calling!Top.op = "close" => Calling!Top \in CloseFrames
<1>1. Len(stack) \in Nat \ {0} /\ Calling!Top \in Frames
  BY DEF CallTypeInv, Calling!Top
<1> QED BY <1>1 DEF Frames, CloseFrames, FlushFrames

\* All but the top.
LEMMA FrontFact ==
    ASSUME CallTypeInv, stack # <<>>
    PROVE  /\ Calling!Front(stack) \in Seq(Frames)
           /\ Len(Calling!Front(stack)) = Len(stack) - 1
           /\ \A k \in 1 .. Len(stack) - 1 : Calling!Front(stack)[k] = stack[k]
<1> DEFINE n == Len(stack)
<1>1. n \in Nat \ {0} /\ stack \in Seq(Frames)
  BY TopFact DEF CallTypeInv
<1>2. Calling!Front(stack) = SubSeq(stack, 1, n - 1)
  BY DEF Calling!Front
<1> HIDE DEF n
<1>3. \A k \in 1 .. n - 1 : stack[k] \in Frames
  BY <1>1 DEF n
<1>4. /\ SubSeq(stack, 1, n - 1) \in Seq(Frames)
      /\ Len(SubSeq(stack, 1, n - 1)) = IF 1 <= n - 1 THEN n - 1 - 1 + 1 ELSE 0
      /\ \A k \in 1 .. n - 1 - 1 + 1 : SubSeq(stack, 1, n - 1)[k] = stack[1 + k - 1]
  BY <1>1, <1>3, SubSeqProperties
<1>5. /\ Len(SubSeq(stack, 1, n - 1)) = n - 1
      /\ \A k \in 1 .. n - 1 : SubSeq(stack, 1, n - 1)[k] = stack[k]
  BY <1>1, <1>4
<1> QED BY <1>2, <1>4, <1>5 DEF n

\* The running call goes on, and may call another.
LEMMA BecomesFact ==
    ASSUME CallTypeInv, stack # <<>>, NEW frame \in Frames, NEW below \in Seq(Frames),
           Calling!Becomes(frame, below)
    PROVE  /\ stack' \in Seq(Frames)
           /\ Len(stack') = Len(stack) + Len(below)
           /\ stack'[Len(stack)] = frame
           /\ \A k \in 1 .. Len(stack) - 1 : stack'[k] = stack[k]
           /\ \A k \in 1 .. Len(below) : stack'[Len(stack) + k] = below[k]
<1> DEFINE n == Len(stack)
           p == Calling!Front(stack)
           q == p \o <<frame>>
<1>1. n \in Nat \ {0}
  BY TopFact
<1>2. p \in Seq(Frames) /\ Len(p) = n - 1 /\ \A k \in 1 .. n - 1 : p[k] = stack[k]
  BY FrontFact
<1>3. <<frame>> \in Seq(Frames) /\ Len(<<frame>>) = 1 /\ <<frame>>[1] = frame
  OBVIOUS
<1> HIDE DEF p, n
<1>4. q \in Seq(Frames) /\ Len(q) = n /\ q[n] = frame /\ \A k \in 1 .. n - 1 : q[k] = stack[k]
  <2>1. /\ q \in Seq(Frames) /\ Len(q) = (n - 1) + 1
        /\ \A k \in 1 .. (n - 1) + 1 : q[k] = IF k <= n - 1 THEN p[k] ELSE <<frame>>[k - (n - 1)]
    BY <1>1, <1>2, <1>3, ConcatProperties
  <2>2. n \in 1 .. (n - 1) + 1 /\ ~ (n <= n - 1) /\ n - (n - 1) = 1
    BY <1>1
  <2>3. \A k \in 1 .. n - 1 : k \in 1 .. (n - 1) + 1 /\ k <= n - 1
    BY <1>1
  <2> QED BY <1>1, <1>2, <1>3, <2>1, <2>2, <2>3
<1>5. stack' = q \o below
  BY DEF Calling!Becomes, p
<1> HIDE DEF q
<1>6. /\ q \o below \in Seq(Frames) /\ Len(q \o below) = n + Len(below)
      /\ \A k \in 1 .. n + Len(below) : (q \o below)[k] = IF k <= n THEN q[k] ELSE below[k - n]
  BY <1>1, <1>4, ConcatProperties
<1>7. Len(below) \in Nat
  OBVIOUS
<1>8. \A k \in 1 .. n : stack'[k] = q[k]
  BY <1>1, <1>5, <1>6, <1>7
<1>9. ASSUME NEW k \in 1 .. Len(below) PROVE stack'[n + k] = below[k]
  <2>1. n + k \in 1 .. n + Len(below) /\ ~ (n + k <= n) /\ (n + k) - n = k
    BY <1>1, <1>7
  <2> QED BY <1>5, <1>6, <2>1
<1>10. n \in 1 .. n /\ \A k \in 1 .. n - 1 : k \in 1 .. n
  BY <1>1
<1>11. stack'[n] = frame /\ \A k \in 1 .. n - 1 : stack'[k] = stack[k]
  BY <1>4, <1>8, <1>10
<1>12. stack' \in Seq(Frames) /\ Len(stack') = n + Len(below)
  BY <1>5, <1>6
<1> QED BY <1>9, <1>11, <1>12 DEF n

\* The running call goes on.
LEMMA GoesOnFact ==
    ASSUME CallTypeInv, stack # <<>>, NEW frame \in Frames, Calling!Becomes(frame, <<>>)
    PROVE  /\ stack' \in Seq(Frames)
           /\ Len(stack') = Len(stack)
           /\ stack'[Len(stack)] = frame
           /\ \A k \in 1 .. Len(stack) - 1 : stack'[k] = stack[k]
<1>1. <<>> \in Seq(Frames) /\ Len(<<>>) = 0
  OBVIOUS
<1>2. /\ stack' \in Seq(Frames)
      /\ Len(stack') = Len(stack) + 0
      /\ stack'[Len(stack)] = frame
      /\ \A k \in 1 .. Len(stack) - 1 : stack'[k] = stack[k]
  BY <1>1, BecomesFact
<1>3. Len(stack) \in Nat
  BY TopFact
<1> QED BY <1>2, <1>3

\* The running call calls another.
LEMMA CallsFact ==
    ASSUME CallTypeInv, stack # <<>>, NEW frame \in Frames, NEW call \in Frames,
           Calling!Becomes(frame, <<call>>)
    PROVE  /\ stack' \in Seq(Frames)
           /\ Len(stack') = Len(stack) + 1
           /\ stack'[Len(stack)] = frame
           /\ stack'[Len(stack) + 1] = call
           /\ \A k \in 1 .. Len(stack) - 1 : stack'[k] = stack[k]
<1>1. <<call>> \in Seq(Frames) /\ Len(<<call>>) = 1 /\ <<call>>[1] = call
  OBVIOUS
<1> DEFINE below == <<call>>
<1>2. below \in Seq(Frames) /\ Calling!Becomes(frame, below)
  BY <1>1
<1>3. Len(below) = 1 /\ below[1] = call
  BY <1>1
<1> HIDE DEF below
<1>4. /\ stack' \in Seq(Frames)
      /\ Len(stack') = Len(stack) + Len(below)
      /\ stack'[Len(stack)] = frame
      /\ \A k \in 1 .. Len(stack) - 1 : stack'[k] = stack[k]
      /\ \A k \in 1 .. Len(below) : stack'[Len(stack) + k] = below[k]
  BY <1>2, BecomesFact
<1>5. 1 \in 1 .. Len(below)
  BY <1>3
<1> QED BY <1>3, <1>4, <1>5
-----------------------------------------------------------------------------
(* What a step of flush does to the stack                                  *)

\* Flush goes on, or hands a packet to a send that fails and closes.
FlushStep(f, below) ==
    /\ stack # <<>> /\ Calling!Top.op = "flush"
    /\ f \in FlushFrames /\ below \in {<<>>, <<Calling!CloseCall(Calling!CLIENT_CONNECT_ERROR)>>}
    /\ Calling!Becomes(f, below)
    /\ session' \in Blocks /\ session'.live = session.live
    /\ UNCHANGED <<session_, more, frees>>

\* The stack after it.
LEMMA FlushStack ==
    ASSUME CallTypeInv, NEW f, NEW below, FlushStep(f, below)
    PROVE  /\ stack' \in Seq(Frames)
           /\ Len(stack) \in Nat \ {0}
           /\ stack[Len(stack)].op = "flush" /\ stack'[Len(stack)] = f /\ f.op = "flush"
           /\ \A k \in 1 .. Len(stack) - 1 : stack'[k] = stack[k]
           /\ below = <<>> => Len(stack') = Len(stack)
           /\ below # <<>> => /\ Len(stack') = Len(stack) + 1
                              /\ stack'[Len(stack) + 1].op = "close"
                              /\ stack'[Len(stack) + 1].at = "flush"
                              /\ stack'[Len(stack) + 1].reason = Calling!CLIENT_CONNECT_ERROR
<1>1. Len(stack) \in Nat \ {0} /\ stack[Len(stack)].op = "flush"
  BY TopFact DEF FlushStep, Calling!Top
<1>2. f \in Frames /\ f.op = "flush"
  BY DEF FlushStep, Frames, FlushFrames
<1>3. CASE below = <<>>
  BY <1>1, <1>2, <1>3, GoesOnFact DEF FlushStep
<1>4. CASE below = <<Calling!CloseCall(Calling!CLIENT_CONNECT_ERROR)>>
  <2> DEFINE c == Calling!CloseCall(Calling!CLIENT_CONNECT_ERROR)
  <2>1. c \in Frames /\ c.op = "close" /\ c.at = "flush" /\ c.reason = Calling!CLIENT_CONNECT_ERROR
    BY DEF Calling!CloseCall, Frames, CloseFrames, Calling!CLIENT_CONNECT_ERROR
  <2>2. stack # <<>> /\ Calling!Becomes(f, <<c>>) /\ below # <<>>
    BY <1>4 DEF FlushStep
  <2> HIDE DEF c
  <2> QED BY <1>1, <1>2, <2>1, <2>2, CallsFact
<1> QED BY <1>3, <1>4 DEF FlushStep

\* What all steps of a flush that stay in it have in common.
LEMMA FlushStepKeeps ==
    ASSUME CallInv, NEW f, NEW below, FlushStep(f, below)
    PROVE  CallInv'
<1> DEFINE n == Len(stack)
<1>1. /\ stack' \in Seq(Frames)
      /\ n \in Nat \ {0}
      /\ stack[n].op = "flush" /\ stack'[n].op = "flush"
      /\ \A k \in 1 .. n - 1 : stack'[k] = stack[k]
      /\ Len(stack') = n \/ /\ Len(stack') = n + 1
                            /\ stack'[n + 1].op = "close"
                            /\ stack'[n + 1].at = "flush"
                            /\ stack'[n + 1].reason = Calling!CLIENT_CONNECT_ERROR
  BY FlushStack DEF CallInv
<1>2. session' \in Blocks /\ session'.live = session.live /\ UNCHANGED <<session_, more, frees>>
  BY DEF FlushStep
<1>3. CallTypeInv' /\ Owned'
  BY <1>1, <1>2 DEF CallInv, CallTypeInv, Owned
<1>4. Alternate'
  <2> SUFFICES ASSUME NEW k \in 1 .. Len(stack') - 1
               PROVE  /\ stack'[k].op = "close" => stack'[k + 1].op = "flush"
                      /\ stack'[k].op = "flush" => /\ stack'[k + 1].op = "close"
                                                   /\ stack'[k + 1].reason = Calling!CLIENT_CONNECT_ERROR
    BY DEF Alternate
  <2>1. CASE k = n
    BY <1>1, <2>1
  <2>2. CASE k < n - 1
    <3>1. k \in 1 .. n - 1 /\ k + 1 \in 1 .. n - 1
      BY <1>1, <2>2
    <3> HIDE DEF n
    <3>2. stack'[k] = stack[k] /\ stack'[k + 1] = stack[k + 1]
      BY <1>1, <3>1
    <3> QED BY <3>1, <3>2 DEF CallInv, Alternate, n
  <2>3. CASE k = n - 1
    <3>1. k \in 1 .. n - 1 /\ k + 1 = n
      BY <1>1, <2>3
    <3>2. stack'[k] = stack[k] /\ stack[n].op = "flush" /\ stack'[n].op = "flush"
      BY <1>1, <3>1
    <3>3. stack[k].op # "flush"
      BY <3>1, <3>2 DEF CallInv, Alternate
    <3> QED BY <3>1, <3>2, <3>3
  <2> QED BY <1>1, <2>1, <2>2, <2>3
<1>5. Final'
  <2> SUFFICES ASSUME NEW k \in 1 .. Len(stack'), stack'[k].op = "close",
                      stack'[k].at = "release", more'
               PROVE  Calling!IsFinal(stack'[k].reason)
    BY DEF Final, Calling!IsFinal
  <2>1. k \in 1 .. n - 1
    BY <1>1
  <2>2. stack'[k] = stack[k] /\ k \in 1 .. n
    BY <1>1, <2>1
  <2> QED BY <1>2, <2>2 DEF CallInv, Final
<1> QED BY <1>3, <1>4, <1>5 DEF CallInv

\* While acknowledgements wait, no flush has called anything yet.
LEMMA FewFrames ==
    ASSUME CallInv, DepthInv, session.acks > 0
    PROVE  Len(stack) <= 2
<1> SUFFICES ASSUME Len(stack) > 2 PROVE FALSE
  BY DEF CallInv, CallTypeInv
<1>1. Len(stack) \in Nat /\ 1 \in 1 .. Len(stack) - 1 /\ 2 \in 1 .. Len(stack) - 1
  BY DEF CallInv, CallTypeInv
<1>2. PICK k \in {1, 2} : stack[k].op = "flush"
  <2>1. stack[1].op \in {"close", "flush"}
    BY <1>1 DEF CallInv, CallTypeInv, Frames, CloseFrames, FlushFrames
  <2> QED BY <1>1, <2>1 DEF CallInv, Alternate
<1>3. k \in 1 .. Len(stack) /\ k # Len(stack)
  BY <1>1
<1> QED BY <1>2, <1>3 DEF DepthInv, FirstAcks

\* What holds of a frame still does when there is less left to mark.
LEMMA LessLeft ==
    ASSUME NEW k \in Nat, NEW left \in Nat, NEW less \in Nat, NEW most \in Nat, NEW room \in Nat,
           k + 2 * left <= 2 * most + room, less <= left
    PROVE  k + 2 * less <= 2 * most + room
OBVIOUS

\* How deep a step of flush may leave the stack.
LEMMA FlushStepDeep ==
    ASSUME Calling!PacketAssumption, CallInv, DepthInv, NEW f, NEW below, FlushStep(f, below),
           session'.acks \in {0, session.acks}, Left' <= Left, f.at # "start",
           f.at = "acks" => /\ below = <<>> /\ f.size + f.count <= PerPacket
                            /\ Len(stack) > 2 => f.size = 0 /\ f.count = 0,
           f.at # "acks" => session'.acks = 0,
           below # <<>> \/ f.size > 0 \/ (f.at = "dups" /\ f.dups > session'.dups)
              => Len(stack) + 2 * Left' <= 2 * Most + 2
    PROVE  DepthInv'
<1> DEFINE n == Len(stack)
<1>1. /\ stack' \in Seq(Frames)
      /\ n \in Nat \ {0}
      /\ stack[n].op = "flush" /\ stack'[n] = f /\ f.op = "flush"
      /\ \A k \in 1 .. n - 1 : stack'[k] = stack[k]
      /\ below = <<>> => Len(stack') = n
      /\ below # <<>> => Len(stack') = n + 1 /\ stack'[n + 1].op = "close"
  BY FlushStack DEF CallInv
<1>2. Left \in Nat /\ Left' \in Nat /\ Most \in Nat
  BY DEF CallInv, CallTypeInv, FlushStep, Blocks, Left, Most, Calling!PacketAssumption
<1>3. \A k \in 1 .. n - 1 : k + 2 * Left <= 2 * Most + (IF stack[k].op = "close" THEN 3 ELSE 2)
  BY <1>1 DEF DepthInv, Deep, Slack, Consumed
<1>4. n + 2 * Left <= 2 * Most + 4
  <2>1. n \in 1 .. Len(stack) /\ Slack(n) \in {2, 3, 4}
    BY <1>1 DEF Slack
  <2>2. n + 2 * Left <= 2 * Most + Slack(n)
    BY <2>1 DEF DepthInv, Deep
  <2> QED BY <1>1, <1>2, <2>1, <2>2
<1>5. Deep'
  <2> SUFFICES ASSUME NEW k \in 1 .. Len(stack') PROVE k + 2 * Left' <= 2 * Most + Slack(k)'
    BY DEF Deep, Most
  <2>1. CASE k \in 1 .. n - 1
    <3>1. Slack(k)' = IF stack[k].op = "close" THEN 3 ELSE 2
      BY <1>1, <2>1 DEF Slack, Consumed
    <3>2. k + 2 * Left <= 2 * Most + (IF stack[k].op = "close" THEN 3 ELSE 2)
      BY <1>3, <2>1
    <3> DEFINE room == IF stack[k].op = "close" THEN 3 ELSE 2
    <3>3. room \in Nat /\ k \in Nat
      BY <1>1
    <3>4. k + 2 * Left <= 2 * Most + room /\ Slack(k)' = room
      BY <3>1, <3>2
    <3> HIDE DEF room
    <3>5. k + 2 * Left' <= 2 * Most + room
      BY <1>2, <3>3, <3>4, LessLeft
    <3> QED BY <3>4, <3>5
  <2>2. CASE k = n
    <3>1. CASE Consumed(k)'
      <4>1. below # <<>> \/ f.size > 0 \/ (f.at = "dups" /\ f.dups > session'.dups)
        BY <1>1, <2>2, <3>1 DEF Consumed
      <4>2. Slack(k)' = 2
        BY <1>1, <2>2, <3>1 DEF Slack
      <4> QED BY <2>2, <4>1, <4>2
    <3>2. CASE ~ Consumed(k)'
      <4>1. Slack(k)' = 4
        BY <1>1, <2>2, <3>2 DEF Slack
      <4> QED BY <1>1, <1>2, <1>4, <2>2, <4>1
    <3> QED BY <3>1, <3>2
  <2>3. CASE k = n + 1
    <3>1. below # <<>> /\ Slack(k)' = 3
      BY <1>1, <2>3 DEF Slack
    <3>2. n + 2 * Left' <= 2 * Most + 2
      BY <3>1
    <3> QED BY <1>1, <1>2, <2>3, <3>1, <3>2
  <2> QED BY <1>1, <2>1, <2>2, <2>3
<1>6. FirstAcks'
  <2>1. \A k \in 1 .. n - 1 : stack[k].op = "flush" => stack[k].at \notin {"start", "acks"}
    BY <1>1 DEF DepthInv, FirstAcks
  <2>2. session'.acks > 0 => f.at = "acks" /\ below = <<>> /\ session.acks > 0
    BY DEF CallInv, CallTypeInv, Blocks, Calling!PacketAssumption
  <2>3. session'.acks > 0 => \A k \in 1 .. Len(stack') :
            stack'[k].op = "flush" => stack'[k].at \in {"start", "acks"}
    <3> SUFFICES ASSUME session'.acks > 0, NEW k \in 1 .. n, stack'[k].op = "flush"
                 PROVE  stack'[k].at \in {"start", "acks"}
      BY <1>1, <2>2
    <3>1. CASE k = n
      BY <1>1, <2>2, <3>1
    <3>2. CASE k \in 1 .. n - 1
      BY <1>1, <2>2, <3>2 DEF DepthInv, FirstAcks
    <3> QED BY <1>1, <3>1, <3>2
  <2>4. ASSUME NEW k \in 1 .. Len(stack'), stack'[k].op = "flush"
        PROVE  /\ stack'[k].at = "start" => k = Len(stack') /\ stack'[k].size = 0
               /\ stack'[k].at = "acks" =>
                    /\ k = Len(stack')
                    /\ stack'[k].size + stack'[k].count <= PerPacket
                    /\ k > 2 => stack'[k].size = 0 /\ stack'[k].count = 0
    <3>1. CASE k = n
      BY <1>1, <3>1
    <3>2. CASE k \in 1 .. n - 1
      BY <1>1, <2>1, <2>4, <3>2
    <3> QED BY <1>1, <2>4, <3>1, <3>2
  <2> QED BY <2>3, <2>4 DEF FirstAcks
<1> QED BY <1>5, <1>6 DEF DepthInv
-----------------------------------------------------------------------------
(* The steps of flush                                                      *)

\* One more segment: it goes into the packet, or the packet goes first.
LEMMA PackFact ==
    ASSUME Calling!PacketAssumption, NEW f \in FlushFrames, NEW c, Calling!Pack(f, c)
    PROVE  \E g \in FlushFrames, below \in {<<>>, <<Calling!CloseCall(Calling!CLIENT_CONNECT_ERROR)>>} :
              /\ Calling!Becomes(g, below)
              /\ g.at = f.at /\ g.count = f.count /\ g.dups = f.dups
              /\ \/ g.size = f.size + 1 /\ below = <<>>
                 \/ g.size = 1 /\ f.size = PerPacket
<1> DEFINE g(s) == [f EXCEPT !.size = s]
<1>1. f.size \in 0 .. PerPacket /\ PerPacket \in Nat \ {0}
  BY DEF FlushFrames, Calling!PacketAssumption
<1>2. ASSUME NEW s \in 0 .. PerPacket
      PROVE  /\ g(s) \in FlushFrames /\ g(s).at = f.at /\ g(s).count = f.count
             /\ g(s).dups = f.dups /\ g(s).size = s
  BY DEF FlushFrames
<1>3. CASE f.size = PerPacket
  <2>1. PICK below \in Calling!Outputs : Calling!Becomes(g(1), below)
    BY <1>3 DEF Calling!Pack
  <2>2. below \in {<<>>, <<Calling!CloseCall(Calling!CLIENT_CONNECT_ERROR)>>}
    BY DEF Calling!Outputs
  <2>3. 1 \in 0 .. PerPacket
    BY <1>1
  <2> HIDE DEF g
  <2> QED BY <1>2, <1>3, <2>1, <2>2, <2>3
<1>4. CASE f.size # PerPacket
  <2>1. Calling!Becomes(g(f.size + 1), <<>>)
    BY <1>4 DEF Calling!Pack
  <2>2. f.size + 1 \in 0 .. PerPacket
    BY <1>1, <1>4
  <2> HIDE DEF g
  <2> QED BY <1>2, <2>1, <2>2
<1> QED BY <1>3, <1>4

\* What waits is counted in the block.
LEMMA LeftFact ==
    ASSUME Calling!PacketAssumption, CallTypeInv
    PROVE  /\ session.acks \in Nat /\ session.due \in Nat /\ session.dups \in Nat
           /\ Left \in Nat /\ Most \in Nat /\ Left <= Most /\ session.acks <= MaxAcks
BY DEF Calling!PacketAssumption, CallTypeInv, Blocks, Left, Most

\* The running call is a flush, and so is what it becomes.
LEMMA Running ==
    ASSUME CallTypeInv, NEW at, Calling!InCall("flush", at)
    PROVE  /\ stack # <<>> /\ Calling!Top \in FlushFrames /\ Calling!Top.op = "flush" /\ Calling!Top.at = at
           /\ Len(stack) \in Nat \ {0} /\ Calling!Top = stack[Len(stack)]
BY TopFact DEF Calling!InCall, Calling!Top

\* The entry of pvp_ikcp_flush.
LEMMA FlushBeginsKeeps ==
    ASSUME Calling!PacketAssumption, CallInv, Calling!FlushBegins
    PROVE  CallInv' /\ (OnePacket /\ DepthInv => DepthInv')
<1> DEFINE n == Len(stack)
           f == [Calling!Top EXCEPT !.at = "acks", !.count = session.acks]
<1>1. /\ stack # <<>> /\ Calling!Top \in FlushFrames /\ Calling!Top.op = "flush" /\ Calling!Top.at = "start"
      /\ n \in Nat \ {0} /\ Calling!Top = stack[n]
  BY Running DEF CallInv, Calling!FlushBegins
<1>2. session.acks \in Nat /\ Left \in Nat /\ Most \in Nat /\ Left <= Most /\ session.acks <= MaxAcks
  BY LeftFact DEF CallInv
<1>3. f \in FlushFrames /\ f.at = "acks" /\ f.count = session.acks /\ f.size = Calling!Top.size
  BY <1>1, <1>2 DEF FlushFrames
<1>4. Calling!Becomes(f, <<>>) /\ UNCHANGED <<session, session_, more, frees>>
  BY DEF Calling!FlushBegins, Calling!Goes
<1> HIDE DEF f
<1>5. FlushStep(f, <<>>)
  BY <1>1, <1>3, <1>4 DEF FlushStep, CallInv, CallTypeInv
<1>6. CallInv'
  BY <1>5, FlushStepKeeps
<1>7. ASSUME OnePacket, DepthInv PROVE DepthInv'
  <2>1. f.size = 0
    BY <1>1, <1>3, <1>7 DEF DepthInv, FirstAcks
  <2>2. n > 2 => f.count = 0
    BY <1>1, <1>2, <1>3, <1>7, FewFrames
  <2>3. f.size + f.count <= PerPacket
    BY <1>2, <1>3, <2>1, <1>7 DEF OnePacket, Calling!PacketAssumption
  <2>4. Left' <= Left /\ session' = session
    BY <1>2, <1>4 DEF Left
  <2>5. f.at = "acks" /\ f.at # "start" /\ ~ (f.size > 0)
    BY <1>3, <2>1
  <2> QED BY <1>5, <1>7, <2>1, <2>2, <2>3, <2>4, <2>5, FlushStepDeep
<1> QED BY <1>6, <1>7

\* One acknowledgement goes into the packet, which may be put out first.
LEMMA FlushAckKeeps ==
    ASSUME Calling!PacketAssumption, CallInv, Calling!FlushAck
    PROVE  CallInv' /\ (OnePacket /\ DepthInv => DepthInv')
<1> DEFINE n == Len(stack)
           f == [Calling!Top EXCEPT !.count = @ - 1]
<1>1. /\ stack # <<>> /\ Calling!Top \in FlushFrames /\ Calling!Top.op = "flush" /\ Calling!Top.at = "acks"
      /\ n \in Nat \ {0} /\ Calling!Top = stack[n] /\ Calling!Top.count > 0
  BY Running DEF CallInv, Calling!FlushAck
<1>2. Left \in Nat /\ Most \in Nat /\ Left <= Most
  BY LeftFact DEF CallInv
<1>3. f \in FlushFrames /\ f.at = "acks" /\ f.size = Calling!Top.size /\ f.count = Calling!Top.count - 1
  BY <1>1 DEF FlushFrames
<1>4. Calling!Top.size \in 0 .. PerPacket /\ Calling!Top.count \in Nat /\ PerPacket \in Nat \ {0}
  BY <1>1 DEF FlushFrames, Calling!PacketAssumption
<1>5. Calling!Pack(f, session)
  BY DEF Calling!FlushAck
<1> HIDE DEF f
<1>6. PICK g \in FlushFrames, below \in {<<>>, <<Calling!CloseCall(Calling!CLIENT_CONNECT_ERROR)>>} :
              /\ Calling!Becomes(g, below)
              /\ g.at = f.at /\ g.count = f.count /\ g.dups = f.dups
              /\ \/ g.size = f.size + 1 /\ below = <<>>
                 \/ g.size = 1 /\ f.size = PerPacket
  BY <1>3, <1>5, PackFact
<1>7. UNCHANGED <<session, session_, more, frees>>
  BY <1>5 DEF Calling!Pack
<1>8. FlushStep(g, below)
  BY <1>1, <1>6, <1>7 DEF FlushStep, CallInv, CallTypeInv
<1>9. CallInv'
  BY <1>8, FlushStepKeeps
<1>10. ASSUME OnePacket, DepthInv PROVE DepthInv'
  <2>1. Calling!Top.size + Calling!Top.count <= PerPacket /\ n <= 2
    BY <1>1, <1>4, <1>10 DEF DepthInv, FirstAcks
  <2>2. below = <<>> /\ g.size = Calling!Top.size + 1
    BY <1>1, <1>3, <1>4, <1>6, <2>1
  <2>3. Left' = Left /\ session' = session
    BY <1>7 DEF Left
  <2>4. n + 2 * Left' <= 2 * Most + 2
    BY <1>1, <1>2, <2>1, <2>3
  <2>5. g.at = "acks" /\ g.size + g.count <= PerPacket /\ ~ (n > 2)
    BY <1>1, <1>3, <1>4, <1>6, <2>1, <2>2
  <2> QED BY <1>2, <1>8, <1>10, <2>2, <2>3, <2>4, <2>5, FlushStepDeep
<1> QED BY <1>9, <1>10

\* ackcount is zeroed once all acknowledgements were put out.
LEMMA FlushAcksEndKeeps ==
    ASSUME Calling!PacketAssumption, CallInv, Calling!FlushAcksEnd
    PROVE  CallInv' /\ (OnePacket /\ DepthInv => DepthInv')
<1> DEFINE n == Len(stack)
           f == [Calling!Top EXCEPT !.at = "segs"]
           c == [session EXCEPT !.acks = 0]
<1>1. /\ stack # <<>> /\ Calling!Top \in FlushFrames /\ Calling!Top.op = "flush" /\ Calling!Top.at = "acks"
      /\ n \in Nat \ {0} /\ Calling!Top = stack[n] /\ session.live
  BY Running DEF CallInv, Calling!FlushAcksEnd
<1>2. Left \in Nat /\ Most \in Nat /\ Left <= Most /\ session.dups \in Nat
  BY LeftFact DEF CallInv
<1>3. f \in FlushFrames /\ f.at = "segs" /\ f.size = Calling!Top.size
  BY <1>1 DEF FlushFrames
<1>4. /\ c \in Blocks /\ c.acks = 0 /\ c.due = session.due /\ c.dups = session.dups /\ c.live = session.live
  BY DEF CallInv, CallTypeInv, Blocks, Calling!PacketAssumption
<1>5. Calling!Becomes(f, <<>>) /\ session' = c /\ UNCHANGED <<session_, more, frees>>
  BY DEF Calling!FlushAcksEnd, Calling!Goes
<1> HIDE DEF f, c
<1>6. FlushStep(f, <<>>)
  BY <1>1, <1>3, <1>4, <1>5 DEF FlushStep
<1>7. CallInv'
  BY <1>6, FlushStepKeeps
<1>8. ASSUME OnePacket, DepthInv PROVE DepthInv'
  <2>1. Left' = Left
    BY <1>4, <1>5 DEF Left
  <2>2. f.size > 0 => n <= 2
    BY <1>1, <1>3, <1>8 DEF DepthInv, FirstAcks
  <2>3. f.size > 0 => n + 2 * Left' <= 2 * Most + 2
    BY <1>1, <1>2, <2>1, <2>2
  <2> QED BY <1>2, <1>3, <1>4, <1>5, <1>6, <1>8, <2>1, <2>3, FlushStepDeep
<1> QED BY <1>7, <1>8

\* How deep the running flush is, and what it finds after the acknowledgements.
LEMMA TopDeep ==
    ASSUME Calling!PacketAssumption, CallInv, DepthInv, stack # <<>>, Calling!Top.op = "flush"
    PROVE  /\ Len(stack) + 2 * Left <= 2 * Most + 4
           /\ Calling!Top.size > 0 \/ (Calling!Top.at = "dups" /\ Calling!Top.dups > session.dups)
                 => Len(stack) + 2 * Left <= 2 * Most + 2
           /\ Calling!Top.at \notin {"start", "acks"} => session.acks = 0
<1> DEFINE n == Len(stack)
<1>1. n \in Nat \ {0} /\ n \in 1 .. n /\ Calling!Top = stack[n]
  BY TopFact DEF CallInv, Calling!Top
<1>2. Left \in Nat /\ Most \in Nat /\ session.acks \in Nat
  BY LeftFact DEF CallInv
<1>3. Slack(n) \in {2, 4} /\ n + 2 * Left <= 2 * Most + Slack(n)
  BY <1>1 DEF DepthInv, Deep, Slack
<1>4. Calling!Top.size > 0 \/ (Calling!Top.at = "dups" /\ Calling!Top.dups > session.dups) => Slack(n) = 2
  BY <1>1 DEF Slack, Consumed
<1>5. Calling!Top.at \notin {"start", "acks"} => ~ (session.acks > 0)
  BY <1>1 DEF DepthInv, FirstAcks
<1> QED BY <1>1, <1>2, <1>3, <1>4, <1>5

\* One segment that is due goes into the packet.
LEMMA FlushSegmentKeeps ==
    ASSUME Calling!PacketAssumption, CallInv, Calling!FlushSegment
    PROVE  CallInv' /\ (OnePacket /\ DepthInv => DepthInv')
<1> DEFINE n == Len(stack)
<1>1. /\ stack # <<>> /\ Calling!Top \in FlushFrames /\ Calling!Top.op = "flush" /\ Calling!Top.at = "segs"
      /\ n \in Nat \ {0} /\ Calling!Top = stack[n] /\ session.due > 0 /\ session.live
  BY Running DEF CallInv, Calling!FlushSegment
<1>2. Left \in Nat /\ Most \in Nat /\ session.due \in Nat /\ session.dups \in Nat /\ session.acks \in Nat
  BY LeftFact DEF CallInv
<1>3. /\ Calling!SegMarked \in Blocks /\ Calling!SegMarked.acks = session.acks /\ Calling!SegMarked.due = session.due - 1
      /\ Calling!SegMarked.dups = session.dups /\ Calling!SegMarked.live = session.live
  <2>1. session \in Blocks /\ session.due \in 0 .. MaxDue /\ session.due - 1 \in 0 .. MaxDue
    BY <1>1 DEF CallInv, CallTypeInv, Blocks, Calling!PacketAssumption
  <2> QED BY <2>1 DEF Calling!SegMarked, Blocks
<1>4. Calling!Pack(Calling!Top, Calling!SegMarked)
  BY DEF Calling!FlushSegment
<1>5. PICK g \in FlushFrames, below \in {<<>>, <<Calling!CloseCall(Calling!CLIENT_CONNECT_ERROR)>>} :
              /\ Calling!Becomes(g, below)
              /\ g.at = Calling!Top.at /\ g.count = Calling!Top.count /\ g.dups = Calling!Top.dups
              /\ \/ g.size = Calling!Top.size + 1 /\ below = <<>>
                 \/ g.size = 1 /\ Calling!Top.size = PerPacket
  BY <1>1, <1>4, PackFact
<1>6. session' = Calling!SegMarked /\ UNCHANGED <<session_, more, frees>>
  BY <1>4 DEF Calling!Pack
<1>7. FlushStep(g, below)
  BY <1>1, <1>3, <1>5, <1>6 DEF FlushStep
<1>8. CallInv'
  BY <1>7, FlushStepKeeps
<1>9. ASSUME OnePacket, DepthInv PROVE DepthInv'
  <2>1. n + 2 * Left <= 2 * Most + 4 /\ session.acks = 0
    BY <1>1, <1>9, TopDeep
  <2>2. Left' = Left - 1 /\ session'.acks = 0
    BY <1>2, <1>3, <1>6, <2>1 DEF Left
  <2>3. Left' <= Left /\ n + 2 * Left' <= 2 * Most + 2
    BY <1>1, <1>2, <2>1, <2>2
  <2>4. g.at # "acks" /\ g.at # "start"
    BY <1>1, <1>5
  <2> QED BY <1>7, <1>9, <2>2, <2>3, <2>4, FlushStepDeep
<1> QED BY <1>8, <1>9

\* The walk over the send buffer ends.
LEMMA FlushSegmentsEndKeeps ==
    ASSUME Calling!PacketAssumption, CallInv, Calling!FlushSegmentsEnd
    PROVE  CallInv' /\ (OnePacket /\ DepthInv => DepthInv')
<1> DEFINE n == Len(stack)
           f == [Calling!Top EXCEPT !.at = "dups", !.dups = session.dups]
<1>1. /\ stack # <<>> /\ Calling!Top \in FlushFrames /\ Calling!Top.op = "flush" /\ Calling!Top.at = "segs"
      /\ n \in Nat \ {0} /\ Calling!Top = stack[n]
  BY Running DEF CallInv, Calling!FlushSegmentsEnd
<1>2. Left \in Nat /\ Most \in Nat /\ session.dups \in Nat /\ session.acks \in Nat
  BY LeftFact DEF CallInv
<1>3. f \in FlushFrames /\ f.at = "dups" /\ f.dups = session.dups /\ f.size = Calling!Top.size
  BY <1>1, <1>2 DEF FlushFrames
<1>4. Calling!Becomes(f, <<>>) /\ UNCHANGED <<session, session_, more, frees>>
  BY DEF Calling!FlushSegmentsEnd, Calling!Goes
<1> HIDE DEF f
<1>5. FlushStep(f, <<>>)
  BY <1>1, <1>3, <1>4 DEF FlushStep, CallInv, CallTypeInv
<1>6. CallInv'
  BY <1>5, FlushStepKeeps
<1>7. ASSUME OnePacket, DepthInv PROVE DepthInv'
  <2>1. session.acks = 0 /\ (f.size > 0 => n + 2 * Left <= 2 * Most + 2)
    BY <1>1, <1>3, <1>7, TopDeep
  <2>2. Left' = Left /\ session' = session
    BY <1>4 DEF Left
  <2>3. Left' <= Left /\ ~ (f.dups > session'.dups)
    BY <1>2, <1>3, <2>2
  <2>4. f.at # "acks" /\ f.at # "start"
    BY <1>3
  <2> QED BY <1>5, <1>7, <2>1, <2>2, <2>3, <2>4, FlushStepDeep
<1> QED BY <1>6, <1>7

\* One segment is sent again by dupsend.
LEMMA FlushDupKeeps ==
    ASSUME Calling!PacketAssumption, CallInv, Calling!FlushDup
    PROVE  CallInv' /\ (OnePacket /\ DepthInv => DepthInv')
<1> DEFINE n == Len(stack)
           f == [Calling!Top EXCEPT !.dups = @ - 1, !.size = @ + 1]
<1>1. /\ stack # <<>> /\ Calling!Top \in FlushFrames /\ Calling!Top.op = "flush" /\ Calling!Top.at = "dups"
      /\ n \in Nat \ {0} /\ Calling!Top = stack[n] /\ Calling!Top.dups > 0 /\ Calling!Top.size < PerPacket
  BY Running DEF CallInv, Calling!FlushDup
<1>2. Left \in Nat /\ Most \in Nat /\ session.due \in Nat /\ session.dups \in Nat /\ session.acks \in Nat
  BY LeftFact DEF CallInv
<1>3. f \in FlushFrames /\ f.at = "dups" /\ f.dups = Calling!Top.dups - 1 /\ f.size = Calling!Top.size + 1
  <2>1. Calling!Top.dups - 1 \in Nat /\ Calling!Top.size + 1 \in 0 .. PerPacket
    BY <1>1 DEF FlushFrames, Calling!PacketAssumption
  <2> QED BY <1>1, <2>1 DEF FlushFrames
<1>4. /\ Calling!DupMarked \in Blocks /\ Calling!DupMarked.acks = session.acks /\ Calling!DupMarked.due = session.due
      /\ Calling!DupMarked.live = session.live
      /\ Calling!DupMarked.dups = IF session.dups > 0 THEN session.dups - 1 ELSE 0
  BY <1>2 DEF Calling!DupMarked, CallInv, CallTypeInv, Blocks, Calling!PacketAssumption
<1>5. Calling!Becomes(f, <<>>) /\ session' = Calling!DupMarked /\ UNCHANGED <<session_, more, frees>>
  BY DEF Calling!FlushDup, Calling!Goes
<1> HIDE DEF f
<1>6. FlushStep(f, <<>>)
  BY <1>1, <1>3, <1>4, <1>5 DEF FlushStep
<1>7. CallInv'
  BY <1>6, FlushStepKeeps
<1>8. ASSUME OnePacket, DepthInv PROVE DepthInv'
  <2>1. /\ session.acks = 0 /\ n + 2 * Left <= 2 * Most + 4
        /\ Calling!Top.dups > session.dups => n + 2 * Left <= 2 * Most + 2
    BY <1>1, <1>8, TopDeep
  <2>2. session'.acks = 0 /\ Left' = IF session.dups > 0 THEN Left - 1 ELSE Left
    BY <1>2, <1>4, <1>5, <2>1 DEF Left
  <2>3. Left' <= Left /\ n + 2 * Left' <= 2 * Most + 2
    <3>1. CASE session.dups > 0
      BY <1>1, <1>2, <2>1, <2>2, <3>1
    <3>2. CASE session.dups = 0
      BY <1>1, <1>2, <2>1, <2>2, <3>2
    <3> QED BY <1>2, <3>1, <3>2
  <2>4. f.at # "acks" /\ f.at # "start"
    BY <1>3
  <2> QED BY <1>6, <1>8, <2>2, <2>3, <2>4, FlushStepDeep
<1> QED BY <1>7, <1>8

\* A packet of duplicates, or the rest, goes.
LEMMA FlushPacketKeeps ==
    ASSUME Calling!PacketAssumption, CallInv, Calling!FlushDupsFull \/ Calling!FlushRest
    PROVE  CallInv' /\ (OnePacket /\ DepthInv => DepthInv')
<1> DEFINE n == Len(stack)
           g(at) == [Calling!Top EXCEPT !.at = at, !.size = 0]
<1>1. /\ stack # <<>> /\ Calling!Top \in FlushFrames /\ Calling!Top.op = "flush" /\ Calling!Top.at = "dups"
      /\ n \in Nat \ {0} /\ Calling!Top = stack[n] /\ Calling!Top.size > 0
  BY Running DEF CallInv, Calling!FlushDupsFull, Calling!FlushRest, Calling!PacketAssumption
<1>2. Left \in Nat /\ Most \in Nat /\ session.acks \in Nat
  BY LeftFact DEF CallInv
<1>3. ASSUME NEW at \in {"dups", "end"}
      PROVE  g(at) \in FlushFrames /\ g(at).at = at
  <2>1. 0 \in 0 .. PerPacket
    BY DEF Calling!PacketAssumption
  <2> QED BY <1>1, <2>1 DEF FlushFrames
<1>4. g("dups") = [Calling!Top EXCEPT !.size = 0]
  BY <1>1 DEF FlushFrames
<1>5. /\ \E at \in {"dups", "end"}, below \in Calling!Outputs : Calling!Becomes(g(at), below)
      /\ UNCHANGED <<session, session_, more, frees>>
  BY <1>4 DEF Calling!FlushDupsFull, Calling!FlushRest
<1> HIDE DEF g
<1>6. PICK at \in {"dups", "end"}, below \in {<<>>, <<Calling!CloseCall(Calling!CLIENT_CONNECT_ERROR)>>} :
          Calling!Becomes(g(at), below)
  BY <1>5 DEF Calling!Outputs
<1>7. FlushStep(g(at), below)
  BY <1>1, <1>3, <1>5, <1>6 DEF FlushStep, CallInv, CallTypeInv
<1>8. CallInv'
  BY <1>7, FlushStepKeeps
<1>9. ASSUME OnePacket, DepthInv PROVE DepthInv'
  <2>1. session.acks = 0 /\ n + 2 * Left <= 2 * Most + 2
    BY <1>1, <1>9, TopDeep
  <2>2. Left' = Left /\ session' = session
    BY <1>5 DEF Left
  <2>3. Left' <= Left /\ n + 2 * Left' <= 2 * Most + 2 /\ session'.acks = 0
    BY <1>2, <2>1, <2>2
  <2>4. g(at).at # "acks" /\ g(at).at # "start"
    BY <1>3
  <2> QED BY <1>7, <1>9, <2>3, <2>4, FlushStepDeep
<1> QED BY <1>8, <1>9
-----------------------------------------------------------------------------
(* The other steps                                                         *)

\* A call returns to the one below it.
LEMMA ReturnsKeeps ==
    ASSUME Calling!PacketAssumption, CallInv, stack # <<>>, Calling!Returns, UNCHANGED <<session, session_, more, frees>>
    PROVE  CallInv' /\ (DepthInv => DepthInv')
<1> DEFINE n == Len(stack)
<1>1. /\ n \in Nat \ {0} /\ stack' \in Seq(Frames) /\ Len(stack') = n - 1
      /\ \A k \in 1 .. n - 1 : stack'[k] = stack[k]
  BY TopFact, FrontFact DEF CallInv, Calling!Returns
<1>2. \A k \in 1 .. n - 1 : k \in 1 .. Len(stack) - 1 /\ k \in 1 .. Len(stack)
  BY <1>1
<1>3. CallTypeInv' /\ Owned'
  BY <1>1 DEF CallInv, CallTypeInv, Owned
<1>4. Alternate'
  <2> SUFFICES ASSUME NEW k \in 1 .. (n - 1) - 1
               PROVE  /\ stack'[k].op = "close" => stack'[k + 1].op = "flush"
                      /\ stack'[k].op = "flush" => /\ stack'[k + 1].op = "close"
                                                   /\ stack'[k + 1].reason = Calling!CLIENT_CONNECT_ERROR
    BY <1>1 DEF Alternate
  <2>1. k \in 1 .. n - 1 /\ k + 1 \in 1 .. n - 1
    BY <1>1
  <2>2. stack'[k] = stack[k] /\ stack'[k + 1] = stack[k + 1]
    BY <1>1, <2>1
  <2> QED BY <2>1, <2>2 DEF CallInv, Alternate
<1>5. Final'
  BY <1>1, <1>2 DEF CallInv, Final, Calling!IsFinal
<1>6. ASSUME DepthInv PROVE DepthInv'
  <2>1. Left' = Left /\ session' = session
    BY DEF Left
  <2>2. Left \in Nat /\ Most \in Nat
    BY LeftFact DEF CallInv
  <2>3. ASSUME NEW k \in 1 .. n - 1 PROVE k + 2 * Left' <= 2 * Most + Slack(k)'
    <3>1. k + 2 * Left <= 2 * Most + Slack(k)
      BY <1>2, <1>6 DEF DepthInv, Deep
    <3>2. Slack(k) = IF stack[k].op = "close" THEN 3 ELSE 2
      BY <1>1 DEF Slack, Consumed
    <3>3. Slack(k)' \in {2, 3, 4} /\ (stack[k].op = "close" => Slack(k)' = 3)
      BY <1>1 DEF Slack
    <3>4. CASE stack[k].op = "close"
      BY <2>1, <3>1, <3>2, <3>3, <3>4
    <3>5. CASE stack[k].op # "close"
      <4>1. k + 2 * Left <= 2 * Most + 2
        BY <3>1, <3>2, <3>5
      <4> QED BY <2>1, <2>2, <3>3, <4>1
    <3> QED BY <3>4, <3>5
  <2>4. \A k \in 1 .. n - 1 : stack[k].op = "flush" => stack[k].at \notin {"start", "acks"}
    BY <1>1, <1>2, <1>6 DEF DepthInv, FirstAcks
  <2>5. FirstAcks'
    BY <1>1, <1>2, <1>6, <2>1, <2>4 DEF DepthInv, FirstAcks
  <2> QED BY <1>1, <2>3, <2>5 DEF DepthInv, Deep, Most
<1> QED BY <1>3, <1>4, <1>5, <1>6 DEF CallInv

\* InnerClose of a final reason flushes; of another it goes on.
LEMMA CallCloseBeginsKeeps ==
    ASSUME Calling!PacketAssumption, CallInv, Calling!CloseBegins
    PROVE  CallInv' /\ (DepthInv => DepthInv')
<1> DEFINE n == Len(stack)
           f(at) == [Calling!Top EXCEPT !.at = at]
<1>1. /\ stack # <<>> /\ Calling!Top \in CloseFrames /\ Calling!Top.op = "close" /\ Calling!Top.at = "flush"
      /\ n \in Nat \ {0} /\ n \in 1 .. n /\ Calling!Top = stack[n]
  BY TopFact DEF CallInv, Calling!CloseBegins, Calling!InCall, Calling!Top
<1>2. UNCHANGED <<session, session_, more, frees>>
  BY DEF Calling!CloseBegins
<1>3. ASSUME NEW at \in {"release", "sockets"}
      PROVE  f(at) \in Frames /\ f(at).op = "close" /\ f(at).at = at /\ f(at).reason = Calling!Top.reason
  BY <1>1 DEF CloseFrames, Frames
<1>4. Calling!FlushCall \in Frames /\ Calling!FlushCall.op = "flush" /\ Calling!FlushCall.at = "start" /\ Calling!FlushCall.size = 0
  <2>1. 0 \in 0 .. PerPacket
    BY DEF Calling!PacketAssumption
  <2> QED BY <2>1 DEF Calling!FlushCall, Frames, FlushFrames
<1>5. PICK at \in {"release", "sockets"}, below \in {<<>>, <<Calling!FlushCall>>} :
         /\ Calling!Becomes(f(at), below)
         /\ at = "release" => Calling!IsFinal(Calling!Reported(Calling!Top.reason))
  BY DEF Calling!CloseBegins
<1> HIDE DEF f
<1>6. /\ stack' \in Seq(Frames)
      /\ stack'[n] = f(at)
      /\ \A k \in 1 .. n - 1 : stack'[k] = stack[k]
      /\ Len(stack') = n \/ (Len(stack') = n + 1 /\ stack'[n + 1] = Calling!FlushCall)
  <2> DEFINE g == f(at)
             c == Calling!FlushCall
  <2>1. g \in Frames /\ c \in Frames /\ Calling!Becomes(g, below) /\ CallTypeInv /\ stack # <<>>
    BY <1>1, <1>3, <1>4, <1>5 DEF CallInv
  <2> HIDE DEF g, c
  <2>2. CASE below = <<>>
    <3>1. Calling!Becomes(g, <<>>)
      BY <2>1, <2>2
    <3>2. /\ stack' \in Seq(Frames)
          /\ Len(stack') = Len(stack)
          /\ stack'[Len(stack)] = g
          /\ \A k \in 1 .. Len(stack) - 1 : stack'[k] = stack[k]
      BY <2>1, <3>1, GoesOnFact
    <3> QED BY <3>2 DEF g
  <2>3. CASE below = <<Calling!FlushCall>>
    <3>1. Calling!Becomes(g, <<c>>)
      BY <2>1, <2>3 DEF c
    <3> QED BY <2>1, <3>1, CallsFact DEF g, c
  <2> QED BY <2>2, <2>3
<1> HIDE DEF n
<1>7. /\ stack'[n].op = "close" /\ stack'[n].reason = stack[n].reason /\ stack[n].op = "close"
      /\ stack'[n].at \notin {"start", "acks"}
      /\ Len(stack') = n + 1 => stack'[n + 1].op = "flush" /\ stack'[n + 1].at = "start" /\ stack'[n + 1].size = 0
  BY <1>1, <1>3, <1>4, <1>6
<1>8. CallTypeInv' /\ Owned'
  BY <1>2, <1>6 DEF CallInv, CallTypeInv, Owned
<1>9. Alternate'
  <2> SUFFICES ASSUME NEW k \in 1 .. Len(stack') - 1
               PROVE  /\ stack'[k].op = "close" => stack'[k + 1].op = "flush"
                      /\ stack'[k].op = "flush" => /\ stack'[k + 1].op = "close"
                                                   /\ stack'[k + 1].reason = Calling!CLIENT_CONNECT_ERROR
    BY DEF Alternate
  <2>1. CASE k = n
    BY <1>1, <1>6, <1>7, <2>1
  <2>2. CASE k < n - 1
    <3>1. k \in 1 .. n - 1 /\ k + 1 \in 1 .. n - 1
      BY <1>1, <2>2
    <3>2. stack'[k] = stack[k] /\ stack'[k + 1] = stack[k + 1]
      BY <1>6, <3>1
    <3> QED BY <3>1, <3>2 DEF CallInv, Alternate, n
  <2>3. CASE k = n - 1
    <3>1. k \in 1 .. n - 1 /\ k + 1 = n
      BY <1>1, <2>3
    <3>2. stack'[k] = stack[k]
      BY <1>6, <3>1
    <3> QED BY <1>7, <3>1, <3>2 DEF CallInv, Alternate, n
  <2> QED BY <1>1, <1>6, <2>1, <2>2, <2>3
<1>10. Final'
  <2> SUFFICES ASSUME NEW k \in 1 .. Len(stack'), stack'[k].op = "close",
                      stack'[k].at = "release", more'
               PROVE  Calling!IsFinal(stack'[k].reason)
    BY DEF Final, Calling!IsFinal
  <2>1. CASE k \in 1 .. n - 1
    <3>1. stack'[k] = stack[k] /\ k \in 1 .. Len(stack)
      BY <1>1, <1>6, <2>1 DEF n
    <3> QED BY <1>2, <3>1 DEF CallInv, Final
  <2>2. CASE k = n
    <3>1. at = "release" /\ more /\ stack'[k].reason = Calling!Top.reason
      BY <1>2, <1>3, <1>6, <2>2
    <3> QED BY <1>5, <3>1 DEF Calling!Reported
  <2> QED BY <1>1, <1>6, <1>7, <2>1, <2>2
<1>11. ASSUME DepthInv PROVE DepthInv'
  <2>1. Left' = Left /\ session' = session
    BY <1>2 DEF Left
  <2>2. Left \in Nat /\ Most \in Nat
    BY LeftFact DEF CallInv
  <2>3. n + 2 * Left <= 2 * Most + 3
    <3>1. Slack(n) = 3
      BY <1>7 DEF Slack
    <3>2. n \in 1 .. Len(stack)
      BY <1>1 DEF n
    <3>3. n + 2 * Left <= 2 * Most + Slack(n)
      BY <1>11, <3>2 DEF DepthInv, Deep
    <3> QED BY <3>1, <3>3
  <2>4. ASSUME NEW k \in 1 .. Len(stack') PROVE k + 2 * Left' <= 2 * Most + Slack(k)'
    <3>1. CASE k \in 1 .. n - 1
      <4>1. k + 2 * Left <= 2 * Most + Slack(k)
        BY <1>1, <1>11, <3>1 DEF DepthInv, Deep, n
      <4>2. Slack(k)' = Slack(k)
        BY <1>1, <1>6, <3>1 DEF Slack, Consumed, n
      <4> QED BY <2>1, <4>1, <4>2
    <3>2. CASE k = n
      <4>1. Slack(k)' = 3
        BY <1>7, <3>2 DEF Slack
      <4> QED BY <2>1, <2>3, <3>2, <4>1
    <3>3. CASE k = n + 1
      <4>1. Len(stack') = n + 1
        BY <1>1, <1>6, <2>4, <3>3
      <4>2. ~ Consumed(k)'
        BY <1>7, <3>3, <4>1 DEF Consumed
      <4>3. Slack(k)' = 4
        BY <1>7, <3>3, <4>1, <4>2 DEF Slack
      <4> QED BY <1>1, <2>1, <2>2, <2>3, <3>3, <4>3
    <3> QED BY <1>1, <1>6, <2>4, <3>1, <3>2, <3>3
  <2>5. ASSUME NEW k \in 1 .. Len(stack'), stack'[k].op = "flush"
        PROVE  \/ k \in 1 .. n - 1 /\ stack[k].op = "flush" /\ stack'[k].at = stack[k].at
                  /\ stack'[k].at \notin {"start", "acks"}
               \/ k = Len(stack') /\ stack'[k].at = "start" /\ stack'[k].size = 0
    <3>1. CASE k \in 1 .. n - 1
      BY <1>1, <1>6, <1>11, <2>5, <3>1 DEF DepthInv, FirstAcks, n
    <3>2. CASE k = n + 1
      BY <1>1, <1>6, <1>7, <2>5, <3>2
    <3> QED BY <1>1, <1>6, <1>7, <2>5, <3>1, <3>2
  <2>6. session'.acks > 0 => \A k \in 1 .. Len(stack') :
            stack'[k].op = "flush" => stack'[k].at \in {"start", "acks"}
    BY <1>1, <1>11, <2>1, <2>5 DEF DepthInv, FirstAcks, n
  <2>7. FirstAcks'
    BY <2>5, <2>6 DEF FirstAcks
  <2> QED BY <2>4, <2>7 DEF DepthInv, Deep, Most
<1> QED BY <1>8, <1>9, <1>10, <1>11 DEF CallInv

\* The release leaves the call where it was in the stack.
LEMMA CallCloseReleasesKeeps ==
    ASSUME Calling!PacketAssumption, CallInv, Calling!CloseReleases
    PROVE  CallInv' /\ (DepthInv => DepthInv')
<1> DEFINE n == Len(stack)
           f == [Calling!Top EXCEPT !.at = "sockets"]
<1>1. /\ stack # <<>> /\ Calling!Top \in CloseFrames /\ Calling!Top.op = "close"
      /\ n \in Nat \ {0} /\ n \in 1 .. n /\ Calling!Top = stack[n]
  BY TopFact DEF CallInv, Calling!CloseReleases, Calling!InCall, Calling!Top
<1>2. f \in Frames /\ f.op = "close" /\ f.at = "sockets" /\ f.reason = Calling!Top.reason
  BY <1>1 DEF CloseFrames, Frames
<1>3. /\ Calling!Becomes(f, <<>>) /\ UNCHANGED more /\ Calling!Release
  BY DEF Calling!CloseReleases
<1> HIDE DEF f
<1>4. /\ stack' \in Seq(Frames) /\ Len(stack') = n
      /\ stack'[n] = f
      /\ \A k \in 1 .. n - 1 : stack'[k] = stack[k]
  BY <1>1, <1>2, <1>3, GoesOnFact DEF CallInv
<1>5. /\ session' \in Blocks /\ session'.acks = session.acks /\ session'.due = session.due /\ session'.dups = session.dups
      /\ session_' \in BOOLEAN /\ frees' \in Nat /\ Owned'
  <2>1. session \in Blocks /\ session_ \in BOOLEAN /\ frees \in Nat /\ Owned
    BY DEF CallInv, CallTypeInv
  <2>2. CASE session_
    <3>1. session' = [session EXCEPT !.live = FALSE] /\ session_' = FALSE /\ frees' = frees + 1 /\ frees = 0
      BY <1>3, <2>1, <2>2 DEF Calling!Release, Owned
    <3>2. /\ session' \in Blocks /\ session'.live = FALSE
          /\ session'.acks = session.acks /\ session'.due = session.due /\ session'.dups = session.dups
      BY <2>1, <3>1 DEF Blocks
    <3>3. session_' \in BOOLEAN /\ ~ session_' /\ ~ session'.live
      BY <3>1, <3>2, Zenon
    <3>4. frees' = 1 /\ frees' \in Nat
      BY <3>1
    <3>5. Owned'
      BY <3>3, <3>4 DEF Owned
    <3> QED BY <3>2, <3>3, <3>4, <3>5
  <2>3. CASE ~ session_
    BY <1>3, <2>1, <2>3 DEF Calling!Release, Owned
  <2> QED BY <2>2, <2>3
<1>6. CallTypeInv'
  BY <1>3, <1>4, <1>5 DEF CallInv, CallTypeInv
<1> HIDE DEF n
<1>7. \A k \in 1 .. n : stack'[k].op = stack[k].op
  BY <1>1, <1>2, <1>4
<1>8. \A k \in 1 .. n : /\ stack'[k].op = "close" => stack'[k].reason = stack[k].reason
                        /\ stack'[k].op = "flush" => k # n /\ stack'[k] = stack[k]
                        /\ stack'[k].at = "release" => k # n /\ stack'[k] = stack[k]
  BY <1>1, <1>2, <1>4
<1>9. Alternate'
  <2> SUFFICES ASSUME NEW k \in 1 .. n - 1
               PROVE  /\ stack'[k].op = "close" => stack'[k + 1].op = "flush"
                      /\ stack'[k].op = "flush" => /\ stack'[k + 1].op = "close"
                                                   /\ stack'[k + 1].reason = Calling!CLIENT_CONNECT_ERROR
    BY <1>4 DEF Alternate
  <2>1. k \in 1 .. n /\ k + 1 \in 1 .. n
    BY <1>1
  <2> QED BY <1>7, <1>8, <2>1 DEF CallInv, Alternate, n
<1>10. Final'
  BY <1>3, <1>4, <1>8 DEF CallInv, Final, Calling!IsFinal, n
<1>11. ASSUME DepthInv PROVE DepthInv'
  <2>1. Left' = Left
    BY <1>5 DEF Left
  <2>2. \A k \in 1 .. n : Slack(k)' = Slack(k)
    <3> TAKE k \in 1 .. n
    <3>1. CASE stack[k].op = "close"
      BY <1>7, <3>1 DEF Slack
    <3>2. CASE stack[k].op # "close"
      <4>1. stack'[k].op # "close" /\ (k # n => stack'[k] = stack[k])
        BY <1>4, <1>7, <3>2, <1>1
      <4>2. k # n
        BY <1>2, <1>4, <4>1
      <4>3. Consumed(k) /\ Consumed(k)'
        BY <1>1, <1>4, <4>2 DEF Consumed, n
      <4> QED BY <3>2, <4>1, <4>3 DEF Slack
    <3> QED BY <3>1, <3>2
  <2>3. Deep'
    BY <1>4, <1>11, <2>1, <2>2 DEF DepthInv, Deep, Most, n
  <2>4. FirstAcks'
    BY <1>4, <1>5, <1>7, <1>8, <1>11 DEF DepthInv, FirstAcks, n
  <2> QED BY <2>3, <2>4 DEF DepthInv
<1> QED BY <1>5, <1>6, <1>9, <1>10, <1>11 DEF CallInv

\* A call begins when none is running, or the session goes on without one.
LEMMA OutsideKeeps ==
    ASSUME Calling!PacketAssumption, CallInv, stack = <<>>,
           stack' = <<>> \/ (\E c \in Frames : stack' = <<c>> /\ c.at \in {"start", "flush"}
                                             /\ (c.op = "flush" => c.size = 0)),
           session' \in Blocks, more' \in BOOLEAN, session'.live = session.live, UNCHANGED <<session_, frees>>
    PROVE  CallInv' /\ DepthInv'
<1>1. /\ stack' \in Seq(Frames) /\ Len(stack') \in {0, 1}
      /\ \A k \in 1 .. Len(stack') : /\ k = 1 /\ k = Len(stack')
                                     /\ stack'[k] \in Frames
                                     /\ stack'[k].at \in {"start", "flush"}
                                     /\ stack'[k].op = "flush" => stack'[k].size = 0
  <2>1. CASE stack' = <<>>
    BY <2>1, EmptySeq
  <2>2. ASSUME NEW c \in Frames, stack' = <<c>>, c.at \in {"start", "flush"},
               c.op = "flush" => c.size = 0
        PROVE  /\ stack' \in Seq(Frames) /\ Len(stack') = 1 /\ stack'[1] = c
    BY <2>2
  <2>3. CASE stack' # <<>>
    <3>1. PICK c \in Frames : stack' = <<c>> /\ c.at \in {"start", "flush"}
                                /\ (c.op = "flush" => c.size = 0)
      BY <2>3
    <3>2. /\ stack' \in Seq(Frames) /\ Len(stack') = 1 /\ stack'[1] = c
      BY <2>2, <3>1
    <3>3. \A k \in 1 .. Len(stack') : k = 1
      BY <3>2
    <3> QED BY <3>1, <3>2, <3>3
  <2> QED BY <2>1, <2>3
<1>2. \A k \in 1 .. Len(stack') : /\ k = 1 /\ k = Len(stack')
                                  /\ stack'[k].at \in {"start", "flush"}
                                  /\ stack'[k] \in Frames
                                  /\ stack'[k].op = "flush" => stack'[k].size = 0
  BY <1>1
<1>3. CallTypeInv' /\ Owned'
  BY <1>1 DEF CallInv, CallTypeInv, Owned
<1>4. Alternate' /\ Final'
  BY <1>1, <1>2 DEF Alternate, Final
<1>5. FirstAcks'
  <2>1. \A k \in 1 .. Len(stack') : stack'[k].op = "flush" => stack'[k].at \in {"start", "acks"}
    BY <1>2 DEF Frames, CloseFrames, FlushFrames
  <2> QED BY <1>2, <2>1 DEF FirstAcks
<1>6. Deep'
  <2>1. Left' \in Nat /\ Most \in Nat /\ Left' <= Most
    BY DEF Left, Most, Blocks, Calling!PacketAssumption
  <2>2. \A k \in 1 .. Len(stack') : Slack(k)' \in {2, 3, 4} /\ k = 1
    BY <1>2 DEF Slack
  <2>3. ASSUME NEW k \in 1 .. Len(stack') PROVE k + 2 * Left' <= 2 * Most + Slack(k)'
    <3>1. k = 1 /\ Slack(k)' \in {2, 3, 4}
      BY <2>2
    <3> QED BY <2>1, <3>1
  <2> QED BY <2>3 DEF Deep, Most
<1> QED BY <1>3, <1>4, <1>5, <1>6 DEF CallInv, DepthInv
-----------------------------------------------------------------------------
(* The specification                                                       *)

\* Nothing is on the stack at first, and the session is there.
LEMMA InitInv == Calling!PacketAssumption /\ Calling!Init => CallInv /\ DepthInv
<1> SUFFICES ASSUME Calling!PacketAssumption, Calling!Init PROVE CallInv /\ DepthInv
  OBVIOUS
<1>1. PICK a \in 0 .. MaxAcks, d \in 0 .. MaxDue, e \in 0 .. MaxDups : session = Calling!Block(a, d, e)
  BY DEF Calling!Init
<1>2. session \in Blocks /\ session.live
  BY <1>1 DEF Calling!Block, Blocks
<1>3. stack = <<>> /\ Len(stack) = 0 /\ session_ = TRUE /\ frees = 0 /\ more \in BOOLEAN
  BY DEF Calling!Init
<1>4. CallTypeInv /\ Owned
  BY <1>2, <1>3 DEF CallTypeInv, Owned
<1>5. Alternate /\ Final /\ Deep /\ FirstAcks
  BY <1>3 DEF Alternate, Final, Deep, FirstAcks
<1> QED BY <1>4, <1>5 DEF CallInv, DepthInv

\* One step per action.
LEMMA CallStepKeeps ==
    ASSUME Calling!PacketAssumption, CallInv, [Calling!Next]_(Calling!vars)
    PROVE  CallInv' /\ (OnePacket /\ DepthInv => DepthInv')
<1>1. CASE Calling!Tick
  <2>1. Calling!FlushCall \in Frames /\ Calling!FlushCall.at = "start" /\ Calling!FlushCall.size = 0
    BY DEF Calling!FlushCall, Frames, FlushFrames, Calling!PacketAssumption
  <2>2. /\ stack = <<>> /\ stack' = <<Calling!FlushCall>> /\ UNCHANGED <<session, session_, more, frees>>
        /\ session \in Blocks /\ more \in BOOLEAN
    BY <1>1 DEF Calling!Tick, CallInv, CallTypeInv
  <2> QED BY <2>1, <2>2, OutsideKeeps
<1>2. ASSUME NEW reason \in Calling!Reasons, Calling!Close(reason)
      PROVE  CallInv' /\ (OnePacket /\ DepthInv => DepthInv')
  <2>1. Calling!CloseCall(reason) \in Frames /\ Calling!CloseCall(reason).at = "flush" /\ Calling!CloseCall(reason).op = "close"
    BY DEF Calling!CloseCall, Frames, CloseFrames, Calling!Reasons
  <2>2. /\ stack = <<>> /\ stack' = <<Calling!CloseCall(reason)>> /\ UNCHANGED <<session, session_, more, frees>>
        /\ session \in Blocks /\ more \in BOOLEAN
    BY <1>2 DEF Calling!Close, CallInv, CallTypeInv
  <2> QED BY <2>1, <2>2, OutsideKeeps
<1>3. ASSUME NEW a \in 0 .. MaxAcks, NEW d \in 0 .. MaxDue, NEW e \in 0 .. MaxDups, Calling!Work(a, d, e)
      PROVE  CallInv' /\ (OnePacket /\ DepthInv => DepthInv')
  <2>1. Calling!Block(a, d, e) \in Blocks /\ Calling!Block(a, d, e).live = TRUE
    BY DEF Calling!Block, Blocks
  <2>2. session.live = TRUE /\ more \in BOOLEAN
    BY <1>3 DEF Calling!Work, CallInv, CallTypeInv, Owned, Blocks
  <2>3. stack = <<>> /\ stack' = <<>> /\ session' = Calling!Block(a, d, e) /\ UNCHANGED <<session_, more, frees>>
    BY <1>3 DEF Calling!Work
  <2> QED BY <2>1, <2>2, <2>3, OutsideKeeps
<1>4. CASE Calling!Relink
  <2>1. /\ stack = <<>> /\ stack' = <<>> /\ UNCHANGED <<session, session_, frees>>
        /\ more' \in BOOLEAN /\ session \in Blocks
    BY <1>4 DEF Calling!Relink, CallInv, CallTypeInv
  <2> QED BY <2>1, OutsideKeeps
<1>5. CASE Calling!FlushEnds \/ Calling!CloseEnds
  <2>1. stack # <<>> /\ Calling!Returns /\ UNCHANGED <<session, session_, more, frees>>
    BY <1>5 DEF Calling!FlushEnds, Calling!CloseEnds, Calling!InCall
  <2> QED BY <2>1, ReturnsKeeps
<1>6. CASE Calling!Crash \/ UNCHANGED Calling!vars
  <2>1. UNCHANGED <<stack, session, session_, more, frees>>
    BY <1>6 DEF Calling!Crash, Calling!vars
  <2> QED BY <2>1 DEF CallInv, CallTypeInv, Owned, Alternate, Final, Calling!IsFinal, DepthInv,
      Deep, FirstAcks,
                Slack, Consumed, Left, Most
<1> QED BY <1>1, <1>2, <1>3, <1>4, <1>5, <1>6, CallCloseBeginsKeeps, CallCloseReleasesKeeps,
           FlushBeginsKeeps, FlushAckKeeps, FlushAcksEndKeeps, FlushSegmentKeeps,
           FlushSegmentsEndKeeps, FlushDupKeeps, FlushPacketKeeps DEF Calling!Next, Calling!Call

\* Closes and flushes alternate on the stack and the block goes with its pointer
\* (conn_client.cpp, InnerClose; kcp_session.cpp, Release).
THEOREM CallInvariant == ASSUME Calling!PacketAssumption PROVE Calling!Spec => []CallInv
<1>1. Calling!Init => CallInv
  BY InitInv
<1>2. CallInv /\ [Calling!Next]_(Calling!vars) => CallInv'
  BY CallStepKeeps
<1> QED BY <1>1, <1>2, PTL DEF Calling!Spec

\* Each part goes its own way.
LEMMA Apart == MCSpec => Calling!Spec
<1>1. MCInit => Calling!Init
  BY DEF MCInit
<1>2. [MCNext]_all => [Calling!Next]_(Calling!vars)
  BY DEF MCNext, all, reentry, Calling!vars
<1> QED BY <1>1, <1>2, PTL DEF MCSpec, Calling!Spec

\* However closes and flushes nest, the session is released at most once, by
\* whichever close comes first, and is live as long as it is not
\* (conn_client.cpp:448-452, kcp_session.cpp:69).
THEOREM NestedOnce == (Calling!Spec => []Calling!ReleasedOnce) /\ (MCSpec => []ReleasedOnce)
<1>1. CallInv => Calling!ReleasedOnce
  BY DEF CallInv, CallTypeInv, Owned, Calling!ReleasedOnce
<1>2. Calling!Spec => []CallInv
  BY CallInvariant, ClosingAssumption
<1>3. Calling!ReleasedOnce <=> ReleasedOnce
  BY DEF ReleasedOnce
<1> QED BY <1>1, <1>2, <1>3, Apart, PTL

\* A close that began as final is the outermost.
LEMMA FinalIsFirst ==
    ASSUME CallInv, stack # <<>>, Calling!Top.op = "close", Calling!IsFinal(Calling!Top.reason)
    PROVE  Len(stack) = 1
<1> DEFINE n == Len(stack)
<1>1. n \in Nat \ {0} /\ Calling!Top = stack[n]
  BY TopFact DEF CallInv, Calling!Top
<1> SUFFICES ASSUME n # 1 PROVE FALSE
  OBVIOUS
<1>2. n - 1 \in 1 .. n - 1 /\ n - 1 \in 1 .. n /\ (n - 1) + 1 = n
  <2> HIDE DEF n
  <2> QED BY <1>1
<1>3. stack[n - 1].op \in {"close", "flush"}
  BY <1>2 DEF CallInv, CallTypeInv, Frames, CloseFrames, FlushFrames
<1>4. stack[n - 1].op = "close" => stack[(n - 1) + 1].op = "flush"
  BY <1>2 DEF CallInv, Alternate
<1>5. stack[n - 1].op = "flush" => stack[(n - 1) + 1].reason = Calling!CLIENT_CONNECT_ERROR
  BY <1>2 DEF CallInv, Alternate
<1> QED BY <1>1, <1>2, <1>3, <1>4, <1>5 DEF Calling!IsFinal, Calling!CLIENT_CONNECT_ERROR

\* A send that fails below a flush never releases the session while attempts
\* are left: the release is the work of the outermost close, a final one.
THEOREM NestedRelink == (Calling!Spec => Calling!RelinkKeepsSession) /\ (MCSpec => RelinkKeepsSession)
<1>1. CallInv /\ [Calling!Next]_(Calling!vars) => [frees' > frees /\ more =>
                                stack[1].op = "close" /\ Calling!IsFinal(stack[1].reason)]_(Calling!vars)
  <2> SUFFICES ASSUME CallInv, [Calling!Next]_(Calling!vars), frees' > frees, more
               PROVE  stack[1].op = "close" /\ Calling!IsFinal(stack[1].reason)
    OBVIOUS
  <2>1. frees' # frees
    BY DEF CallInv, CallTypeInv
  <2>2. Calling!CloseReleases
    BY <2>1 DEF Calling!Next, Calling!Call, Calling!vars, Calling!Tick, Calling!Close,
        Calling!Work, Calling!Relink, Calling!CloseBegins, Calling!CloseEnds, Calling!FlushBegins,
                Calling!FlushAck, Calling!FlushAcksEnd, Calling!FlushSegment,
                Calling!FlushSegmentsEnd, Calling!FlushDup, Calling!FlushDupsFull,
                Calling!FlushRest, Calling!FlushEnds, Calling!Crash, Calling!Pack, Calling!Goes
  <2>3. stack # <<>> /\ Calling!Top.op = "close" /\ Calling!Top.at = "release"
    BY <2>2 DEF Calling!CloseReleases, Calling!InCall
  <2>4. Len(stack) \in 1 .. Len(stack)
    BY <2>3, TopFact DEF CallInv
  <2>5. Calling!IsFinal(Calling!Top.reason)
    BY <2>3, <2>4 DEF CallInv, Final, Calling!Top
  <2>6. Len(stack) = 1
    BY <2>3, <2>5, FinalIsFirst
  <2> QED BY <2>3, <2>5, <2>6 DEF Calling!Top
<1>2. Calling!Spec => []CallInv
  BY CallInvariant, ClosingAssumption
<1>3. Calling!Spec => Calling!RelinkKeepsSession
  BY <1>1, <1>2, PTL DEF Calling!Spec, Calling!RelinkKeepsSession
<1>4. Calling!RelinkKeepsSession => RelinkKeepsSession
  BY DEF RelinkKeepsSession
<1> QED BY <1>3, <1>4, Apart, PTL

\* When one packet holds the acknowledgements, the calls nest no deeper than
\* twice the segments and duplicates that may wait, and four more.
THEOREM NestedShallow == (Calling!Spec => []Calling!DepthBounded) /\ (MCSpec => []DepthBounded)
<1>1. Calling!Init => CallInv /\ DepthInv
  BY InitInv, ClosingAssumption
<1>2. CallInv /\ DepthInv /\ [Calling!Next]_(Calling!vars) => (CallInv /\ DepthInv)'
  BY CallStepKeeps, ClosingAssumption, OnePacketAssumption DEF OnePacket
<1>3. CallInv /\ DepthInv => Calling!DepthBounded
  <2> SUFFICES ASSUME CallInv, DepthInv PROVE Len(stack) <= 2 * (MaxDue + MaxDups + 2)
    BY DEF Calling!DepthBounded
  <2> DEFINE n == Len(stack)
  <2>1. n \in Nat /\ Left \in Nat /\ Most \in Nat
    BY LeftFact, ClosingAssumption DEF CallInv, CallTypeInv
  <2>2. n <= 2 * Most + 4
    <3>1. CASE n = 0
      BY <2>1, <3>1
    <3>2. CASE n # 0
      <4>1. n \in 1 .. Len(stack)
        BY <2>1, <3>2
      <4>2. n + 2 * Left <= 2 * Most + Slack(n) /\ Slack(n) \in {2, 3, 4}
        BY <4>1 DEF DepthInv, Deep, Slack
      <4> QED BY <2>1, <4>2
    <3> QED BY <3>1, <3>2
  <2> QED BY <2>1, <2>2, ClosingAssumption DEF Most, Calling!PacketAssumption
<1>4. Calling!DepthBounded <=> DepthBounded
  BY DEF DepthBounded
<1> QED BY <1>1, <1>2, <1>3, <1>4, Apart, PTL DEF Calling!Spec

-----------------------------------------------------------------------------
(* The walk of the update hook                                             *)

\* The clients the walk has passed: up to the index, or before it while none
\* is updated.
Passed == IF cur = Binding!None THEN i - 1 ELSE i

\* What the walk has passed without updating it.
Missed == {c \in begin : c \notin ToSet(updated) /\ \E k \in 1 .. Passed :
                            k <= Len(g_connclients) /\ g_connclients[k] = c}

WalkTypes ==
    /\ g_connclients \in Seq(Clients)
    /\ created \subseteq Clients
    /\ updated \in Seq(Clients)
    /\ begin \subseteq created /\ IsFiniteSet(begin)
    /\ cur \in Clients \cup {Binding!None}
    /\ i \in Nat /\ closes \in Nat /\ in_callback \in BOOLEAN

\* The vector holds a client once, and only clients that were created.
EachClientOnce ==
    /\ \A j, k \in 1 .. Len(g_connclients) : g_connclients[j] = g_connclients[k] => j = k
    /\ \A k \in 1 .. Len(g_connclients) : g_connclients[k] \in created

\* Outside of the hook nothing is updated.
NothingOutside ==
    /\ i = 0 => cur = Binding!None
    /\ in_callback => cur # Binding!None

\* A client that was updated was created, and the walk does not meet it again.
UpdatedBehind ==
    /\ \A j \in 1 .. Len(updated) : updated[j] \in created
    /\ i > 0 => \A j \in 1 .. Len(updated), k \in 1 .. Len(g_connclients) :
                    updated[j] = g_connclients[k] => k <= Passed

FewMissed == i > 0 => Cardinality(Missed) <= closes

WalkInv == WalkTypes /\ EachClientOnce /\ NothingOutside /\ UpdatedBehind /\ UpdatedOnce /\ FewMissed
-----------------------------------------------------------------------------
\* erase: what is behind the place moves by one.
LEMMA RemoveAtFact ==
    ASSUME NEW S, NEW s \in Seq(S), NEW k \in 1 .. Len(s)
    PROVE  /\ RemoveAt(s, k) \in Seq(S)
           /\ Len(RemoveAt(s, k)) = Len(s) - 1
           /\ \A j \in 1 .. Len(s) - 1 :
                  RemoveAt(s, k)[j] = IF j < k THEN s[j] ELSE s[j + 1]
<1> DEFINE p == SubSeq(s, 1, k - 1)
           q == SubSeq(s, k + 1, Len(s))
<1>1. p \in Seq(S) /\ Len(p) = k - 1 /\ \A j \in 1 .. k - 1 : p[j] = s[j]
  OBVIOUS
<1>2. q \in Seq(S) /\ Len(q) = Len(s) - k /\ \A j \in 1 .. Len(s) - k : q[j] = s[k + j]
  OBVIOUS
<1>3. RemoveAt(s, k) = p \o q
  BY DEF RemoveAt
<1> HIDE DEF p, q
<1>4. /\ p \o q \in Seq(S) /\ Len(p \o q) = Len(s) - 1
      /\ \A j \in 1 .. Len(s) - 1 : (p \o q)[j] = IF j < k THEN p[j] ELSE q[j - (k - 1)]
  <2>1. /\ p \o q \in Seq(S) /\ Len(p \o q) = Len(p) + Len(q)
        /\ \A j \in 1 .. Len(p) + Len(q) :
               (p \o q)[j] = IF j <= Len(p) THEN p[j] ELSE q[j - Len(p)]
    BY <1>1, <1>2, ConcatProperties
  <2>2. Len(p) = k - 1 /\ Len(p) + Len(q) = Len(s) - 1
    BY <1>1, <1>2
  <2>3. \A j \in 1 .. Len(s) - 1 : j <= k - 1 <=> j < k
    OBVIOUS
  <2> QED BY <2>1, <2>2, <2>3
<1>5. \A j \in 1 .. Len(s) - 1 : j >= k => q[j - (k - 1)] = s[j + 1]
  <2> SUFFICES ASSUME NEW j \in 1 .. Len(s) - 1, j >= k PROVE q[j - (k - 1)] = s[j + 1]
    OBVIOUS
  <2>1. j - (k - 1) \in 1 .. Len(s) - k /\ k + (j - (k - 1)) = j + 1
    OBVIOUS
  <2> QED BY <1>2, <2>1
<1> QED BY <1>1, <1>3, <1>4, <1>5

\* A connection is valid when the vector has it, and IndexOf finds it there.
LEMMA IndexOfFact ==
    ASSUME NEW c, Binding!IsConnectionValid(c)
    PROVE  Binding!IndexOf(c) \in 1 .. Len(g_connclients) /\ g_connclients[Binding!IndexOf(c)] = c
BY DEF Binding!IsConnectionValid, Binding!IndexOf

\* What was missed are some of the clients that were there at the beginning.
LEMMA MissedFinite == IsFiniteSet(begin) => IsFiniteSet(Missed) /\ Cardinality(Missed) \in Nat
<1> SUFFICES ASSUME IsFiniteSet(begin) PROVE IsFiniteSet(Missed)
  BY FS_CardinalityType
<1>1. Missed \in SUBSET begin
  BY DEF Missed
<1> QED BY <1>1, FS_Subset

\* A set with at most one element more than a finite one.
LEMMA OneElementMore ==
    ASSUME NEW A, NEW B, NEW x, IsFiniteSet(A), B \subseteq A \cup {x}
    PROVE  IsFiniteSet(B) /\ Cardinality(B) <= Cardinality(A) + 1
<1>1. /\ IsFiniteSet(A \cup {x})
      /\ Cardinality(A \cup {x}) = IF x \in A THEN Cardinality(A) ELSE Cardinality(A) + 1
  BY FS_AddElement
<1>2. IsFiniteSet(B) /\ Cardinality(B) <= Cardinality(A \cup {x})
  BY <1>1, FS_Subset
<1>3. Cardinality(B) \in Nat /\ Cardinality(A \cup {x}) \in Nat /\ Cardinality(A) \in Nat
  BY <1>1, <1>2, FS_CardinalityType
<1> QED BY <1>1, <1>2, <1>3

\* The registry is empty when the extension starts.
LEMMA WalkInit == Binding!Init => WalkInv
<1> SUFFICES ASSUME Binding!Init PROVE WalkInv
  OBVIOUS
<1> USE DEF Binding!Init
<1>1. WalkTypes
  BY FS_EmptySet, EmptySeq DEF WalkTypes
<1>2. EachClientOnce /\ NothingOutside /\ UpdatedBehind /\ UpdatedOnce /\ FewMissed
  BY DEF EachClientOnce, NothingOutside, UpdatedBehind, UpdatedOnce, Binding!UpdatedOnce, FewMissed
<1> QED BY <1>1, <1>2 DEF WalkInv

\* The walk goes on as before: only the vector may have grown behind it.
LEMMA WalkUndisturbed ==
    ASSUME WalkInv, UNCHANGED <<i, cur, begin, updated, closes>>,
           g_connclients' \in Seq(Clients),
           Len(g_connclients) <= Len(g_connclients'),
           \A k \in 1 .. Len(g_connclients) : g_connclients'[k] = g_connclients[k],
           \A k \in Len(g_connclients) + 1 .. Len(g_connclients') :
               g_connclients'[k] \notin created,
           created \subseteq created', created' \subseteq Clients,
           in_callback' \in BOOLEAN, in_callback' => cur # Binding!None, EachClientOnce'
    PROVE  WalkInv'
<1> USE DEF WalkInv
<1>1. WalkTypes' /\ NothingOutside'
  BY DEF WalkTypes, NothingOutside
<1>2. Passed' = Passed /\ Passed \in Int
  BY DEF Passed, WalkTypes, Binding!None
<1>3. UpdatedBehind'
  <2>1. \A j \in 1 .. Len(updated) : updated[j] \in created'
    BY DEF UpdatedBehind
  <2>2. ASSUME i > 0, NEW j \in 1 .. Len(updated), NEW k \in 1 .. Len(g_connclients'),
               updated[j] = g_connclients'[k]
        PROVE  k <= Passed
    <3>1. updated[j] \in created
      BY DEF UpdatedBehind
    <3>2. k \in 1 .. Len(g_connclients)
      BY <2>2, <3>1 DEF WalkTypes
    <3> QED BY <2>2, <3>2 DEF UpdatedBehind
  <2> QED BY <1>2, <2>1, <2>2 DEF UpdatedBehind
<1>4. UpdatedOnce'
  BY DEF UpdatedOnce, Binding!UpdatedOnce
<1>5. Missed' \subseteq Missed
  <2> SUFFICES ASSUME NEW c \in Missed' PROVE c \in Missed
    OBVIOUS
  <2>1. c \in begin /\ c \notin ToSet(updated)
    BY DEF Missed
  <2>2. PICK k \in 1 .. Passed : k <= Len(g_connclients') /\ g_connclients'[k] = c
    BY <1>2 DEF Missed
  <2>3. k <= Len(g_connclients)
    BY <1>2, <2>1, <2>2 DEF WalkTypes
  <2>4. g_connclients[k] = c
    BY <1>2, <2>2, <2>3 DEF WalkTypes
  <2> QED BY <2>1, <2>2, <2>3, <2>4 DEF Missed
<1>6. FewMissed'
  BY <1>5, MissedFinite, FS_Subset, FS_CardinalityType DEF FewMissed, WalkTypes
<1> QED BY <1>1, <1>3, <1>4, <1>6

\* create: the new client comes behind the others, and nothing knew of it.
LEMMA CreateInv == ASSUME WalkInv, NEW c \in Clients, Binding!Create(c) PROVE WalkInv'
<1> USE DEF WalkInv
<1>1. g_connclients' = Append(g_connclients, c) /\ g_connclients \in Seq(Clients)
  BY DEF Binding!Create, Binding!PushBack, WalkTypes
<1>2. /\ g_connclients' \in Seq(Clients)
      /\ Len(g_connclients') = Len(g_connclients) + 1
      /\ \A k \in 1 .. Len(g_connclients) : g_connclients'[k] = g_connclients[k]
      /\ g_connclients'[Len(g_connclients) + 1] = c
  BY <1>1, AppendProperties
<1>3. c \notin created /\ created' = created \cup {c}
  BY DEF Binding!Create
<1>4. EachClientOnce'
  <2>1. \A k \in 1 .. Len(g_connclients') :
            k \in 1 .. Len(g_connclients) \/ k = Len(g_connclients) + 1
    BY <1>1, <1>2
  <2> QED BY <1>2, <1>3, <2>1 DEF EachClientOnce
<1>5. /\ UNCHANGED <<i, cur, begin, updated, closes>>
      /\ in_callback' = in_callback
  BY DEF Binding!Create, Binding!hook_vars
<1> QED BY <1>2, <1>3, <1>4, <1>5, WalkUndisturbed DEF WalkTypes, NothingOutside

\* close: whoever is behind the client in the vector moves by one, and one of
\* them may come to lie behind the walk.
LEMMA CloseInv == ASSUME WalkInv, NEW c \in Clients, Binding!CloseClient(c) PROVE WalkInv'
<1> USE DEF WalkInv
<1> DEFINE g == g_connclients
           x == Binding!IndexOf(c)
<1>1. x \in 1 .. Len(g) /\ g \in Seq(Clients)
  BY IndexOfFact DEF Binding!CloseClient, WalkTypes
<1>2. /\ g' \in Seq(Clients) /\ Len(g') = Len(g) - 1
      /\ \A k \in 1 .. Len(g) - 1 : g'[k] = IF k < x THEN g[k] ELSE g[k + 1]
  BY <1>1, RemoveAtFact
  DEF Binding!CloseClient, Binding!RemoveConnection, Binding!RemoveAt, RemoveAt
<1>3. UNCHANGED <<created, i, cur, in_callback, begin, updated>> /\ closes' = closes + 1
  BY DEF Binding!CloseClient, Binding!hook_vars
<1>4. Passed' = Passed /\ Passed \in Int
  BY <1>3 DEF Passed, WalkTypes
<1> HIDE DEF x
<1>5. WalkTypes' /\ NothingOutside' /\ UpdatedOnce'
  BY <1>2, <1>3 DEF WalkTypes, NothingOutside, UpdatedOnce, Binding!UpdatedOnce
<1>6. EachClientOnce'
  <2> DEFINE old(k) == IF k < x THEN k ELSE k + 1
  <2>1. \A k \in 1 .. Len(g') : old(k) \in 1 .. Len(g) /\ g'[k] = g[old(k)]
    <3> SUFFICES ASSUME NEW k \in 1 .. Len(g')
                 PROVE  old(k) \in 1 .. Len(g) /\ g'[k] = g[old(k)]
      OBVIOUS
    <3>1. k \in 1 .. Len(g) - 1 /\ Len(g) \in Nat
      BY <1>1, <1>2
    <3>2. CASE k < x
      BY <1>1, <1>2, <3>1, <3>2
    <3>3. CASE ~ (k < x)
      BY <1>1, <1>2, <3>1, <3>3
    <3> QED BY <3>2, <3>3
  <2>2. \A j, k \in 1 .. Len(g') : old(j) = old(k) => j = k
    BY <1>1, <1>2
  <2> HIDE DEF old
  <2> QED BY <1>3, <2>1, <2>2 DEF EachClientOnce
<1>7. UpdatedBehind'
  BY <1>1, <1>2, <1>3, <1>4 DEF UpdatedBehind, WalkTypes
<1>8. Missed' \subseteq Missed \cup {g[Passed + 1]}
  <2> SUFFICES ASSUME NEW m \in Missed', m # g[Passed + 1] PROVE m \in Missed
    OBVIOUS
  <2>1. m \in begin /\ m \notin ToSet(updated)
    BY <1>3 DEF Missed
  <2>2. PICK k \in 1 .. Passed : k <= Len(g') /\ g'[k] = m
    BY <1>4 DEF Missed
  <2>3. CASE k < x
    <3>1. k <= Len(g) /\ g[k] = m
      BY <1>1, <1>2, <1>4, <2>2, <2>3
    <3> QED BY <2>1, <2>2, <3>1 DEF Missed
  <2>4. CASE ~ (k < x)
    <3>1. k + 1 <= Len(g) /\ g[k + 1] = m
      BY <1>1, <1>2, <1>4, <2>2, <2>4
    <3>2. k + 1 \in 1 .. Passed
      BY <1>4, <2>2, <3>1
    <3> QED BY <2>1, <3>1, <3>2 DEF Missed
  <2> QED BY <2>3, <2>4
<1>9. FewMissed'
  <2>1. i > 0 => Cardinality(Missed) <= closes
    BY DEF FewMissed
  <2>2. IsFiniteSet(Missed) /\ Cardinality(Missed) \in Nat
    BY MissedFinite DEF WalkTypes
  <2>3. Cardinality(Missed') <= Cardinality(Missed) + 1 /\ Cardinality(Missed') \in Nat
    BY <1>8, <2>2, OneElementMore, FS_CardinalityType
  <2> QED BY <1>3, <2>1, <2>2, <2>3 DEF FewMissed, WalkTypes
<1> QED BY <1>5, <1>6, <1>7, <1>9

\* The hook is called: nothing is passed yet.
LEMMA HookBeginsInv == ASSUME WalkInv, Binding!HookBegins PROVE WalkInv'
<1> USE DEF WalkInv
<1>1. /\ i = 0 /\ i' = 1 /\ begin' = ToSet(g_connclients) /\ updated' = <<>> /\ closes' = 0
      /\ UNCHANGED <<g_connclients, created, cur, in_callback>> /\ cur = Binding!None
  BY DEF Binding!HookBegins, Binding!FirstIndex, Binding!client_vars, NothingOutside,
         Binding!ToSet, ToSet
<1>2. IsFiniteSet(begin')
  <2> DEFINE f == [k \in 1 .. Len(g_connclients) |-> g_connclients[k]]
  <2>1. IsFiniteSet(1 .. Len(g_connclients))
    BY FS_Interval DEF WalkTypes
  <2>2. begin' = {g_connclients[k] : k \in 1 .. Len(g_connclients)}
    BY <1>1 DEF ToSet, WalkTypes
  <2>3. f \in [1 .. Len(g_connclients) -> begin']
    BY <2>2
  <2>4. \A c \in begin' : \E k \in 1 .. Len(g_connclients) : f[k] = c
    BY <2>2
  <2>5. f \in Surjection(1 .. Len(g_connclients), begin')
    BY <2>3, <2>4 DEF Surjection
  <2> QED BY <2>1, <2>5, FS_Surjection
<1>3. begin' \subseteq created
  BY <1>1 DEF ToSet, EachClientOnce, WalkTypes
<1>4. WalkTypes'
  BY <1>1, <1>2, <1>3, EmptySeq DEF WalkTypes
<1>5. EachClientOnce' /\ NothingOutside' /\ UpdatedBehind' /\ UpdatedOnce'
  BY <1>1 DEF EachClientOnce, NothingOutside, UpdatedBehind, UpdatedOnce, Binding!UpdatedOnce
<1>6. Missed' = {}
  BY <1>1 DEF Missed, Passed
<1>7. FewMissed'
  BY <1>1, <1>6, FS_EmptySet DEF FewMissed
<1> QED BY <1>4, <1>5, <1>7

\* The walk comes to a client: it lay ahead, so it was not updated yet.
LEMMA UpdateBeginsInv == ASSUME WalkInv, Binding!UpdateBegins PROVE WalkInv'
<1> USE DEF WalkInv
<1> DEFINE c == g_connclients[i]
<1>1. /\ i \in 1 .. Len(g_connclients) /\ cur = Binding!None /\ cur' = c
      /\ updated' = Append(updated, c)
      /\ UNCHANGED <<g_connclients, created, i, in_callback, begin, closes>>
  BY DEF Binding!UpdateBegins, Binding!client_vars
<1>2. c \in Clients /\ c # Binding!None /\ c \in created
  BY <1>1, BindingAssumption DEF Binding!ExtensionAssumption, WalkTypes, EachClientOnce
<1> HIDE DEF c
<1>3. /\ updated' \in Seq(Clients) /\ Len(updated') = Len(updated) + 1
      /\ \A j \in 1 .. Len(updated) : updated'[j] = updated[j]
      /\ updated'[Len(updated) + 1] = c
  BY <1>1, <1>2, AppendProperties DEF WalkTypes
<1>4. \A j \in 1 .. Len(updated') : j \in 1 .. Len(updated) \/ j = Len(updated) + 1
  BY <1>3 DEF WalkTypes
<1>5. Passed = i - 1 /\ Passed' = i
  BY <1>1, <1>2 DEF Passed
<1>6. WalkTypes' /\ NothingOutside' /\ EachClientOnce'
  BY <1>1, <1>2, <1>3 DEF WalkTypes, NothingOutside, EachClientOnce
<1>7. \A j \in 1 .. Len(updated) : updated[j] # c
  BY <1>1, <1>5 DEF UpdatedBehind, WalkTypes, c
<1>8. UpdatedOnce'
  BY <1>3, <1>4, <1>7 DEF UpdatedOnce, Binding!UpdatedOnce
<1>9. UpdatedBehind'
  <2>1. \A j \in 1 .. Len(updated') : updated'[j] \in created'
    BY <1>1, <1>2, <1>3, <1>4 DEF UpdatedBehind
  <2>2. \A k \in 1 .. Len(g_connclients) : c = g_connclients[k] => k = i
    BY <1>1 DEF EachClientOnce, c
  <2>3. ASSUME NEW j \in 1 .. Len(updated'), NEW k \in 1 .. Len(g_connclients),
               updated'[j] = g_connclients[k]
        PROVE  k <= i
    BY <1>1, <1>3, <1>4, <1>5, <2>2, <2>3 DEF UpdatedBehind, WalkTypes
  <2> QED BY <1>1, <1>5, <2>1, <2>3 DEF UpdatedBehind
<1>10. Missed' \subseteq Missed
  <2> SUFFICES ASSUME NEW m \in Missed' PROVE m \in Missed
    OBVIOUS
  <2>1. m \in begin /\ m \notin ToSet(updated')
    BY <1>1 DEF Missed
  <2>2. \A j \in 1 .. Len(updated') : updated'[j] # m
    BY <1>3, <2>1 DEF ToSet
  <2>3. m \notin ToSet(updated) /\ m # c
    BY <1>3, <2>2 DEF ToSet, WalkTypes
  <2>4. PICK k \in 1 .. i : k <= Len(g_connclients) /\ g_connclients[k] = m
    BY <1>1, <1>5 DEF Missed
  <2>5. k \in 1 .. i - 1
    BY <1>1, <2>3, <2>4 DEF WalkTypes, c
  <2> QED BY <1>5, <2>1, <2>3, <2>4, <2>5 DEF Missed
<1>11. FewMissed'
  BY <1>1, <1>10, MissedFinite, FS_Subset, FS_CardinalityType DEF FewMissed, WalkTypes
<1> QED BY <1>6, <1>8, <1>9, <1>11

\* What the walk has passed stays the same when it leaves a client.
LEMMA UpdateEndsInv == ASSUME WalkInv, Binding!UpdateEnds PROVE WalkInv'
<1> USE DEF WalkInv
<1>1. /\ cur # Binding!None /\ cur' = Binding!None /\ i' = i + 1 /\ ~ in_callback
      /\ UNCHANGED <<g_connclients, created, in_callback, begin, updated, closes>>
  BY DEF Binding!UpdateEnds, Binding!client_vars
<1>2. Passed' = Passed /\ i > 0
  BY <1>1 DEF Passed, WalkTypes, NothingOutside
<1>3. WalkTypes' /\ NothingOutside' /\ EachClientOnce' /\ UpdatedOnce'
  BY <1>1 DEF WalkTypes, NothingOutside, EachClientOnce, UpdatedOnce, Binding!UpdatedOnce
<1>4. UpdatedBehind'
  BY <1>1, <1>2 DEF UpdatedBehind
<1>5. Missed' = Missed
  BY <1>1, <1>2 DEF Missed
<1>6. FewMissed'
  BY <1>1, <1>2, <1>5 DEF FewMissed
<1> QED BY <1>3, <1>4, <1>6

\* The end of a walk of the update hook.
LEMMA HookEndsInv == ASSUME WalkInv, Binding!HookEnds PROVE WalkInv'
<1> USE DEF WalkInv
<1>1. /\ cur = Binding!None /\ i' = 0
      /\ UNCHANGED <<g_connclients, created, cur, in_callback, begin, updated, closes>>
  BY DEF Binding!HookEnds, Binding!client_vars
<1> QED BY <1>1 DEF WalkTypes, NothingOutside, EachClientOnce, UpdatedOnce, Binding!UpdatedOnce, UpdatedBehind, FewMissed

\* The rest leaves the vector and the walk alone.
LEMMA WalkNext == WalkInv /\ [Binding!Next]_(Binding!vars) => WalkInv'
<1> SUFFICES ASSUME WalkInv, [Binding!Next]_(Binding!vars) PROVE WalkInv'
  OBVIOUS
<1> DEFINE Same == /\ UNCHANGED <<g_connclients, created, i, cur, begin, updated, closes>>
                   /\ in_callback' \in BOOLEAN /\ (in_callback' => cur # Binding!None)
<1>1. Same => WalkInv'
  <2> SUFFICES ASSUME Same PROVE WalkInv'
    OBVIOUS
  <2>1. g_connclients' \in Seq(Clients) /\ created \subseteq Clients
    BY DEF WalkInv, WalkTypes
  <2>2. EachClientOnce'
    BY DEF WalkInv, EachClientOnce
  <2> QED BY <2>1, <2>2, WalkUndisturbed DEF WalkTypes
<1>2. in_callback \in BOOLEAN /\ (in_callback => cur # Binding!None)
  BY DEF WalkInv, WalkTypes, NothingOutside
<1>3. ASSUME NEW c \in Clients, Binding!Create(c) PROVE WalkInv'
  BY <1>3, CreateInv
<1>4. ASSUME NEW c \in Clients, Binding!Connect(c) PROVE WalkInv'
  BY <1>1, <1>2, <1>4 DEF Binding!Connect, Binding!hook_vars
<1>5. ASSUME NEW c \in Clients, Binding!CloseClient(c) PROVE WalkInv'
  BY <1>5, CloseInv
<1>6. ASSUME NEW c \in Clients, NEW kind \in Kinds, Binding!SetCallback(c, kind) PROVE WalkInv'
  BY <1>1, <1>2, <1>6 DEF Binding!SetCallback, Binding!hook_vars
<1>7. ASSUME NEW c \in Clients, NEW kind \in Kinds, Binding!Event(c, kind) PROVE WalkInv'
  BY <1>1, <1>2, <1>7 DEF Binding!Event, Binding!client_vars, Binding!hook_vars
<1>8. CASE Binding!CallbackReturns
  BY <1>1, <1>8 DEF Binding!CallbackReturns, Binding!client_vars
<1>9. CASE Binding!HookBegins
  BY <1>9, HookBeginsInv
<1>10. CASE Binding!UpdateBegins
  BY <1>10, UpdateBeginsInv
<1>11. CASE Binding!Deliver
  BY <1>1, <1>11 DEF Binding!Deliver, Binding!client_vars
<1>12. CASE Binding!UpdateEnds
  BY <1>12, UpdateEndsInv
<1>13. CASE Binding!HookEnds
  BY <1>13, HookEndsInv
<1>14. CASE UNCHANGED Binding!vars
  BY <1>1, <1>2, <1>14 DEF Binding!vars, Binding!client_vars, Binding!hook_vars
<1> QED BY <1>3, <1>4, <1>5, <1>6, <1>7, <1>8, <1>9, <1>10, <1>11, <1>12, <1>13, <1>14
        DEF Binding!Next, Binding!Hook

\* The inductive invariant holds in every reachable state.
THEOREM WalkInvariant == BindingSpec => []WalkInv
BY WalkInit, WalkNext, PTL DEF BindingSpec, Binding!Spec

\* No client is updated twice in a frame, whatever the callbacks do to the vector
\* under the walk (myextension.cpp:277-283).
THEOREM EachOnce == BindingSpec => []UpdatedOnce
<1>1. WalkInv => UpdatedOnce
  BY DEF WalkInv
<1> QED BY <1>1, WalkInvariant, PTL

\* The binding counts as this module does.
LEMMA SameCardinality == ASSUME NEW S PROVE Binding!Cardinality(S) = Cardinality(S)
BY DEF Binding!Cardinality, Cardinality

\* A frame misses at most one client for each close of its callbacks
\* (myextension.cpp:32, :279).
THEOREM FewAreMissed == BindingSpec => []MissedAtMostClosed
<1>1. WalkInv => MissedAtMostClosed
  <2> SUFFICES ASSUME WalkInv, i > Len(g_connclients), cur = Binding!None
               PROVE  Cardinality((begin \cap ToSet(g_connclients)) \ ToSet(updated)) <= closes
    BY SameCardinality DEF MissedAtMostClosed, Binding!MissedAtMostClosed, Binding!ToSet, ToSet
  <2>1. (begin \cap ToSet(g_connclients)) \ ToSet(updated) = Missed
    <3>1. Passed = i - 1 /\ Len(g_connclients) \in Nat /\ i \in Nat
      BY DEF Passed, WalkInv, WalkTypes
    <3>2. \A k \in 1 .. Len(g_connclients) : k \in 1 .. Passed
      BY <3>1
    <3>3. ToSet(g_connclients) = {g_connclients[k] : k \in 1 .. Len(g_connclients)}
      BY DEF ToSet, WalkInv, WalkTypes
    <3> QED BY <3>1, <3>2, <3>3 DEF Missed
  <2>2. i > 0
    BY DEF WalkInv, WalkTypes
  <2> QED BY <2>1, <2>2 DEF WalkInv, FewMissed
<1> QED BY <1>1, WalkInvariant, PTL
=============================================================================
