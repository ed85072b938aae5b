-------------------------- MODULE LifecycleProofs --------------------------
(***************************************************************************)
(* Shutdown, for any number of calls: the shape of the state, and what     *)
(* ends the forwarder.                                                     *)
(***************************************************************************)
EXTENDS Lifecycle, TLAPS

\* Zenon unless a leaf names another prover: SMT for arithmetic, PTL for temporal logic.
USE Zenon

AuctionEnds == AuctionPanics \/ AuctionReturns

\* Every state is well typed; and a server that has not started or is over has
\* no call in flight: none is opened on it, and it stops only when its last call
\* has ended.
THEOREM LifecycleTypeCorrect == Spec => []TypeOK
<1> USE DEF TypeOK
<1>1. Init => TypeOK
  BY DEF Init
<1>2. TypeOK /\ [Next]_vars => TypeOK'
  <2> SUFFICES ASSUME TypeOK, [Next]_vars PROVE TypeOK'
    OBVIOUS
  <2>1. CASE AuctionEnds \/ Signal \/ HandlerFails \/ ForwarderExits \/ UNCHANGED vars
    BY <2>1 DEF AuctionEnds, AuctionPanics, AuctionReturns, Signal, HandlerFails, ForwarderExits, vars
  <2>2. ASSUME NEW s \in Servers, Bind(s) \/ Drain(s) PROVE TypeOK'
    BY <2>2 DEF Bind, Drain
  <2>3. ASSUME NEW s \in Servers, BindFails(s) PROVE TypeOK'
    BY <2>3 DEF BindFails, MainEnds
  <2>4. ASSUME NEW s \in Servers, Stop(s) PROVE TypeOK'
    BY <2>4 DEF Stop, MainEnds
  <2>5. ASSUME NEW s \in Servers, NEW c \in Calls, EndCall(s, c) PROVE TypeOK'
    BY <2>5 DEF EndCall
  <2>6. ASSUME NEW s \in Servers, NEW c \in Calls, NEW stream \in BOOLEAN,
               OpenCall(s, c, stream)
        PROVE  TypeOK'
    BY <2>6 DEF OpenCall
  <2>7. ASSUME NEW c \in Calls, FeederEnds(c) PROVE TypeOK'
    BY <2>7 DEF FeederEnds
  <2> QED
    BY <2>1, <2>2, <2>3, <2>4, <2>5, <2>6, <2>7 DEF Next, AuctionEnds
<1> QED
  BY <1>1, <1>2, PTL DEF Spec

-----------------------------------------------------------------------------
(* The forwarder. A server is past serving only if it was told to shut down *)
(* or did not start, and a relayer server that is over never starts again;  *)
(* with it over, no packet stream is opened that could bring senders back.  *)
(* The auction task returns only after the forwarder, so that the bundle    *)
(* channel can close first only by the task's panic.                        *)

Told == signal # "waiting"
Over(s) == server[s] \in {"stopped", "failed"}

\* The strengthening of ForwarderNeeded: why the forwarder could exit, kept
\* as a fact about the state it exited in.
ForwarderInv ==
  /\ server \in [Servers -> {"starting", "up", "draining", "stopped", "failed"}]
  /\ \A s \in Servers : server[s] \in {"draining", "stopped"} => Told
  /\ auction \in {"zero", "running", "panicked", "returned"}
  /\ auction = "returned" => ~forwarder
  /\ ~forwarder => ~upstream /\ (Over("relayer") \/ auction = "panicked")

\* Servers only move on, and towards a stop only when told to.
LEMMA ServersMoveOn ==
  ASSUME ForwarderInv, [Next]_vars
  PROVE  /\ server' \in [Servers -> {"starting", "up", "draining", "stopped", "failed"}]
         /\ \A s \in Servers :
              /\ Over(s) => Over(s)'
              /\ server'[s] \in {"draining", "stopped"} => Told
         /\ Told => Told'
<1>1. ASSUME NEW s \in Servers, Bind(s) \/ BindFails(s) \/ Drain(s) \/ Stop(s)
      PROVE  /\ signal' = signal
             /\ \E x \in {"up", "draining", "stopped", "failed"} :
                  /\ server' = [server EXCEPT ![s] = x]
                  /\ x \in {"draining", "stopped"} => Told
                  /\ ~Over(s)
  BY <1>1 DEF Bind, BindFails, Drain, Stop, wait_shutdown, ForwarderInv, Told, Over
<1>2. ASSUME NEW s \in Servers, Bind(s) \/ BindFails(s) \/ Drain(s) \/ Stop(s)
      PROVE  /\ server' \in [Servers -> {"starting", "up", "draining", "stopped", "failed"}]
             /\ \A t \in Servers :
                  /\ Over(t) => Over(t)'
                  /\ server'[t] \in {"draining", "stopped"} => Told
             /\ Told => Told'
  BY <1>1, <1>2 DEF ForwarderInv, Told, Over
<1>3. ASSUME NEW s \in Servers, NEW c \in Calls, NEW stream \in BOOLEAN,
             EndCall(s, c) \/ OpenCall(s, c, stream) \/ FeederEnds(c)
      PROVE  server' = server /\ signal' = signal
  BY <1>3 DEF EndCall, OpenCall, FeederEnds
<1>4. CASE AuctionEnds \/ Signal \/ HandlerFails \/ ForwarderExits \/ UNCHANGED vars
  BY <1>4 DEF AuctionEnds, AuctionPanics, AuctionReturns, Signal, HandlerFails, ForwarderExits, vars, ForwarderInv, Told, Over
<1>5. CASE server' = server /\ signal' = signal
  BY <1>5 DEF ForwarderInv, Told, Over
<1> QED
  BY <1>2, <1>3, <1>4, <1>5 DEF Next, Servers, AuctionEnds

\* Only its own exit changes the forwarder, only its end the auction task, and
\* nothing the configuration.
LEMMA TasksEndOnce ==
  ASSUME [Next]_vars
  PROVE  /\ upstream' = upstream
         /\ ~forwarder => ~forwarder'
         /\ ~forwarder' => ~forwarder \/ ForwarderExits
         /\ auction' = auction \/ AuctionEnds
<1>1. /\ upstream' = upstream
      /\ forwarder' = forwarder \/ ForwarderExits
      /\ auction' = auction \/ AuctionEnds
  BY DEF Next, vars, Signal, HandlerFails, Bind, BindFails, Drain, Stop, OpenCall, EndCall,
         FeederEnds, ForwarderExits, AuctionEnds, AuctionPanics, AuctionReturns
<1>2. ForwarderExits => forwarder' = FALSE
  BY DEF ForwarderExits
<1> QED
  BY <1>1, <1>2, SMTT(30)

\* The forwarder ends without a shutdown only where the relayer server could not
\* start or the auction task panicked, and never with an upstream engine: no
\* order of failures, calls and stops takes its last sender away earlier.
THEOREM ForwarderStays == Spec => []ForwarderNeeded
<1>1. Init => ForwarderInv
  BY DEF Init, ForwarderInv, Told, Over
<1>2. ForwarderInv /\ [Next]_vars => ForwarderInv'
  <2> SUFFICES ASSUME ForwarderInv, [Next]_vars PROVE ForwarderInv'
    OBVIOUS
  <2>1. /\ server' \in [Servers -> {"starting", "up", "draining", "stopped", "failed"}]
        /\ \A s \in Servers : server'[s] \in {"draining", "stopped"} => Told'
    BY ServersMoveOn
  <2>2. ASSUME ForwarderExits
        PROVE  ~upstream /\ (Over("relayer") \/ auction = "panicked")
    <3>1. CASE PacketSenders = {}
      BY <3>1 DEF PacketSenders, Over
    <3>2. CASE BundleSenders = {}
      BY <2>2, <3>2 DEF BundleSenders, ForwarderExits, ForwarderInv
    <3> QED
      BY <2>2, <3>1, <3>2 DEF ForwarderExits
  <2>3. /\ auction' \in {"zero", "running", "panicked", "returned"}
        /\ auction = "panicked" => auction' = "panicked"
        /\ auction' = "returned" => ~forwarder'
    <3>1. CASE AuctionEnds
      BY <3>1, SMTT(30) DEF AuctionEnds, AuctionPanics, AuctionReturns
    <3>2. CASE auction' = auction
      BY <3>2, TasksEndOnce DEF ForwarderInv
    <3> QED
      BY <3>1, <3>2, TasksEndOnce
  <2>4. ~forwarder' => ~upstream' /\ (Over("relayer")' \/ auction' = "panicked")
    BY <2>2, <2>3, ServersMoveOn, TasksEndOnce DEF ForwarderInv, Servers
  <2> QED
    BY <2>1, <2>3, <2>4 DEF ForwarderInv
<1>3. ForwarderInv => ForwarderNeeded
  BY DEF ForwarderInv, ForwarderNeeded, Told, Over, Servers
<1> QED
  BY <1>1, <1>2, <1>3, PTL DEF Spec
=============================================================================
