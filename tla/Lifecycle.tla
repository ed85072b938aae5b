----------------------------- MODULE Lifecycle -----------------------------
(***************************************************************************)
(* The process (block_engine/src/main.rs): five servers started side by    *)
(* side, the watch flag by which a signal reaches them, and main, which    *)
(* awaits the validator server alone. When main is over the runtime is     *)
(* dropped, and every task on it with whatever it was doing.               *)
(*                                                                         *)
(* The senders of the forwarder's two channels are followed as well,       *)
(* because the lives of servers and tasks decide theirs. The relayer       *)
(* service holds the first packet sender, each open packet stream a clone; *)
(* the auction task holds the first bundle sender; the upstream relay      *)
(* tasks hold a clone of each. When either channel has lost its last one,  *)
(* the forwarder thread ends (module Forwarding).                          *)
(***************************************************************************)
CONSTANTS
  Calls        \* calls that clients make, each once

Servers == {"metrics", "searcher", "relayer", "auth", "validator"}

VARIABLES
  upstream,    \* is an upstream engine configured?
  auction,     \* the auction task: "zero" (given an interval of 0 ms), "running",
               \* "panicked" or "returned"
  signal,      \* await_signal: "waiting", "sent" (true), or "lost" with its sender
  server,      \* server -> "starting", "up", "draining", "stopped" or "failed"
  open,        \* server -> its calls in flight
  feeders,     \* inbound tasks of packet streams, named by their call
  forwarder,   \* does the forwarder thread run?
  main,        \* "serving", "returned" or "crashed"
  made,        \* history: the calls that have been made
  cut          \* history: servers with calls in flight when the runtime went

vars == <<upstream, auction, signal, server, open, feeders, forwarder, main, made, cut>>

Init ==
  /\ upstream \in BOOLEAN /\ auction \in {"zero", "running"}
  /\ signal = "waiting" /\ main = "serving"
  /\ server = [s \in Servers |-> "starting"] /\ open = [s \in Servers |-> {}]
  /\ feeders = {} /\ forwarder = TRUE /\ made = {} /\ cut = {}

-----------------------------------------------------------------------------
\* SIGINT or SIGTERM.
Signal ==
  /\ main = "serving" /\ signal = "waiting" /\ signal' = "sent"
  /\ UNCHANGED <<upstream, auction, server, open, feeders, forwarder, main, made, cut>>

\* The SIGTERM handler is not installed: the task panics and drops the sender.
HandlerFails ==
  /\ main = "serving" /\ signal = "waiting" /\ signal' = "lost"
  /\ UNCHANGED <<upstream, auction, server, open, feeders, forwarder, main, made, cut>>

Bind(s) ==
  /\ main = "serving" /\ server[s] = "starting"
  /\ server' = [server EXCEPT ![s] = "up"]
  /\ UNCHANGED <<upstream, auction, signal, open, feeders, forwarder, main, made, cut>>

\* block_on ends, by value or by panic.
MainEnds(how) == main' = how /\ cut' = {s \in Servers : open[s] # {}}

\* The address is taken: the metrics task warns, the others panic, which for
\* the validator server is a panic of main.
BindFails(s) ==
  /\ main = "serving" /\ server[s] = "starting"
  /\ server' = [server EXCEPT ![s] = "failed"]
  /\ IF s = "validator" THEN MainEnds("crashed") ELSE UNCHANGED <<main, cut>>
  /\ UNCHANGED <<upstream, auction, signal, open, feeders, forwarder, made>>

\* A client calls; a relayer may open a packet stream.
OpenCall(s, c, stream) ==
  /\ main = "serving" /\ server[s] = "up" /\ c \notin made
  /\ stream => s = "relayer"
  /\ open' = [open EXCEPT ![s] = @ \cup {c}] /\ made' = made \cup {c}
  /\ feeders' = IF stream THEN feeders \cup {c} ELSE feeders
  /\ UNCHANGED <<upstream, auction, signal, server, forwarder, main, cut>>

\* The handler answers, or the client leaves its stream. The server ends no
\* subscription of its own accord: the maps of the validator service keep the
\* senders, the other services' stream tasks go on until the client is gone.
EndCall(s, c) ==
  /\ main = "serving" /\ c \in open[s]
  /\ open' = [open EXCEPT ![s] = @ \ {c}]
  /\ UNCHANGED <<upstream, auction, signal, server, feeders, forwarder, main, made, cut>>

\* The client closes its half of a packet stream, or is gone, or the forwarder
\* is: the inbound task drops its sender.
FeederEnds(c) ==
  /\ main = "serving" /\ c \in feeders /\ feeders' = feeders \ {c}
  /\ UNCHANGED <<upstream, auction, signal, server, open, forwarder, main, made, cut>>

\* Faulty: goes on waiting when the sender is gone.
WaitForTrue == signal = "sent"

\* Faulty: resolves at once.
WaitNothing == TRUE

\* wait_shutdown resolves.
wait_shutdown == signal # "waiting"

\* A server takes no more calls.
Drain(s) ==
  /\ main = "serving" /\ server[s] = "up" /\ wait_shutdown
  /\ server' = [server EXCEPT ![s] = "draining"]
  /\ UNCHANGED <<upstream, auction, signal, open, feeders, forwarder, main, made, cut>>

\* serve_with_shutdown returns when the last call is over; main returns with
\* the validator server.
Stop(s) ==
  /\ main = "serving" /\ server[s] = "draining" /\ open[s] = {}
  /\ server' = [server EXCEPT ![s] = "stopped"]
  /\ IF s = "validator" THEN MainEnds("returned") ELSE UNCHANGED <<main, cut>>
  /\ UNCHANGED <<upstream, auction, signal, open, feeders, forwarder, made>>

\* tokio::time::interval panics on a period of zero: the task ends before its
\* first tick, and its bundle_sender with it.
AuctionPanics ==
  /\ main = "serving" /\ auction = "zero" /\ auction' = "panicked"
  /\ UNCHANGED <<upstream, signal, server, open, feeders, forwarder, main, made, cut>>

\* A winner meets a closed channel: the task returns.
AuctionReturns ==
  /\ main = "serving" /\ auction = "running" /\ ~forwarder /\ auction' = "returned"
  /\ UNCHANGED <<upstream, signal, server, open, feeders, forwarder, main, made, cut>>

\* packet_sender and its clones.
PacketSenders ==
  feeders \cup {s \in {"relayer"} : server[s] \notin {"stopped", "failed"}}
          \cup {u \in {"upstream"} : upstream}

\* bundle_sender and its clone.
BundleSenders ==
  {t \in {"auction"} : auction \in {"zero", "running"}} \cup {u \in {"upstream"} : upstream}

\* Either channel closes. (What they still hold is Forwarding's matter.)
ForwarderExits ==
  /\ main = "serving" /\ forwarder
  /\ PacketSenders = {} \/ BundleSenders = {}
  /\ forwarder' = FALSE
  /\ UNCHANGED <<upstream, auction, signal, server, open, feeders, main, made, cut>>

Next ==
  \/ Signal \/ HandlerFails \/ AuctionPanics \/ AuctionReturns \/ ForwarderExits
  \/ \E s \in Servers :
       \/ Bind(s) \/ BindFails(s) \/ Drain(s) \/ Stop(s)
       \/ \E c \in Calls :
            EndCall(s, c) \/ \E stream \in BOOLEAN : OpenCall(s, c, stream)
  \/ \E c \in Calls : FeederEnds(c)

Spec == Init /\ [][Next]_vars

\* The runtime keeps polling the servers' tasks. That a client ever ends its
\* call is not assumed.
FairSpec ==
  Spec /\ \A s \in Servers :
            WF_vars(Bind(s) \/ BindFails(s)) /\ WF_vars(Drain(s)) /\ WF_vars(Stop(s))

-----------------------------------------------------------------------------
\* The shape of the state; and a server that has not started or is over has no
\* call in flight.
TypeOK ==
  /\ upstream \in BOOLEAN /\ auction \in {"zero", "running", "panicked", "returned"}
  /\ signal \in {"waiting", "sent", "lost"}
  /\ server \in [Servers -> {"starting", "up", "draining", "stopped", "failed"}]
  /\ open \in [Servers -> SUBSET Calls] /\ feeders \subseteq made
  /\ forwarder \in BOOLEAN /\ main \in {"serving", "returned", "crashed"}
  /\ made \subseteq Calls /\ cut \subseteq Servers
  /\ \A s \in Servers : open[s] # {} => server[s] \in {"up", "draining"}

\* The forwarder outlives everything that can feed it. Without a shutdown it
\* ends only where the relayer server could not start or the auction task
\* panicked on an interval of zero; with an upstream engine it never does. That
\* the auction task returns when the forwarder is gone is never what ends it.
ForwarderNeeded ==
  ~forwarder => /\ ~upstream
                /\ \/ signal # "waiting"
                   \/ server["relayer"] = "failed"
                   \/ auction = "panicked"

\* Once a signal has come, or none can come any more because the handler is
\* gone, the process ends, unless validators hold on to their calls for ever.
ShutdownEnds ==
  <>(signal # "waiting") /\ []<>(open["validator"] = {}) => <>(main # "serving")

\* What main.rs and the README say of a shutdown: all servers drain. Main awaits
\* only one of them.
AllDrain == main = "returned" => cut = {}
=============================================================================
