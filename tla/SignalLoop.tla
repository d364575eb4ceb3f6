------------------------------ MODULE SignalLoop ------------------------------
(***************************************************************************)
(* chapter10/event.cc: a server that handles signals in its event loop.    *)
(* The signal handler sends the number of the signal through a socket pair *)
(* and the loop, which waits for the pair, the listening socket and the    *)
(* connections with edge-triggered epoll, reads it.                        *)
(*                                                                         *)
(* The handler runs with all signals blocked, between any two steps of the *)
(* loop: it is one step.  The kernel keeps one pending signal of each      *)
(* kind, a queue of connections and epoll's list of ready descriptors, to  *)
(* which a descriptor is added when something arrives and from which       *)
(* epoll_wait takes it.  Connections are never read or closed, so they     *)
(* share one event.                                                        *)
(***************************************************************************)
EXTENDS Naturals, Sequences, SequencesExt

CONSTANTS Signals,     (* the signals that have the handler                *)
          StopSignals, (* SIGTERM and SIGINT                               *)
          PipeCap,     (* the signals that fit in the socket pair          *)
          RecvMax,     (* the size of the buffer given to recv             *)
          MaxBacklog,  (* the connections that wait to be accepted         *)
          MaxConn      (* the connections the process has descriptors for  *)

(* A one-byte message takes several hundred bytes of the socket buffer: fewer than
   the 1024 that recv reads fit in it.                                       *)
ASSUME LoopConstantsOK ==
  /\ StopSignals \subseteq Signals
  /\ {PipeCap, RecvMax, MaxBacklog, MaxConn} \subseteq Nat
  /\ 0 < PipeCap /\ PipeCap <= RecvMax

VARIABLES pending, (* signals the kernel has yet to deliver                 *)
          asked,   (* a stop signal was delivered                           *)
          pipe,    (* what is in the socket pair                            *)
          backlog, (* how many connections wait to be accepted              *)
          conns,   (* how many were accepted                                *)
          ready,   (* epoll's ready list                                    *)
          pc,      (* where main is                                         *)
          errno,
          events,  (* what is left of events                                *)
          stop     (* stop_server                                           *)

kernel == <<pending, asked, pipe, backlog, conns, ready>>
locals == <<errno, events, stop>>
vars   == <<kernel, pc, locals>>

Fds == {"listen", "pipe", "conn"}

TypeOK ==
  /\ pending \in SUBSET Signals
  /\ asked \in BOOLEAN
  /\ pipe \in Seq(Signals) /\ Len(pipe) <= PipeCap
  /\ backlog \in 0..MaxBacklog /\ conns \in 0..MaxConn
  /\ ready \in SUBSET Fds
  /\ pc \in {"test", "wait", "failed", "events", "close_listen", "close_read", "close_write",
             "return", "exited", "killed"}
  /\ errno \in {"none", "EINTR", "EAGAIN"}
  /\ events \in SUBSET Fds
  /\ stop \in BOOLEAN

(* main before its loop. *)
Init ==
  /\ pending = {} /\ asked = FALSE
  /\ pipe = <<>> /\ backlog = 0 /\ conns = 0
  /\ ready = {}
  /\ pc = "test" /\ errno = "none" /\ events = {} /\ stop = FALSE

Ended == pc \in {"exited", "killed"}
Goto(from, to) == pc = from /\ pc' = to

Readable(fd) ==
  CASE fd = "pipe" -> pipe # <<>>
    [] fd = "listen" -> backlog > 0
    [] fd = "conn" -> TRUE

(* What epoll_wait reports: it looks again at what is in its list. *)
Reported == {fd \in ready : Readable(fd)}

-----------------------------------------------------------------------------
(* The world outside. *)

Raise(s) ==
  /\ ~Ended /\ s \notin pending
  /\ pending' = pending \cup {s}
  /\ UNCHANGED <<asked, pipe, backlog, conns, ready, pc, locals>>

Connect ==
  /\ pc \notin {"close_read", "close_write", "return", "exited", "killed"}
  /\ backlog < MaxBacklog
  /\ backlog' = backlog + 1
  /\ ready' = ready \cup {"listen"}
  /\ UNCHANGED <<pending, asked, pipe, conns, pc, locals>>

(* A client sends something. *)
Data ==
  /\ ~Ended /\ conns > 0
  /\ ready' = ready \cup {"conn"}
  /\ UNCHANGED <<pending, asked, pipe, backlog, conns, pc, locals>>

-----------------------------------------------------------------------------
(* A handler that leaves errno as send has set it. *)
ErrnoOfSend == IF Len(pipe) = PipeCap THEN "EAGAIN" ELSE errno

(* sig_handler restores errno. *)
ErrnoAfterHandler == errno

(* sig_handler.  With pipefd[0] closed its send raises SIGPIPE, with pipefd[1] closed it
   does nothing, and when the pair is full the signal is dropped.  A handler that runs
   while epoll_wait sleeps makes it return EINTR, despite SA_RESTART; one that runs
   before it is called, or when it has something to report, does not.        *)
SigHandler(s) ==
  /\ ~Ended /\ s \in pending
  /\ pending' = pending \ {s}
  /\ asked' = (asked \/ s \in StopSignals)
  /\ IF pc \notin {"close_write", "return"} /\ Len(pipe) < PipeCap
       THEN pipe' = Append(pipe, s) /\ ready' = ready \cup {"pipe"}
       ELSE UNCHANGED <<pipe, ready>>
  /\ \/ pc = "close_write" /\ pc' = "killed" /\ UNCHANGED errno
     \/ pc # "close_write" /\ errno' = ErrnoAfterHandler /\ UNCHANGED pc
     \/ Reported = {} /\ Goto("wait", "failed") /\ errno' = "EINTR"
  /\ UNCHANGED <<backlog, conns, events, stop>>

-----------------------------------------------------------------------------
(* The loop. *)

TestStop ==
  /\ Goto("test", IF stop THEN "close_listen" ELSE "wait")
  /\ UNCHANGED <<kernel, locals>>

EpollWait ==
  /\ Goto("wait", "events")
  /\ Reported # {}
  /\ events' = Reported
  /\ ready' = {}
  /\ UNCHANGED <<pending, asked, pipe, backlog, conns, errno, stop>>

(* num < 0 *)
WaitFailed ==
  /\ Goto("failed", IF errno = "EINTR" THEN "test" ELSE "close_listen")
  /\ UNCHANGED <<kernel, locals>>

(* One accept per event; the connection may already have sent something.    *)
Accept ==
  /\ pc = "events" /\ "listen" \in events
  /\ events' = events \ {"listen"}
  /\ IF backlog > 0 /\ conns < MaxConn
       THEN /\ backlog' = backlog - 1 /\ conns' = conns + 1
            /\ \/ UNCHANGED ready
               \/ ready' = ready \cup {"conn"}
       ELSE UNCHANGED <<backlog, conns, ready>>
  /\ UNCHANGED <<pending, asked, pipe, pc, errno, stop>>

(* recv of one signal. *)
ReceiveOne ==
  /\ pc = "events" /\ "pipe" \in events
  /\ events' = events \ {"pipe"}
  /\ pipe' = SubSeq(pipe, 2, Len(pipe))
  /\ stop' = (stop \/ \E i \in DOMAIN pipe : i = 1 /\ pipe[i] \in StopSignals)
  /\ UNCHANGED <<pending, asked, backlog, conns, ready, pc, errno>>

(* A loop that looks at the first of the signals received. *)
ReceiveFirst ==
  /\ pc = "events" /\ "pipe" \in events
  /\ events' = events \ {"pipe"}
  /\ pipe' = SubSeq(pipe, RecvMax + 1, Len(pipe))
  /\ stop' = (stop \/ \E i \in DOMAIN pipe : i = 1 /\ pipe[i] \in StopSignals)
  /\ UNCHANGED <<pending, asked, backlog, conns, ready, pc, errno>>

(* One recv per event, and the switch over the signals received.             *)
Receive ==
  /\ pc = "events" /\ "pipe" \in events
  /\ events' = events \ {"pipe"}
  /\ pipe' = SubSeq(pipe, RecvMax + 1, Len(pipe))
  /\ stop' = (stop \/ \E i \in DOMAIN pipe : i <= RecvMax /\ pipe[i] \in StopSignals)
  /\ UNCHANGED <<pending, asked, backlog, conns, ready, pc, errno>>

Ignore ==
  /\ pc = "events" /\ "conn" \in events
  /\ events' = events \ {"conn"}
  /\ UNCHANGED <<kernel, pc, errno, stop>>

EventsDone ==
  /\ events = {}
  /\ Goto("events", "test")
  /\ UNCHANGED <<kernel, locals>>

(* The end of main: each close, and the return. *)
CloseFds ==
  /\ \/ Goto("close_listen", "close_read")
     \/ Goto("close_read", "close_write")
     \/ Goto("close_write", "return")
     \/ Goto("return", "exited")
  /\ UNCHANGED <<kernel, locals>>

-----------------------------------------------------------------------------
Main ==
  \/ TestStop \/ EpollWait \/ WaitFailed
  \/ Accept \/ Receive \/ Ignore \/ EventsDone
  \/ CloseFds

Next ==
  \/ Main
  \/ \E s \in Signals : Raise(s) \/ SigHandler(s)
  \/ Connect \/ Data

Spec == Init /\ [][Next]_vars

(* The process runs when it can, and the kernel delivers signals. *)
FairSpec ==
  /\ Spec
  /\ WF_vars(Main)
  /\ \A s \in Signals : WF_vars(SigHandler(s))

-----------------------------------------------------------------------------
(* The loop ends only when somebody has asked for it: an interrupted epoll_wait, even
   with another signal handled between its return and the test of errno
   (event.cc:98), is not taken for an error.                                 *)
StopAsked == pc \notin {"test", "wait", "failed", "events"} => asked

(* A signal in the socket pair is never left without an event to come, although the
   event is reported once and recv called once (event.cc:116).               *)
NoForgottenSignal ==
  pc \in {"test", "wait", "failed", "events"} /\ pipe # <<>> =>
    "pipe" \in ready \cup events

(* A stop signal that got into the socket pair ends the server, whatever signals and
   connections come with it.                                                 *)
StopHonoured == (\E s \in StopSignals : Contains(pipe, s)) ~> Ended

(* A connection in the queue of the listening socket is accepted, as long as there are
   descriptors and the server runs: chapter9 says of edge-triggered epoll that an
   event has to be handled at once, since it is not reported again.          *)
ConnectionsServed == backlog > 0 ~> (backlog = 0 \/ conns = MaxConn \/ Ended)
=============================================================================
