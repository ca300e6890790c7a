---------------------------- MODULE BaseStation ----------------------------
(***************************************************************************)
(* The connections of the BaseStation output (basestation.c).  As a server *)
(* an accept thread adds the clients that connect; in push mode a thread   *)
(* connects to one remote host and connects again when the link is lost.   *)
(* Decoder threads write each position to all connections under            *)
(* clients_lock, and main takes the output down at the end.                *)
(*                                                                         *)
(* A connection is a descriptor, reused by the system once it is closed.   *)
(* Its peer may leave at any time, which only a later write finds out.  A  *)
(* write to a connection whose peer has left raises SIGPIPE, which ends    *)
(* the process unless web_init has had it ignored (web.c).  A write that a *)
(* slow peer's full buffer refuses (EAGAIN) changes nothing here.          *)
(***************************************************************************)
EXTENDS Integers, Sequences, SequencesExt, FiniteSets

CONSTANTS
    BS_MAX_CLIENTS,   \* 16 in the code
    Fds,              \* the descriptors the system hands out
    MaxLosses,        \* bound on the peers that leave
    BsModes,          \* "server", "push"
    WebChoices        \* whether --web was given

NoFd == 0            \* no descriptor: -1 in the code

ASSUME BsAssumption ==
    /\ BS_MAX_CLIENTS \in Nat \ {0} /\ MaxLosses \in Nat
    /\ BsModes \subseteq {"server", "push"} /\ NoFd \notin Fds

VARIABLES
    bs_mode, bs_web,  \* fixed by the command line
    bs_running,       \* the program's flag
    bs_listening,     \* listen_fd >= 0
    clients,          \* clients[0..n_clients-1]
    bs_client_fd,     \* push mode: the connection, or NoFd
    fds,              \* descriptor -> "free", "up" (open), "gone" (open, peer left)
    bs_thread,        \* accept or reconnect thread: where, and its descriptor
    bs_main,          \* main: "loop", "join", "close", "done"; "killed"
    missed,           \* ghost: descriptor -> positions not written to it
    losses            \* ghost: peers that have left
bsvars == <<bs_mode, bs_web, bs_running, bs_listening, clients, bs_client_fd,
            fds, bs_thread, bs_main, missed, losses>>

Thread(at, fd) == [at |-> at, fd |-> fd]
Alive == bs_main \notin {"done", "killed"}

\* basestation_init: the push connection may be there from the start.
BsInit ==
    /\ bs_mode \in BsModes /\ bs_web \in WebChoices
    /\ bs_running = TRUE
    /\ bs_listening = (bs_mode = "server")
    /\ \E fd \in {NoFd} \cup (IF bs_mode = "push" THEN Fds ELSE {}) :
         /\ bs_client_fd = fd
         /\ clients = IF fd = NoFd THEN <<>> ELSE <<fd>>
         /\ fds = [f \in Fds |-> IF f = fd THEN "up" ELSE "free"]
    /\ bs_thread = Thread("check", NoFd) /\ bs_main = "loop"
    /\ missed = [f \in Fds |-> 0] /\ losses = 0

-----------------------------------------------------------------------------
(* bs_accept_thread, bs_reconnect_thread *)

UNCHANGED_CONF == UNCHANGED <<bs_mode, bs_web>>

\* while (running): leave, or go to select; push looks for a lost link first.
ThreadChecks ==
    /\ Alive /\ bs_thread.at = "check"
    /\ bs_thread' = Thread(IF ~bs_running THEN "exited"
                           ELSE IF bs_mode = "server" THEN "select"
                           ELSE IF bs_client_fd = NoFd THEN "connect"
                           ELSE "check", NoFd)
    /\ bs_thread' # bs_thread
    /\ UNCHANGED <<bs_running, bs_listening, clients, bs_client_fd, fds,
                   bs_main, missed, losses>> /\ UNCHANGED_CONF

\* select times out, or fails on a socket that has been closed.
SelectReturns ==
    /\ Alive /\ bs_thread.at = "select"
    /\ bs_thread' = Thread("check", NoFd)
    /\ UNCHANGED <<bs_running, bs_listening, clients, bs_client_fd, fds,
                   bs_main, missed, losses>> /\ UNCHANGED_CONF

\* A peer connects: accept in the server, connect in push mode.
Connected ==
    /\ Alive
    /\ \/ bs_thread.at = "select" /\ bs_listening
       \/ bs_thread.at = "connect"
    /\ \E fd \in Fds :
         /\ fds[fd] = "free"
         /\ fds' = [fds EXCEPT ![fd] = "up"]
         /\ missed' = [missed EXCEPT ![fd] = 0]
         /\ bs_thread' = Thread("got", fd)
    /\ UNCHANGED <<bs_running, bs_listening, clients, bs_client_fd, bs_main,
                   losses>> /\ UNCHANGED_CONF

\* bs_client_connect fails; the next try is five seconds later.
ConnectRefused ==
    /\ Alive /\ bs_thread.at = "connect"
    /\ bs_thread' = Thread("check", NoFd)
    /\ UNCHANGED <<bs_running, bs_listening, clients, bs_client_fd, fds,
                   bs_main, missed, losses>> /\ UNCHANGED_CONF

\* Under clients_lock: the server keeps the connection or turns it away; push
\* mode makes it the only one.
AddConnection ==
    /\ Alive /\ bs_thread.at = "got"
    /\ \/ /\ bs_mode = "server" /\ Len(clients) < BS_MAX_CLIENTS
          /\ clients' = Append(clients, bs_thread.fd)
          /\ UNCHANGED <<fds, bs_client_fd>>
       \/ /\ bs_mode = "server" /\ Len(clients) >= BS_MAX_CLIENTS
          /\ fds' = [fds EXCEPT ![bs_thread.fd] = "free"]
          /\ UNCHANGED <<clients, bs_client_fd>>
       \/ /\ bs_mode = "push"
          /\ bs_client_fd' = bs_thread.fd /\ clients' = <<bs_thread.fd>>
          /\ UNCHANGED fds
    /\ bs_thread' = Thread("check", NoFd)
    /\ UNCHANGED <<bs_running, bs_listening, bs_main, missed, losses>>
    /\ UNCHANGED_CONF

-----------------------------------------------------------------------------
(* basestation_send_position: the write loop *)

\* A fault: the failed connection takes its place again.
WithoutClient_Kept(i) == clients

\* The last connection takes the place of the one that failed.
WithoutClient(i) == Front([clients EXCEPT ![i] = Last(clients)])

\* A fault: push mode does not mark the connection for reconnection.
LinkAfterLoss_Kept == bs_client_fd

LinkAfterLoss == IF bs_mode = "push" THEN NoFd ELSE bs_client_fd

\* A position that every connection takes changes nothing.  When one fails,
\* those before it have got the position; the loop ends there, and the
\* connections behind it miss this one.
SendPosition ==
    /\ bs_main = "loop"
    /\ \E i \in DOMAIN clients :
         /\ fds[clients[i]] # "up"
         /\ \A j \in 1..(i - 1) : fds[clients[j]] = "up"
         /\ IF ~bs_web
            THEN /\ bs_main' = "killed"
                 /\ UNCHANGED <<clients, bs_client_fd, fds, missed>>
            ELSE /\ fds' = [fds EXCEPT ![clients[i]] = "free"]
                 /\ missed' = [f \in Fds |->
                       IF \E j \in (i + 1)..Len(clients) : clients[j] = f
                       THEN missed[f] + 1 ELSE missed[f]]
                 /\ clients' = IF bs_mode = "push" THEN <<>> ELSE WithoutClient(i)
                 /\ bs_client_fd' = LinkAfterLoss
                 /\ UNCHANGED bs_main
    /\ UNCHANGED <<bs_running, bs_listening, bs_thread, losses>>
    /\ UNCHANGED_CONF

-----------------------------------------------------------------------------
(* The peers, the signal, and basestation_destroy in main *)

PeerLeaves(fd) ==
    /\ Alive /\ losses < MaxLosses
    /\ fds[fd] = "up"
    /\ fds' = [fds EXCEPT ![fd] = "gone"]
    /\ losses' = losses + 1
    /\ UNCHANGED <<bs_running, bs_listening, clients, bs_client_fd, bs_thread,
                   bs_main, missed>> /\ UNCHANGED_CONF

StopRunning ==
    /\ Alive /\ bs_running
    /\ bs_running' = FALSE
    /\ UNCHANGED <<bs_listening, clients, bs_client_fd, fds, bs_thread, bs_main,
                   missed, losses>> /\ UNCHANGED_CONF

\* By now the workers have been joined: no position is sent any more.
DestroyBegins ==
    /\ bs_main = "loop" /\ ~bs_running
    /\ bs_listening' = FALSE
    /\ bs_main' = "join"
    /\ UNCHANGED <<bs_running, clients, bs_client_fd, fds, bs_thread, missed,
                   losses>> /\ UNCHANGED_CONF

\* A fault: the connections are closed without waiting for the thread.
DestroyCloses_NoJoin ==
    /\ bs_main = "join"
    /\ fds' = [f \in Fds |-> IF f \in ToSet(clients) \cup {bs_client_fd}
                             THEN "free" ELSE fds[f]]
    /\ clients' = <<>> /\ bs_client_fd' = NoFd
    /\ bs_main' = "done"
    /\ UNCHANGED <<bs_running, bs_listening, bs_thread, missed, losses>>
    /\ UNCHANGED_CONF

\* The thread has been joined: every connection is closed, and in push mode
\* the one connection once more.
DestroyCloses ==
    /\ bs_main = "join" /\ bs_thread.at = "exited"
    /\ fds' = [f \in Fds |-> IF f \in ToSet(clients) \cup {bs_client_fd}
                             THEN "free" ELSE fds[f]]
    /\ clients' = <<>> /\ bs_client_fd' = NoFd
    /\ bs_main' = "done"
    /\ UNCHANGED <<bs_running, bs_listening, bs_thread, missed, losses>>
    /\ UNCHANGED_CONF

BsThread == ThreadChecks \/ SelectReturns \/ AddConnection
BsNext ==
    \/ BsThread \/ Connected \/ ConnectRefused
    \/ SendPosition \/ StopRunning \/ DestroyBegins \/ DestroyCloses
    \/ \E fd \in Fds : PeerLeaves(fd)

\* The threads run; positions keep coming; the remote host answers again and
\* again, however often it refuses in between.
BsFairness ==
    /\ WF_bsvars(BsThread)
    /\ SF_bsvars(Connected /\ bs_mode = "push")
    /\ WF_bsvars(ConnectRefused)
    /\ WF_bsvars(SendPosition)
BsSpec == BsInit /\ [][BsNext]_bsvars /\ BsFairness

-----------------------------------------------------------------------------
(* Properties *)

\* A write that fails ends the loop, so one client's failure costs others a
\* position: but never more positions than peers were lost, because the lost
\* one is out of the list before the next position comes.
MissesBoundedByLosses == \A i \in DOMAIN clients : missed[clients[i]] <= losses

\* No connection is lost sight of, whoever of the accept thread, a failing
\* write and the teardown touched the list last: it holds open descriptors
\* only, each once, an open one is on it or has just been accepted, and at the
\* end none is left open.  (That in push mode basestation_destroy closes the
\* one connection through the list and then through bs_client_fd is the code.)
ConnectionsAccountedFor ==
    /\ \A i, j \in DOMAIN clients : clients[i] = clients[j] => i = j
    /\ \A f \in Fds : fds[f] # "free" <=>
          \/ \E i \in DOMAIN clients : clients[i] = f
          \/ bs_thread.at = "got" /\ bs_thread.fd = f
    /\ bs_main = "done" => \A f \in Fds : fds[f] = "free"

\* "Reconnects automatically if the connection drops": while the program
\* runs and positions keep coming, a lost link is followed by a new one.
LinkUp == bs_client_fd # NoFd /\ fds[bs_client_fd] = "up"
PushReconnects ==
    (bs_mode = "push" /\ ~LinkUp) ~> (LinkUp \/ ~bs_running)
=============================================================================
