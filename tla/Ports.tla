------------------------------- MODULE Ports -------------------------------
(***************************************************************************)
(* The port of a relay: the search for one in Relay.__init__ and the       *)
(* thread that listens on it (server/relay.py), which Relay describes once *)
(* it serves.  The search runs in the management thread of the client that *)
(* asked, one try of bind() at a time, so two clients' searches interleave *)
(* with each other and with the relay threads.  A client asks for one      *)
(* relay.                                                                  *)
(***************************************************************************)
EXTENDS Integers, Sequences, FiniteSets, Functions

CONSTANTS
  Clients,
  MaxPort,   \* the highest port: 65535
  Worlds     \* what the operator, the other programs and the clients do

ASSUME ClientsAssumption == Clients # {}
ASSUME MaxPortAssumption == MaxPort \in Nat \ {0}

VARIABLES
  world,
  serviceClose,   \* the server's process-wide event
  relay,          \* state of the client's Relay and its thread
  port,           \* the port it is bound to, 0 for none
  candidate,      \* the port that the search tries next, 0 without a search
  atomicClose

portVars == <<serviceClose, relay, port, candidate, atomicClose>>

RelayStates ==
  {"none", "search", "bound", "started", "listening", "closed", "crashed", "stranded"}

PortsInit ==
  /\ world \in Worlds
  /\ serviceClose = FALSE
  /\ relay = [c \in Clients |-> "none"]
  /\ port = [c \in Clients |-> 0]
  /\ candidate = [c \in Clients |-> 0]
  /\ atomicClose = [c \in Clients |-> FALSE]

Becomes(c, state) == relay' = [relay EXCEPT ![c] = state]

\* --port-range: a sequence of its parts between dashes, -1 for what is no
\* number.  The default "0", and what parse_port_range refuses, is no range.
Parses(text) == Len(text) = 2 /\ -1 \notin Range(text) /\ text[1] <= text[2]

HasRange == Parses(world.text)
Lo == world.text[1]
Hi == world.text[2]

-----------------------------------------------------------------------------
(* Relay.__init__.  With SO_REUSEADDR a bind() fails only when another     *)
(* socket listens on the port.                                             *)

Listens(c) == relay[c] \in {"listening", "stranded"}

Occupied == world.taken \cup {port[c] : c \in {d \in Clients : Listens(d)}}

\* Ports that the kernel does not hand out by itself: also the merely bound.
InUse == world.taken \cup {port[c] : c \in {d \in Clients : relay[d] \notin {"none", "closed"}}}

BeginSearch(c) ==
  /\ relay[c] = "none"
  /\ Becomes(c, "search")
  /\ candidate' = [candidate EXCEPT ![c] = IF HasRange THEN Lo ELSE 0]
  /\ UNCHANGED <<serviceClose, port, atomicClose>>

Searching(c) == relay[c] = "search"

BindRefused(c) ==
  /\ Searching(c) /\ HasRange
  /\ candidate[c] <= Hi
  /\ candidate[c] \in Occupied
  /\ candidate' = [candidate EXCEPT ![c] = @ + 1]
  /\ UNCHANGED <<serviceClose, relay, port, atomicClose>>

BindTo(c, p) ==
  /\ Searching(c)
  /\ Becomes(c, "bound")
  /\ port' = [port EXCEPT ![c] = p]
  /\ candidate' = [candidate EXCEPT ![c] = 0]
  /\ UNCHANGED <<serviceClose, atomicClose>>

\* Mutant of BindCandidate: the port may be beyond the last.
BindCandidateBeyond(c) ==
  /\ HasRange
  /\ candidate[c] \in 1..Hi
  /\ candidate[c] \notin Occupied
  /\ BindTo(c, candidate[c])

\* Mutant of BindCandidate: the port may be somebody else's.
BindCandidateShared(c) ==
  /\ HasRange
  /\ candidate[c] \in 1..Hi /\ candidate[c] <= MaxPort
  /\ BindTo(c, candidate[c])

BindCandidate(c) ==
  /\ HasRange
  /\ candidate[c] \in 1..Hi /\ candidate[c] <= MaxPort
  /\ candidate[c] \notin Occupied
  /\ BindTo(c, candidate[c])

\* No range: the kernel chooses.
BindAny(c) ==
  /\ ~HasRange
  /\ \E p \in (1..MaxPort) \ InUse : BindTo(c, p)

\* RelayNoAvailablePort: every port refused, or port 0 bound, which the code
\* cannot tell from none.
Exhausted(c) == Searching(c) /\ HasRange /\ (candidate[c] > Hi \/ candidate[c] = 0)

\* bind() beyond the last port raises OverflowError, no OSError.
Overflows(c) == Searching(c) /\ HasRange /\ candidate[c] <= Hi /\ candidate[c] > MaxPort

\* The constructor raised: there is no Relay.
GiveUp(c) ==
  /\ Becomes(c, "none")
  /\ UNCHANGED <<serviceClose, port, candidate, atomicClose>>

-----------------------------------------------------------------------------
(* Relay.open.                                                             *)

StartRelay(c) ==
  /\ relay[c] = "bound"
  /\ Becomes(c, "started")
  /\ UNCHANGED <<serviceClose, port, candidate, atomicClose>>

\* listen() fails, and ends the thread, when another socket listens by now.
Listen(c) ==
  /\ relay[c] = "started"
  /\ Becomes(c, IF port[c] \in Occupied THEN "crashed" ELSE "listening")
  /\ UNCHANGED <<serviceClose, port, candidate, atomicClose>>

CloseRelay(c) ==
  /\ relay[c] = "listening"
  /\ serviceClose \/ atomicClose[c]
  /\ Becomes(c, "closed")
  /\ UNCHANGED <<serviceClose, port, candidate, atomicClose>>

RelayThread(c) == Listen(c) \/ CloseRelay(c)

\* A host's reset ends the thread on an uncaught exception (Relay says how):
\* the clean-up is skipped, the socket goes on listening, nobody accepts.
ThreadDies(c) ==
  /\ "host_reset" \in world.moves
  /\ relay[c] = "listening"
  /\ Becomes(c, "stranded")
  /\ UNCHANGED <<serviceClose, port, candidate, atomicClose>>

\* The garbage collector closes the socket of a Relay that nobody holds.
Collect(c) ==
  /\ relay[c] = "stranded"
  /\ Becomes(c, "closed")
  /\ UNCHANGED <<serviceClose, port, candidate, atomicClose>>

RelayEnded(c) == relay[c] \in {"closed", "crashed", "stranded"}
RelayGone(c) == relay[c] = "none" \/ RelayEnded(c)

PortsTypeOK ==
  /\ world \in Worlds
  /\ serviceClose \in BOOLEAN
  /\ relay \in [Clients -> RelayStates]
  /\ port \in [Clients -> 0..MaxPort]
  /\ candidate \in [Clients -> Nat]
  /\ atomicClose \in [Clients -> BOOLEAN]

=============================================================================
