------------------------------ MODULE ChatTurns ------------------------------
(***************************************************************************)
(* What the logical send queue promises to a chat, without slots, counters *)
(* or timers: the sends of a chat get its turn one at a time and in the    *)
(* order in which they joined.  Sends to different chats are independent,  *)
(* and only the end of the account empties a line.                         *)
(***************************************************************************)
EXTENDS Sequences

CONSTANTS
  Send, Chat,
  ChatOf     \* ChatOf[s]: the chat of the send s

VARIABLES
  line,      \* line[c]: the sends that wait for c's turn
  holder     \* holder[c]: the sends that have c's turn, one at most

turnVars == <<line, holder>>

TurnsInit ==
  /\ line = [c \in Chat |-> <<>>]
  /\ holder = [c \in Chat |-> {}]

Same(c) == line'[c] = line[c] /\ holder'[c] = holder[c]

(* A send joins its chat's line at the end. *)
Join(c) == \E s \in Send :
  /\ ChatOf[s] = c
  /\ line'[c] = Append(line[c], s)
  /\ holder'[c] = holder[c]

(* A send that finds its chat idle and nobody before it need not wait.     *)
WalkIn(c) == \E s \in Send :
  /\ ChatOf[s] = c
  /\ line[c] = <<>> /\ holder[c] = {}
  /\ line'[c] = <<>> /\ holder'[c] = {s}

(* The turn is given up, and goes to the head of the line or to nobody.    *)
Pass(c) ==
  /\ line[c] # <<>>
  /\ line'[c] = Tail(line[c]) /\ holder'[c] = {Head(line[c])}

Yield(c) ==
  /\ holder[c] # {} /\ holder'[c] = {}
  /\ line'[c] = line[c]

(* The account goes away. *)
Retire ==
  /\ line' = [c \in Chat |-> <<>>]
  /\ holder' = [c \in Chat |-> {}]

TurnsNext ==
  \/ /\ \A c \in Chat : Join(c) \/ WalkIn(c) \/ Pass(c) \/ Yield(c) \/ Same(c)
     /\ DOMAIN line' = Chat /\ DOMAIN holder' = Chat
  \/ Retire

TurnsSpec == TurnsInit /\ [][TurnsNext]_turnVars

=============================================================================
