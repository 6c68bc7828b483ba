-------------------------- MODULE MCLogicalSendQueue --------------------------
(***************************************************************************)
(* Up to four sends, two of them to the same chat, with fewer slots than   *)
(* chats; the account closes and may reopen.                               *)
(***************************************************************************)
EXTENDS LogicalSendQueue

CONSTANTS s1, s2, s3, s4, a, b, c

MCChatOf == [s \in Work |-> IF s \in {s1, s2} THEN a ELSE IF s = s3 THEN b ELSE c]
=============================================================================
