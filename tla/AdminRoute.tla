----------------------------- MODULE AdminRoute -----------------------------
(***************************************************************************)
(* route_admin_message (dc/admin_route.cpp): which ticket a message of the *)
(* admin is for, and whether it closes it.                                 *)
(*                                                                         *)
(* The text is abstracted to what the router tells apart: the [ID] typed   *)
(* in it, None if there is none, and what remains without the tag, which   *)
(* is "/close", "empty" or a "reply".  Of the quote it sees the ticket the *)
(* database resolves the quoted message to, and the [ID] in the quoted     *)
(* text.                                                                   *)
(***************************************************************************)
CONSTANT None

Remainders == {"/close", "empty", "reply"}

\* make_kind: the command is recognised only where it is the whole body.
MakeKind(ticket, body) ==
    [ticket |-> ticket, kind |-> IF body = "/close" THEN "close" ELSE "reply", body |-> body]

\* trim(text) keeps the tag, so a text with one is neither "/close" nor empty.
Untagged(typed, remainder) == IF typed = None THEN remainder ELSE "reply"

NoTicketId == [ticket |-> None, kind |-> "none", body |-> "empty"]

\* The three sources of a ticket id, in the order of the code.
RouteAdminMessage(resolved, typed, remainder, inQuote) ==
    IF resolved # None THEN MakeKind(resolved, Untagged(typed, remainder))
    ELSE IF typed # None THEN MakeKind(typed, remainder)
    ELSE IF inQuote # None THEN MakeKind(inQuote, remainder)
    ELSE NoTicketId
=============================================================================
