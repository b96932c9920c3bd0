------------------------------ MODULE AdminText ------------------------------
(***************************************************************************)
(* The texts that go between the server and the admin: the notification    *)
(* (format_admin_notification, feedback/service.cpp), the parser of what   *)
(* the admin writes (dc/admin_parse.cpp) and the router                    *)
(* (dc/admin_route.cpp) as the text functions they are.  AdminRoute is the *)
(* abstraction of this module that Bot uses.                               *)
(***************************************************************************)
EXTENDS Texts

CONSTANTS
    IdChars,   \* [A-Z0-9]
    IdLength,  \* 6 in the code
    NoTicket   \* no ticket id

CloseCommand == <<"/", "c">>

Ids == [1..IdLength -> IdChars]

ASSUME AdminTextAssumption == IdLength \in Nat \ {0} /\ NoTicket \notin Ids

\* Where a text has [ID].
Tags(text) ==
    {i \in 1..(Len(text) - IdLength - 1) :
        /\ text[i] = "[" /\ text[i + IdLength + 1] = "]"
        /\ \A k \in 1..IdLength : text[i + k] \in IdChars}

\* Mutant of TagTaken: the last tag counts.
LastTagTaken(text) == Max(Tags(text))

\* The first tag counts.
TagTaken(text) == Min(Tags(text))

ParseAdminMessage(text) ==
    IF Tags(text) = {} THEN [kind |-> "none", ticket |-> NoTicket, body |-> <<>>]
    ELSE LET at == TagTaken(text)
             body == Trim(Before(text, at) \o After(text, at + IdLength + 1))
             ticket == SubSeq(text, at + 1, at + IdLength)
         IN  IF body = CloseCommand
             THEN [kind |-> "close", ticket |-> ticket, body |-> <<>>]
             ELSE [kind |-> "reply", ticket |-> ticket, body |-> body]

MakeKindOfText(ticket, body) ==
    IF body = CloseCommand
    THEN [kind |-> "close", ticket |-> ticket, body |-> <<>>]
    ELSE [kind |-> "reply", ticket |-> ticket, body |-> body]

\* The text less its tag; as a mutant of BodyBesideQuote, it is taken out of the
\* text beside a quote as well.
BodyWithoutTag(text) == IF Tags(text) = {} THEN Trim(text) ELSE ParseAdminMessage(text).body

\* Beside a quote that says which ticket it is, the text is taken as it stands.
BodyBesideQuote(text) == Trim(text)

RouteText(text, resolved, quoted) ==
    IF resolved # NoTicket THEN MakeKindOfText(resolved, BodyBesideQuote(text))
    ELSE IF Tags(text) # {} THEN ParseAdminMessage(text)
    ELSE IF Tags(quoted) # {}
         THEN MakeKindOfText(ParseAdminMessage(quoted).ticket, BodyBesideQuote(text))
    ELSE [kind |-> "none", ticket |-> NoTicket, body |-> <<>>]

\* The header line, here a word without brackets, and the visitor's text.
Header == <<" ", "c", "/">>
FormatAdminNotification(ticket, body) == <<"[">> \o ticket \o <<"]">> \o Header \o body

-----------------------------------------------------------------------------
(* Properties of a text *)

Abstract == INSTANCE AdminRoute WITH None <- NoTicket

\* The part of a text AdminRoute calls the remainder.
Remainder(text) ==
    LET body == BodyWithoutTag(text)
        kind == IF Tags(text) = {} THEN "" ELSE ParseAdminMessage(text).kind
    IN  IF kind = "close" \/ body = CloseCommand THEN "/close"
        ELSE IF body = <<>> THEN "empty" ELSE "reply"

\* What the router tells apart decides alone: for every text, AdminRoute says of
\* its parts which ticket it is for, whether it closes it, and whether there is
\* anything to deliver.
RouteOfParts(text, resolved, quoted) ==
    LET route == RouteText(text, resolved, quoted)
        parts == Abstract!RouteAdminMessage(resolved, ParseAdminMessage(text).ticket,
                                            Remainder(text), ParseAdminMessage(quoted).ticket)
    IN  /\ route.ticket = parts.ticket /\ route.kind = parts.kind
        /\ route.kind = "reply" => (route.body = <<>> <=> parts.body = "empty")

\* A notification parses back to its own ticket whatever the visitor wrote.
ParsesBack(body) ==
    \A ticket \in Ids : ParseAdminMessage(FormatAdminNotification(ticket, body)).ticket = ticket
=============================================================================
