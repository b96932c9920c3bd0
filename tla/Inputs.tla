-------------------------------- MODULE Inputs --------------------------------
(***************************************************************************)
(* Whatever is typed: the functions of the program that take a text apart, *)
(* each checked on every text up to a length, which grows by one unit at a *)
(* time.                                                                   *)
(***************************************************************************)
EXTENDS AdminText, Fields, Address, Token, ConfigText

CONSTANT Lengths   \* bound: how long the text of a subject grows

VARIABLES
    subject,  \* what is typed
    text

vars == <<subject, text>>

Units(s) ==
    CASE s = "admin" -> {"[", "]", "A", "/", "c", " "}
      [] s = "field" -> CodePoints
      [] s = "address" -> {",", ":", "[", "]", "x", " "}
      [] s = "bytes" -> Bytes
      [] s = "value" -> {"=", "#", "k", "v", " "}
      [] s = "secret" -> SecretBytes
      [] s = "days" -> {"0", "1", "4", "9", "-", "x"}

Init == subject \in DOMAIN Lengths /\ text = <<>>

Type ==
    /\ Len(text) < Lengths[subject]
    /\ \E unit \in Units(subject) : text' = Append(text, unit)
    /\ UNCHANGED subject

Spec == Init /\ [][Type]_vars

-----------------------------------------------------------------------------
(* Properties *)

\* dc/admin_route.cpp: the routing decision Bot is modelled with is the one of
\* the text functions, with and without a quote, whether or not it resolves.
RouteAgrees ==
    subject = "admin" =>
        \A resolved \in {NoTicket, <<"B">>},
           quoted \in {<<>>, text, FormatAdminNotification(<<"B">>, text)} :
               RouteOfParts(text, resolved, quoted)

\* service.cpp:65 and admin_parse.cpp:30: the quoted text of a notification
\* leads back to its ticket, although the visitor's words are in it.
NotificationParsesBack == subject = "admin" => ParsesBack(text)

\* validator.h:64-66: the limits are code points, whatever the operator sets them
\* to; so a visitor of the page, whose maxlength counts otherwise, is refused in no
\* script for what a limit not below it lets through.
FormAndServerAgree ==
    subject = "field" =>
        \A name \in {<<>>, <<"2">>, <<"4">>, <<"1", "3">>, <<"1", "1", "1">>, <<"control">>} :
            FormIsServed(text, name)

\* server.cpp:36-39: one visitor is one key of the rate limits, however their
\* proxies spell the address.
ProxiesAgree == subject = "address" => SameAddress(text)

\* challenge.cpp:20-66: ids and signatures survive base64url.
BytesSurvive == subject = "bytes" => SurvivesBase64(text)

\* challenge.cpp:136-163 and replay.h:16: other spellings of a token do not make
\* another challenge of it.
SpellingsAreOneChallenge ==
    subject = "bytes" /\ Len(text) \in 1..2 => OneChallenge(text)

\* sha256.cpp:53-64: the zero bits that are counted are the work that was done.
ZeroBitsMeasureWork == subject = "bytes" => MeasuresWork(text)

\* config.cpp:19-36 and main.cpp:60-69, 118-132: the credentials and the secret
\* come back as they were saved.
SavedIsLoaded ==
    /\ subject = "value" => \A other \in {<<>>, <<"v">>, text} : LoadsBack(text, other)
    /\ subject = "secret" => SecretSurvives(text)

\* main.cpp:298, 305: the retention is what the configuration says.
DaysAreKept == subject = "days" => DaysKept(text)
=============================================================================
