-------------------------------- MODULE Fields --------------------------------
(***************************************************************************)
(* The field validator (feedback/validator.cpp).  The visitor writes code  *)
(* points, the server sees the bytes of their UTF-8; a code point is       *)
(* represented by the number of its bytes, or by the control character it  *)
(* is.                                                                     *)
(***************************************************************************)
EXTENDS Texts

CONSTANTS
    PageMessageMax,   \* maxlength of the message in the page: 500, in every installation
    PageNameMax,      \* maxlength of the name: 40
    Limits            \* the limits an operator may configure the server with

ASSUME FieldsAssumption ==
    PageMessageMax \in Nat /\ PageNameMax \in Nat /\ Limits \subseteq [message : Nat, name : Nat]

\* "newline" stands for the three control characters that pass, the carriage
\* return among them.
CodePoints == {"1", "2", "3", "4", "newline", "control"}

Width(p) == CASE p = "2" -> 2 [] p = "3" -> 3 [] p = "4" -> 4 [] OTHER -> 1

\* Its bytes: a leading one, which control characters are as well, and the rest.
Utf8(p) == [i \in 1..Width(p) |-> IF i > 1 THEN "continuation"
                                  ELSE IF p \in {"newline", "control"} THEN p ELSE "leading"]
Encoded(text) == FlattenSeq([i \in DOMAIN text |-> Utf8(text[i])])

\* value.length of a form field: a code point outside the basic plane counts twice.
Utf16Length(text) == Len(text) + Occurrences(text, "4")

\* Mutant of CodepointCount: bytes are counted.
ByteCount(bytes) == Len(bytes)

\* utf8_codepoint_count: every byte but the continuation bytes.
CodepointCount(bytes) == Len(bytes) - Occurrences(bytes, "continuation")

HasDisallowedControlChars(bytes) == Occurrences(bytes, "control") > 0

CheckText(bytes, maxChars, allowEmpty) ==
    IF bytes = <<>> THEN IF allowEmpty THEN "Ok" ELSE "Empty"
    ELSE IF HasDisallowedControlChars(bytes) THEN "BadChars"
    ELSE IF CodepointCount(bytes) > maxChars THEN "TooLong"
    ELSE "Ok"

\* Validator::validate, the fields of ValidationReport.
Validate(limits, name, message, locale, honeypot, quick) ==
    [name |-> CheckText(name, limits.name, TRUE),
     message |-> CheckText(message, limits.message, FALSE),
     locale |-> IF locale \in {"ru", "en"} THEN "Ok" ELSE "BadLocale",
     honeypot |-> IF honeypot = <<>> THEN "Ok" ELSE "HoneypotTripped",
     timing |-> IF quick THEN "FilledTooFast" ELSE "Ok"]

ReportOk(report) == \A field \in DOMAIN report : report[field] = "Ok"

-----------------------------------------------------------------------------
(* Properties of a text *)

\* What the form lets a visitor send: maxlength counts as the browser does, and
\* required is not enforced, the form being novalidate.
FormAdmits(text, max) == Utf16Length(text) <= max

\* Whatever the limits of the server are, it accepts a visitor who takes the time
\* exactly if the message is not empty, there are no control characters and
\* neither text has more code points than its limit.  So where the limits are at
\* least those of the page, whoever used the page is never refused for the length
\* of what they wrote, in whatever script.
FormIsServed(text, name) ==
    \A limits \in Limits :
        LET accepted == ReportOk(Validate(limits, Encoded(name), Encoded(text), "ru", <<>>, FALSE))
            clean == Occurrences(text \o name, "control") = 0
        IN  /\ accepted <=> /\ clean
                           /\ Len(text) \in 1..limits.message /\ Len(name) <= limits.name
            /\ /\ FormAdmits(text, PageMessageMax) /\ FormAdmits(name, PageNameMax)
               /\ limits.message >= PageMessageMax /\ limits.name >= PageNameMax
               => (accepted <=> text # <<>> /\ clean)
=============================================================================
