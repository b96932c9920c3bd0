----------------------------- MODULE StaticFiles -----------------------------
(***************************************************************************)
(* The static files of the HTTP server (file_response, server/server.cpp): *)
(* browsers that revalidate their copy of one file with its ETag, while    *)
(* the operator edits the file in place.                                   *)
(*                                                                         *)
(* The handler asks the file system for the size, for the time of the last *)
(* write, opens the file and reads it: four looks at a file that may       *)
(* change between any two of them, and within the read.  A content is      *)
(* named by the time it was written, since the code counts on that time to *)
(* advance on any change (server.cpp:147-148).  The browser's cache is     *)
(* external: it keeps the last body it was sent together with its ETag,    *)
(* and asks again before every use, as no-cache demands.                   *)
(***************************************************************************)
EXTENDS Integers

CONSTANTS
    Browsers,  \* each with one request for the file at a time
    Sizes,     \* what the file may measure
    MaxEdits,  \* bound on the changes of the file
    NoFile     \* file_size of a file there is not, -1 as uintmax_t

ASSUME StaticFilesAssumption == MaxEdits \in Nat /\ NoFile \notin Sizes

VARIABLES
    file,     \* the file: there or not, its size, the time of its last write
    cache,    \* cache[b]: the copy of browser b
    request   \* request[b]: the request of browser b and what its handler knows

vars == <<file, cache, request>>

Etags == [mtime : Nat, size : Sizes \cup {NoFile}]

\* A body is what the first and the last byte of it were read from.
Body == [first : Nat, last : Nat]

NoCopy == [held |-> FALSE, etag |-> [mtime |-> 0, size |-> NoFile],
           body |-> [first |-> 0, last |-> 0]]

\* asked is history: the file as it was when the browser asked.
NoRequest == [stage |-> "none", asked |-> 0, etag |-> [mtime |-> 0, size |-> NoFile], first |-> 0]

Copies == [held : BOOLEAN, etag : Etags, body : Body]
Requests == [stage : {"none", "size", "mtime", "match", "read"},
             asked : Nat, etag : Etags, first : Nat]

TypeOK ==
    /\ file \in [there : BOOLEAN, size : Sizes, mtime : Nat]
    /\ cache \in [Browsers -> Copies]
    /\ request \in [Browsers -> Requests]

Init ==
    /\ \E s \in Sizes : file = [there |-> TRUE, size |-> s, mtime |-> 1]
    /\ cache = [b \in Browsers |-> NoCopy]
    /\ request = [b \in Browsers |-> NoRequest]

-----------------------------------------------------------------------------
(* The file system *)

\* The operator writes, replaces or brings back the file.
Edit ==
    /\ file.mtime <= MaxEdits
    /\ \E s \in Sizes : file' = [there |-> TRUE, size |-> s, mtime |-> file.mtime + 1]
    /\ UNCHANGED <<cache, request>>

Delete ==
    /\ file.there
    /\ file' = [file EXCEPT !.there = FALSE]
    /\ UNCHANGED <<cache, request>>

-----------------------------------------------------------------------------
(* The request *)

At(b, stage) == request[b].stage = stage

Ask(b) ==
    /\ At(b, "none")
    /\ request' = [request EXCEPT ![b] = [NoRequest EXCEPT !.stage = "size", !.asked = file.mtime]]
    /\ UNCHANGED <<file, cache>>

\* file_size(full, ec); the error is overwritten by the next call.
ReadSize(b) ==
    /\ At(b, "size")
    /\ request' = [request EXCEPT ![b] = [@ EXCEPT !.stage = "mtime",
          !.etag = [mtime |-> 0, size |-> IF file.there THEN file.size ELSE NoFile]]]
    /\ UNCHANGED <<file, cache>>

\* Mutant of ReadMtime: ec is not looked at, and the time is that of an error.
ReadMtimeUnchecked(b) ==
    /\ At(b, "mtime")
    /\ request' = [request EXCEPT ![b] = [@ EXCEPT !.stage = "match",
          !.etag = [mtime |-> IF file.there THEN file.mtime ELSE -1, size |-> request[b].etag.size]]]
    /\ UNCHANGED <<file, cache>>

\* last_write_time(full, ec), and the one look at ec.
ReadMtime(b) ==
    /\ At(b, "mtime")
    /\ file.there
    /\ request' = [request EXCEPT ![b] = [@ EXCEPT !.stage = "match",
          !.etag = [mtime |-> file.mtime, size |-> request[b].etag.size]]]
    /\ UNCHANGED <<file, cache>>

\* Mutant of Matches: the tag is the size alone.
SameSize(b) == cache[b].held /\ cache[b].etag.size = request[b].etag.size

\* If-None-Match is the ETag.
Matches(b) == cache[b].held /\ cache[b].etag = request[b].etag

\* 304: the browser keeps its copy.
NotModified(b) ==
    /\ At(b, "match")
    /\ Matches(b)
    /\ request' = [request EXCEPT ![b] = NoRequest]
    /\ UNCHANGED <<file, cache>>

\* ifstream f(full), and the first byte.
OpenFile(b) ==
    /\ At(b, "match")
    /\ ~Matches(b)
    /\ file.there
    /\ request' = [request EXCEPT ![b] = [@ EXCEPT !.stage = "read", !.first = file.mtime]]
    /\ UNCHANGED <<file, cache>>

\* 404: the time cannot be read or the file not opened.  It takes the copy away.
NotFound(b) ==
    /\ At(b, "mtime") \/ (At(b, "match") /\ ~Matches(b))
    /\ ~file.there
    /\ request' = [request EXCEPT ![b] = NoRequest]
    /\ cache' = [cache EXCEPT ![b] = NoCopy]
    /\ UNCHANGED file

\* Mutant of SentTag: the tag is taken anew once the body is read.
TagOfNow(b) == [mtime |-> file.mtime, size |-> file.size]

\* The ETag that goes out with the body was made before the file was opened.
SentTag(b) == request[b].etag

\* ss << f.rdbuf(), to the last byte: an open file can be read even when it is
\* deleted, and shows what was written to it in place meanwhile.
ReadFile(b) ==
    /\ At(b, "read")
    /\ cache' = [cache EXCEPT ![b] = [held |-> TRUE, etag |-> SentTag(b),
                                      body |-> [first |-> request[b].first, last |-> file.mtime]]]
    /\ request' = [request EXCEPT ![b] = NoRequest]
    /\ UNCHANGED file

Handler(b) ==
    \/ ReadSize(b) \/ ReadMtime(b) \/ NotModified(b) \/ OpenFile(b) \/ ReadFile(b)
    \/ NotFound(b)

Next == Edit \/ Delete \/ \E b \in Browsers : Ask(b) \/ Handler(b)

Spec == Init /\ [][Next]_vars

-----------------------------------------------------------------------------
(* Properties *)

\* server.cpp:146-148: a 304 is answered only to a browser whose copy is one
\* whole content, and the one the file had when its time was read.  A body that
\* was torn by an edit, or read after an edit the tag does not know of, is
\* never confirmed.
ConfirmedCopyIsCurrent ==
    \A b \in Browsers : At(b, "match") /\ Matches(b) =>
        cache[b].body.first = request[b].etag.mtime /\ cache[b].body.last = request[b].etag.mtime

\* server.cpp:165-166, "must revalidate": what a browser holds after an answer
\* is not older than the file was when it asked, to the last byte.
AnswerIsFresh ==
    [][\A b \in Browsers : request[b].stage # "none" /\ request'[b].stage = "none" /\ cache'[b].held
            => /\ request[b].asked <= cache'[b].body.first
               /\ cache'[b].body.first <= cache'[b].body.last]_request
=============================================================================
