--------------------------- MODULE StaticFilesProofs ---------------------------
(***************************************************************************)
(* What a browser holds of a static file, for any number of browsers,      *)
(* sizes and edits.                                                        *)
(*                                                                         *)
(* The argument is an order of times: the ETag of a copy is older than its *)
(* first byte, which is older than its last; a copy is older than the      *)
(* request of its browser that is under way, and that is older than the    *)
(* ETag the request works with.  So where the two ETags are equal, all of  *)
(* these times are.                                                        *)
(***************************************************************************)
EXTENDS StaticFiles, TLAPS

CopyInOrder(b) ==
    cache[b].held =>
        /\ cache[b].etag.mtime <= cache[b].body.first
        /\ cache[b].body.first <= cache[b].body.last
        /\ cache[b].body.last <= file.mtime

RequestInOrder(b) ==
    /\ request[b].asked <= file.mtime
    /\ request[b].stage # "none" /\ cache[b].held => cache[b].body.last <= request[b].asked
    /\ request[b].stage \in {"match", "read"} =>
          request[b].asked <= request[b].etag.mtime /\ request[b].etag.mtime <= file.mtime
    /\ request[b].stage = "read" =>
          request[b].etag.mtime <= request[b].first /\ request[b].first <= file.mtime

IInv == TypeOK /\ \A b \in Browsers : CopyInOrder(b) /\ RequestInOrder(b)

\* The values of a step have their types.
LEMMA InitTypes == NoCopy \in Copies /\ NoRequest \in Requests
  BY DEF NoCopy, NoRequest, Copies, Requests, Etags, Body

LEMMA TypeStep == TypeOK /\ [Next]_vars => TypeOK'
<1> SUFFICES ASSUME TypeOK, [Next]_vars PROVE TypeOK'
  OBVIOUS
<1> USE InitTypes DEF TypeOK
<1>1. CASE Edit
  BY <1>1 DEF Edit
<1>2. CASE Delete
  BY <1>2 DEF Delete
<1>3. ASSUME NEW b \in Browsers, Ask(b) PROVE TypeOK'
  BY <1>3 DEF Ask, NoRequest, Requests, Etags
<1>4. ASSUME NEW b \in Browsers, ReadSize(b) PROVE TypeOK'
  <2>1. [mtime |-> 0, size |-> IF file.there THEN file.size ELSE NoFile] \in Etags
    BY DEF Etags
  <2> QED
    BY <1>4, <2>1 DEF ReadSize, Requests
<1>5. ASSUME NEW b \in Browsers, NotFound(b) PROVE TypeOK'
  BY <1>5 DEF NotFound
<1>6. ASSUME NEW b \in Browsers, ReadMtime(b) PROVE TypeOK'
  <2>1. [mtime |-> file.mtime, size |-> request[b].etag.size] \in Etags
    BY DEF Requests, Etags
  <2> QED
    BY <1>6, <2>1 DEF ReadMtime, Requests
<1>7. ASSUME NEW b \in Browsers, NotModified(b) PROVE TypeOK'
  BY <1>7 DEF NotModified
<1>8. ASSUME NEW b \in Browsers, OpenFile(b) PROVE TypeOK'
  BY <1>8 DEF OpenFile, Requests
<1>9. ASSUME NEW b \in Browsers, ReadFile(b) PROVE TypeOK'
  BY <1>9 DEF ReadFile, SentTag, Requests, Copies, Body
<1>10. CASE UNCHANGED vars
  BY <1>10 DEF vars
<1> QED
  BY <1>1, <1>2, <1>3, <1>4, <1>5, <1>6, <1>7, <1>8, <1>9, <1>10 DEF Next, Handler

LEMMA OrderStep ==
    IInv /\ [Next]_vars => \A b \in Browsers : (CopyInOrder(b) /\ RequestInOrder(b))'
<1> SUFFICES ASSUME IInv, [Next]_vars, NEW b \in Browsers
             PROVE  (CopyInOrder(b) /\ RequestInOrder(b))'
  OBVIOUS
<1> USE DEF IInv, TypeOK, Copies, Requests, Etags, Body, CopyInOrder, RequestInOrder
<1>1. CASE Edit
  BY <1>1 DEF Edit
<1>2. CASE Delete
  BY <1>2 DEF Delete
<1>3. ASSUME NEW c \in Browsers, Ask(c) PROVE (CopyInOrder(b) /\ RequestInOrder(b))'
  BY <1>3 DEF Ask, At, NoRequest
<1>4. ASSUME NEW c \in Browsers, ReadSize(c) PROVE (CopyInOrder(b) /\ RequestInOrder(b))'
  BY <1>4 DEF ReadSize, At
<1>5. ASSUME NEW c \in Browsers, ReadMtime(c) PROVE (CopyInOrder(b) /\ RequestInOrder(b))'
  BY <1>5 DEF ReadMtime, At
<1>6. ASSUME NEW c \in Browsers, NotModified(c) PROVE (CopyInOrder(b) /\ RequestInOrder(b))'
  BY <1>6 DEF NotModified, NoRequest
<1>7. ASSUME NEW c \in Browsers, OpenFile(c) PROVE (CopyInOrder(b) /\ RequestInOrder(b))'
  BY <1>7 DEF OpenFile, At
<1>8. ASSUME NEW c \in Browsers, ReadFile(c) PROVE (CopyInOrder(b) /\ RequestInOrder(b))'
  BY <1>8 DEF ReadFile, At, SentTag, NoRequest
<1>9. ASSUME NEW c \in Browsers, NotFound(c) PROVE (CopyInOrder(b) /\ RequestInOrder(b))'
  BY <1>9 DEF NotFound, NoRequest, NoCopy
<1>10. CASE UNCHANGED vars
  BY <1>10 DEF vars
<1> QED
  BY <1>1, <1>2, <1>3, <1>4, <1>5, <1>6, <1>7, <1>8, <1>9, <1>10 DEF Next, Handler

LEMMA InitOrder == Init => IInv
  BY InitTypes DEF Init, IInv, TypeOK, CopyInOrder, RequestInOrder, NoCopy, NoRequest

\* Types and times in order, in every behaviour of the file and its browsers.
THEOREM Invariance == Spec => []IInv
<1>1. IInv /\ [Next]_vars => IInv'
  BY TypeStep, OrderStep DEF IInv
<1> QED
  BY <1>1, InitOrder, PTL DEF Spec

\* Every variable keeps its type, whatever the file system does between the
\* looks the handler takes at it (server.cpp:141-162).
THEOREM TypeCorrectness == Spec => []TypeOK
  BY Invariance, PTL DEF IInv

\* A browser is told "not modified" (server.cpp:152-158) only of a copy that is
\* one whole content and the one the ETag was taken of.
THEOREM ConfirmedCopies == Spec => []ConfirmedCopyIsCurrent
<1>1. IInv => ConfirmedCopyIsCurrent
  <2> SUFFICES ASSUME IInv, NEW b \in Browsers, At(b, "match"), Matches(b)
               PROVE  /\ cache[b].body.first = request[b].etag.mtime
                      /\ cache[b].body.last = request[b].etag.mtime
    BY DEF ConfirmedCopyIsCurrent
  <2>1. CopyInOrder(b) /\ RequestInOrder(b) /\ cache[b].held
        /\ cache[b].etag.mtime = request[b].etag.mtime
    BY DEF IInv, Matches
  <2>2. /\ {cache[b].body.first, cache[b].body.last} \subseteq Nat
        /\ {request[b].etag.mtime, request[b].asked} \subseteq Nat
    BY DEF IInv, TypeOK, Copies, Requests, Etags, Body
  <2> QED
    BY <2>1, <2>2 DEF CopyInOrder, RequestInOrder, At
<1> QED
  BY <1>1, Invariance, PTL

\* After an answer no byte a browser holds is older than its question
\* (server.cpp:165-166, "must revalidate").
THEOREM FreshAnswers == Spec => AnswerIsFresh
<1> DEFINE Fresh(b) == request[b].stage # "none" /\ request'[b].stage = "none" /\ cache'[b].held
                         => /\ request[b].asked <= cache'[b].body.first
                            /\ cache'[b].body.first <= cache'[b].body.last
<1>1. IInv /\ [Next]_vars => [\A b \in Browsers : Fresh(b)]_request
  <2> SUFFICES ASSUME IInv, Next, NEW b \in Browsers PROVE Fresh(b)
    BY DEF vars
  <2> USE DEF IInv, TypeOK, Copies, Requests, Etags, Body, CopyInOrder, RequestInOrder
  <2>1. CASE Edit \/ Delete
    BY <2>1 DEF Edit, Delete
  <2>2. ASSUME NEW c \in Browsers, Ask(c) PROVE Fresh(b)
    BY <2>2 DEF Ask, NoRequest
  <2>3. ASSUME NEW c \in Browsers, ReadSize(c) PROVE Fresh(b)
    BY <2>3 DEF ReadSize
  <2>6. ASSUME NEW c \in Browsers, ReadMtime(c) PROVE Fresh(b)
    BY <2>6 DEF ReadMtime
  <2>7. ASSUME NEW c \in Browsers, OpenFile(c) PROVE Fresh(b)
    BY <2>7 DEF OpenFile
  <2>8. ASSUME NEW c \in Browsers, NotFound(c) PROVE Fresh(b)
    BY <2>8 DEF NotFound, NoCopy
  <2>4. ASSUME NEW c \in Browsers, NotModified(c) PROVE Fresh(b)
    BY <2>4 DEF NotModified, Matches, At
  <2>5. ASSUME NEW c \in Browsers, ReadFile(c) PROVE Fresh(b)
    BY <2>5 DEF ReadFile, SentTag, At
  <2> QED
    BY <2>1, <2>2, <2>3, <2>4, <2>5, <2>6, <2>7, <2>8 DEF Next, Handler
<1> QED
  BY <1>1, Invariance, PTL DEF Spec, AnswerIsFresh
=============================================================================
