--------------------------- MODULE AccountFileProofs ---------------------------
(***************************************************************************)
(* What the account file holds, for any number of registrations, restarts  *)
(* and faults.                                                             *)
(*                                                                         *)
(* The file is not what it should be while a save is between its two       *)
(* halves, so the invariant speaks of the save instead: what it will write *)
(* is the file as it was reported to be, with its own keys put in.  That   *)
(* needs two more facts: without an overlap only one command is saving,    *)
(* and the file it emptied stays empty until it writes.                    *)
(***************************************************************************)
EXTENDS AccountFile, TLAPS

\* What a command under way works with.
AtWork ==
    /\ ~At("run", "idle") =>
          /\ job["run"].db # Absent
          /\ job["run"].own["hmac_secret"] \in 1..MaxSecrets
          /\ \A k \in Keys \ {"hmac_secret"} : job["run"].own[k] = Absent
    /\ ~At("register", "idle") =>
          /\ job["register"].own["addr"] \in 1..MaxAccounts
          /\ job["register"].own["mail_pw"] = job["register"].own["addr"]
          /\ job["register"].own["db"] # Absent
          /\ job["register"].own["hmac_secret"] = Absent
          /\ job["register"].own["port"] = Absent

\* One command saves at a time, and it writes to an empty file.
Alone ==
    "overlap" \notin mishaps =>
        /\ ~(Saving("run") /\ Saving("register"))
        /\ \A p \in Processes : At(p, "flush") => file = Empty

\* The credentials of the file, and those of the file to come, are of one account.
Together ==
    mishaps \subseteq {"crash", "anew"} =>
        /\ file["addr"] = file["mail_pw"]
        /\ \A p \in Processes : Saving(p) => job[p].kv["addr"] = job[p].kv["mail_pw"]

\* kv is the file as it was reported, but for the keys of p.
AsSaid(p, kv) ==
    /\ kv["db"] = Own /\ kv["port"] = Own
    /\ kv["addr"] = IF p = "register" THEN job[p].own["addr"] ELSE said.account
    /\ kv["mail_pw"] = kv["addr"]
    /\ kv["hmac_secret"] = IF p = "run" THEN job[p].own["hmac_secret"] ELSE said.secret

\* Nothing has gone wrong so far.
Calm ==
    mishaps = {} =>
        /\ ~At("run", "idle") => job["run"].db = Own /\ said.secret = 0
        /\ ~At("register", "idle") => job["register"].own["db"] = Own
        /\ \A p \in Processes : Saving(p) => AsSaid(p, job[p].kv)

\* At worst a save was cut short and no account registered since: a file with an
\* account has the rest as well.
Kept ==
    mishaps \subseteq {"crash"} =>
        /\ Quiet /\ HasAccount => file["db"] = Own /\ file["hmac_secret"] = said.secret
        /\ ~At("run", "idle") => job["run"].db = Own /\ said.secret = 0
        /\ Saving("run") /\ job["run"].kv["addr"] # Absent =>
              /\ job["run"].kv["db"] = Own
              /\ job["run"].kv["hmac_secret"] = job["run"].own["hmac_secret"]

IInv ==
    /\ TypeOK /\ AtWork /\ Alone /\ Together /\ Calm /\ Kept
    /\ NothingForgotten /\ RestartKeepsSecret

\* The values of Config are values, whatever is merged or cut.
LEMMA Contents ==
    ASSUME NEW old \in [Keys -> Values], NEW new \in [Keys -> Values], NEW n \in Int
    PROVE  /\ Merge(old, new) \in [Keys -> Values]
           /\ FirstLines(old, n, Cut) \in [Keys -> Values]
           /\ LastLines(old, new, n) \in [Keys -> Values]
           /\ Empty \in [Keys -> Values]
           /\ \A k \in Keys : Merge(old, new)[k] = IF new[k] # Absent THEN new[k] ELSE old[k]
  BY DEF Merge, FirstLines, LastLines, Empty, Values

\* A job that is under way is one of the two.
LEMMA TwoProcesses ==
    /\ Processes = {"register", "run"}
    /\ Other("run") = "register" /\ Other("register") = "run"
  BY DEF Processes, Other

\* A save to an empty file writes what it has.
LEMMA FlushToEmpty ==
    ASSUME NEW kv \in [Keys -> Values], NEW n \in Int
    PROVE  Merge(kv, LastLines(Empty, kv, n)) = kv
<1>1. LastLines(Empty, kv, n) = Empty
  BY DEF LastLines, Empty
<1> QED
  BY <1>1 DEF Merge, Empty

\* What --register saves.
LEMMA Registered ==
    ASSUME file \in [Keys -> Values], NEW n \in 1..MaxAccounts
    PROVE  /\ RegisteredKeys(n) \in [Keys -> Values]
           /\ RegisteredKeys(n)["addr"] = n /\ RegisteredKeys(n)["mail_pw"] = n
           /\ RegisteredKeys(n)["db"] = Get(file, "db", Default)
           /\ RegisteredKeys(n)["hmac_secret"] = Absent
           /\ RegisteredKeys(n)["port"] = Absent
           /\ Get(file, "db", Default) \in Values \ {Absent}
<1>1. Get(file, "db", Default) \in Values \ {Absent}
  BY DEF Get, Values, Keys, Absent, Default
<1> QED
  BY <1>1 DEF RegisteredKeys, Empty, Keys, Values

\* What --run saves.
LEMMA Generated ==
    ASSUME NEW n \in 1..MaxSecrets
    PROVE  LET own == [Empty EXCEPT !["hmac_secret"] = n] IN
           /\ own \in [Keys -> Values]
           /\ own["hmac_secret"] = n
           /\ \A k \in Keys \ {"hmac_secret"} : own[k] = Absent
  BY DEF Empty, Keys, Values

-----------------------------------------------------------------------------

LEMMA InitSafe == Init => IInv
<1> SUFFICES ASSUME Init PROVE IInv
  OBVIOUS
<1>1. Empty \in [Keys -> Values]
  BY DEF Empty, Values
<1>2. TypeOK
  BY <1>1, AccountFileAssumption DEF Init, TypeOK, NoJob, Jobs, Values, Down, Keys, Processes
<1> QED
  BY <1>2 DEF Init, IInv, AtWork, Alone, Together, Calm, Kept, HasAccount, At, Saving, NoJob, Down, Empty, Keys,
     Processes, NothingForgotten, RestartKeepsSecret, Quiet, Absent, Own

\* Every variable keeps its type.
LEMMA TypeStep == TypeOK /\ AtWork /\ [Next]_vars => TypeOK'
<1> SUFFICES ASSUME TypeOK, AtWork, [Next]_vars PROVE TypeOK'
  OBVIOUS
<1> USE AccountFileAssumption DEF TypeOK
<1>1. Empty \in [Keys -> Values] /\ NoJob \in Jobs
  BY DEF Empty, NoJob, Jobs, Values
<1>2. ASSUME NEW db \in Values, NEW own \in [Keys -> Values] PROVE NewJob(db, own) \in Jobs
  BY <1>1 DEF NewJob, Jobs
<1>3. Get(file, "db", Default) \in Values \ {Absent}
  BY DEF Get, Values, Keys, Absent, Default
<1>4. CASE Register
  <2>1. made.accounts + 1 \in 1..MaxAccounts
    BY <1>4 DEF Register
  <2>2. NewJob(Absent, RegisteredKeys(made.accounts + 1)) \in Jobs
    BY <1>2, <2>1, Registered DEF Values
  <2>3. made' \in [accounts : 0..MaxAccounts, secrets : 0..MaxSecrets]
    BY <1>4 DEF Register
  <2>4. mishaps' \subseteq Faults \cup {"anew"}
    BY <1>4 DEF Register, Reads
  <2> QED
    BY <1>4, <2>2, <2>3, <2>4 DEF Register
<1>5. CASE RunWithSecret
  <2>1. file["hmac_secret"] \in Values \ {Absent}
    BY <1>5 DEF RunWithSecret, Keys
  <2>2. server' \in Servers
    BY <1>3, <1>5, <2>1 DEF RunWithSecret, Serve, Servers
  <2> QED
    BY <1>5, <2>2 DEF RunWithSecret, Reads
<1>6. CASE RunWithoutSecret
  <2>1. made.secrets + 1 \in 1..MaxSecrets
    BY <1>6 DEF RunWithoutSecret
  <2>2. NewJob(Get(file, "db", Default), [Empty EXCEPT !["hmac_secret"] = made.secrets + 1]) \in Jobs
    BY <1>2, <1>3, <2>1, Generated
  <2>3. made' \in [accounts : 0..MaxAccounts, secrets : 0..MaxSecrets]
    BY <1>6 DEF RunWithoutSecret
  <2>4. mishaps' \subseteq Faults \cup {"anew"}
    BY <1>6 DEF RunWithoutSecret, Reads
  <2> QED
    BY <1>6, <2>2, <2>3, <2>4 DEF RunWithoutSecret
<1>7. CASE Stop
  BY <1>7 DEF Stop
<1>8. ASSUME NEW p \in Processes, SaveLoad(p) PROVE TypeOK'
  <2>1. Merge(file, job[p].own) \in [Keys -> Values]
    BY Contents DEF Jobs
  <2>2. [stage |-> "open", db |-> job[p].db, own |-> job[p].own, kv |-> Merge(Existing, job[p].own)] \in Jobs
    BY <2>1 DEF Jobs, Existing
  <2> QED
    BY <1>8, <2>2 DEF SaveLoad, Reads
<1>9. ASSUME NEW p \in Processes, SaveOpen(p) PROVE TypeOK'
  <2>1. [job[p] EXCEPT !.stage = "flush"] \in Jobs
    BY DEF Jobs
  <2> QED
    BY <1>1, <1>9, <2>1 DEF SaveOpen
<1>10. ASSUME NEW p \in Processes, ~At(p, "idle"), p = "run"
       PROVE  [up |-> TRUE, db |-> job[p].db, secret |-> job[p].own["hmac_secret"]] \in Servers
  <2>1. job[p].db \in Values \ {Absent}
    BY <1>10 DEF AtWork, Jobs
  <2>2. job[p].own["hmac_secret"] \in Values \ {Absent}
    BY <1>10 DEF AtWork, Values, Absent
  <2> QED
    BY <2>1, <2>2 DEF Servers
<1>11. ASSUME NEW p \in Processes, SaveFails(p) PROVE TypeOK'
  BY <1>1, <1>10, <1>11 DEF SaveFails, Serve, At
<1>12. ASSUME NEW p \in Processes, At(p, "flush"), Saved(p),
              file' \in [Keys -> Values], mishaps' \subseteq Faults \cup {"anew"}
       PROVE  TypeOK'
  <2>1. server' \in {Down} \cup Servers
    BY <1>10, <1>12 DEF Saved, Serve, At
  <2>2. p = "register" => job[p].own["addr"] \in 0..MaxAccounts
    BY <1>12 DEF AtWork, At
  <2>3. p = "run" => job[p].own["hmac_secret"] \in 0..MaxSecrets
    BY <1>12 DEF AtWork, At
  <2>4. said' \in [account : 0..MaxAccounts, secret : 0..MaxSecrets]
    BY <1>12, <2>2, <2>3 DEF Saved
  <2> QED
    BY <1>1, <1>12, <2>1, <2>4 DEF Saved
<1>13. ASSUME NEW p \in Processes, SaveFlush(p) PROVE TypeOK'
  <2>1. PICK n \in 0..Len(KeyOrder) : file' = Merge(job[p].kv, LastLines(file, job[p].kv, n))
    BY <1>13 DEF SaveFlush
  <2>2. n \in Int /\ job[p].kv \in [Keys -> Values]
    BY DEF Jobs, KeyOrder
  <2>3. file' \in [Keys -> Values]
    BY <2>1, <2>2, Contents
  <2> QED
    BY <1>12, <1>13, <2>3 DEF SaveFlush, At
<1>14. ASSUME NEW p \in Processes, SaveFlushDiskFull(p) PROVE TypeOK'
  <2>1. PICK n \in DOMAIN KeyOrder :
            file' = Merge(FirstLines(job[p].kv, n, Cut), LastLines(file, job[p].kv, n))
    BY <1>14 DEF SaveFlushDiskFull
  <2>2. n \in Int /\ job[p].kv \in [Keys -> Values]
    BY DEF Jobs, KeyOrder
  <2>3. file' \in [Keys -> Values]
    BY <2>1, <2>2, Contents
  <2> QED
    BY <1>12, <1>14, <2>3 DEF SaveFlushDiskFull
<1>15. ASSUME NEW p \in Processes, Crash(p) PROVE TypeOK'
  BY <1>1, <1>15 DEF Crash
<1>16. CASE UNCHANGED vars
  BY <1>16 DEF vars
<1> QED
  BY <1>4, <1>5, <1>6, <1>7, <1>8, <1>9, <1>11, <1>13, <1>14, <1>15, <1>16 DEF Next

\* A command keeps the keys it was started with.
LEMMA AtWorkStep == TypeOK /\ AtWork /\ [Next]_vars => AtWork'
<1> SUFFICES ASSUME TypeOK, AtWork, [Next]_vars PROVE AtWork'
  OBVIOUS
<1> USE AccountFileAssumption, TwoProcesses DEF TypeOK, AtWork, At
<1>1. CASE Register
  <2>1. made.accounts + 1 \in 1..MaxAccounts
    BY <1>1 DEF Register
  <2> QED
    BY <1>1, <2>1, Registered DEF Register, NewJob
<1>2. CASE RunWithoutSecret
  <2>1. made.secrets + 1 \in 1..MaxSecrets
    BY <1>2 DEF RunWithoutSecret
  <2>2. Get(file, "db", Default) \in Values \ {Absent}
    BY DEF Get, Values, Keys, Absent, Default
  <2> QED
    BY <1>2, <2>1, <2>2, Generated DEF RunWithoutSecret, NewJob
<1>3. CASE RunWithSecret \/ Stop \/ UNCHANGED vars
  BY <1>3 DEF RunWithSecret, Stop, vars
<1>4. ASSUME NEW p \in Processes, SaveLoad(p) PROVE AtWork'
  BY <1>4 DEF SaveLoad
<1>5. ASSUME NEW p \in Processes, SaveOpen(p) PROVE AtWork'
  BY <1>5 DEF SaveOpen, Jobs
<1>6. ASSUME NEW p \in Processes, job' = [job EXCEPT ![p] = NoJob] PROVE AtWork'
  BY <1>6 DEF NoJob
<1>7. ASSUME NEW p \in Processes, SaveFails(p) \/ SaveFlush(p) \/ SaveFlushDiskFull(p) \/ Crash(p)
      PROVE  job' = [job EXCEPT ![p] = NoJob]
  BY <1>7 DEF SaveFails, SaveFlush, SaveFlushDiskFull, Crash, Saved
<1> QED
  BY <1>1, <1>2, <1>3, <1>4, <1>5, <1>6, <1>7 DEF Next

\* What has gone wrong is not forgotten, and reading beside a save is noticed.
LEMMA MishapsGrow == [Next]_vars => mishaps \subseteq mishaps'
  BY DEF Next, vars, Register, RunWithSecret, RunWithoutSecret, Stop, SaveLoad, SaveOpen, SaveFails,
     SaveFlush, SaveFlushDiskFull, Crash, Reads

\* The second of two saves begins with an overlap; a save that empties the file
\* is the only one that writes to it.
LEMMA AloneStep == TypeOK /\ Alone /\ [Next]_vars => Alone'
<1> SUFFICES ASSUME TypeOK, Alone, [Next]_vars, "overlap" \notin mishaps'
             PROVE  /\ ~(Saving("run") /\ Saving("register"))'
                    /\ \A p \in Processes : (At(p, "flush") => file = Empty)'
  BY DEF Alone
<1>1. "overlap" \notin mishaps
  BY MishapsGrow
<1> USE <1>1, TwoProcesses DEF TypeOK, Alone, At, Saving
<1>2. CASE Register
  BY <1>2 DEF Register, NewJob
<1>3. CASE RunWithoutSecret
  BY <1>3 DEF RunWithoutSecret, NewJob
<1>4. CASE RunWithSecret \/ Stop \/ UNCHANGED vars
  BY <1>4 DEF RunWithSecret, Stop, vars
<1>5. ASSUME NEW p \in Processes, SaveLoad(p)
      PROVE  /\ ~(Saving("run") /\ Saving("register"))'
             /\ \A q \in Processes : (At(q, "flush") => file = Empty)'
  BY <1>5 DEF SaveLoad, Reads, ReadsBeside
<1>6. ASSUME NEW p \in Processes, SaveOpen(p)
      PROVE  /\ ~(Saving("run") /\ Saving("register"))'
             /\ \A q \in Processes : (At(q, "flush") => file = Empty)'
  BY <1>6 DEF SaveOpen, Jobs
<1>7. ASSUME NEW p \in Processes, SaveFails(p) \/ Crash(p)
      PROVE  /\ ~(Saving("run") /\ Saving("register"))'
             /\ \A q \in Processes : (At(q, "flush") => file = Empty)'
  BY <1>7 DEF SaveFails, Crash, NoJob
<1>8. ASSUME NEW p \in Processes, SaveFlush(p) \/ SaveFlushDiskFull(p)
      PROVE  /\ ~(Saving("run") /\ Saving("register"))'
             /\ \A q \in Processes : (At(q, "flush") => file = Empty)'
  BY <1>8 DEF SaveFlush, SaveFlushDiskFull, Saved, NoJob
<1> QED
  BY <1>2, <1>3, <1>4, <1>5, <1>6, <1>7, <1>8 DEF Next

\* A save that is alone writes what it has.
LEMMA FlushAlone ==
    ASSUME TypeOK, Alone, "overlap" \notin mishaps, NEW p \in Processes, SaveFlush(p)
    PROVE  file' = job[p].kv
<1>1. PICK n \in 0..Len(KeyOrder) : file' = Merge(job[p].kv, LastLines(file, job[p].kv, n))
  BY DEF SaveFlush
<1>2. n \in Int /\ job[p].kv \in [Keys -> Values]
  BY DEF TypeOK, Jobs, KeyOrder
<1>3. file = Empty
  BY DEF Alone, SaveFlush
<1> QED
  BY <1>1, <1>2, <1>3, FlushToEmpty

\* What a save will write, key by key.
LEMMA Loaded ==
    ASSUME TypeOK, NEW p \in Processes, SaveLoad(p)
    PROVE  /\ job' = [job EXCEPT ![p] = [stage |-> "open", db |-> job[p].db, own |-> job[p].own,
                                         kv |-> Merge(file, job[p].own)]]
           /\ \A k \in Keys : Merge(file, job[p].own)[k] =
                 IF job[p].own[k] # Absent THEN job[p].own[k] ELSE file[k]
           /\ file' = file /\ said' = said /\ server' = server
<1>1. job[p].own \in [Keys -> Values] /\ file \in [Keys -> Values] /\ 0 \in Int
  BY DEF TypeOK, Jobs
<1>2. \A k \in Keys : Merge(file, job[p].own)[k] =
         IF job[p].own[k] # Absent THEN job[p].own[k] ELSE file[k]
  BY <1>1, Contents
<1> QED
  BY <1>2 DEF SaveLoad, Existing

LEMMA TogetherStep == TypeOK /\ AtWork /\ Alone /\ Together /\ [Next]_vars => Together'
<1> SUFFICES ASSUME TypeOK, AtWork, Alone, Together, [Next]_vars,
                    mishaps' \subseteq {"crash", "anew"}
             PROVE  /\ file'["addr"] = file'["mail_pw"]
                    /\ \A q \in Processes :
                          (Saving(q) => job[q].kv["addr"] = job[q].kv["mail_pw"])'
  BY DEF Together
<1> DEFINE Goal == /\ file'["addr"] = file'["mail_pw"]
                   /\ \A q \in Processes :
                         (Saving(q) => job[q].kv["addr"] = job[q].kv["mail_pw"])'
<1>1. /\ mishaps \subseteq {"crash", "anew"} /\ "overlap" \notin mishaps
      /\ file["addr"] = file["mail_pw"]
      /\ \A q \in Processes : Saving(q) => job[q].kv["addr"] = job[q].kv["mail_pw"]
  BY MishapsGrow DEF Together
<1>2. CASE Register
  BY <1>1, <1>2 DEF Register, NewJob, TypeOK, At, Saving
<1>3. CASE RunWithoutSecret
  BY <1>1, <1>3 DEF RunWithoutSecret, NewJob, TypeOK, At, Saving
<1>4. CASE RunWithSecret \/ Stop \/ UNCHANGED vars
  BY <1>1, <1>4 DEF RunWithSecret, Stop, vars, At, Saving
<1>5. ASSUME NEW p \in Processes, SaveLoad(p) PROVE Goal
  <2>1. job[p].own["addr"] = job[p].own["mail_pw"]
    BY <1>5, TwoProcesses DEF AtWork, SaveLoad, At, Keys
  <2>2. Merge(file, job[p].own)["addr"] = Merge(file, job[p].own)["mail_pw"]
    BY <1>1, <1>5, <2>1, Loaded DEF Keys
  <2>3. job' = [job EXCEPT ![p] = [stage |-> "open", db |-> job[p].db, own |-> job[p].own,
                                   kv |-> Merge(file, job[p].own)]]
        /\ file' = file
    BY <1>5, Loaded
  <2> QED
    BY <1>1, <2>2, <2>3 DEF TypeOK, Saving
<1>6. ASSUME NEW p \in Processes, SaveOpen(p) PROVE Goal
  BY <1>1, <1>6 DEF SaveOpen, TypeOK, Jobs, At, Saving, Empty, Keys
<1>7. ASSUME NEW p \in Processes, SaveFails(p) \/ Crash(p) PROVE Goal
  BY <1>1, <1>7 DEF SaveFails, Crash, NoJob, TypeOK, Saving
<1>8. ASSUME NEW p \in Processes, SaveFlush(p) PROVE Goal
  <2>1. file' = job[p].kv
    BY <1>1, <1>8, FlushAlone
  <2> QED
    BY <1>1, <1>8, <2>1 DEF SaveFlush, Saved, NoJob, TypeOK, At, Saving
<1>9. ASSUME NEW p \in Processes, SaveFlushDiskFull(p) PROVE FALSE
  BY <1>9 DEF SaveFlushDiskFull
<1> QED
  BY <1>2, <1>3, <1>4, <1>5, <1>6, <1>7, <1>8, <1>9 DEF Next

\* Nothing is being written: the file is what it was reported to be.
LEMMA QuietFile ==
    ASSUME IInv, mishaps = {}, Quiet
    PROVE  /\ file["db"] = Own /\ file["port"] = Own
           /\ file["addr"] = said.account /\ file["mail_pw"] = said.account
           /\ file["hmac_secret"] = said.secret
  BY DEF IInv, NothingForgotten

\* A command that reads and does not overlap with the other's save reads a file
\* nobody is writing.
LEMMA ReadsQuiet ==
    ASSUME NEW p \in Processes, Reads(p), "overlap" \notin mishaps', ~Saving(p)
    PROVE  Quiet /\ ~Saving(Other(p))
  BY TwoProcesses DEF Reads, ReadsBeside, Quiet, At, Saving

LEMMA CalmStep == IInv /\ [Next]_vars => (Calm /\ NothingForgotten)'
<1> SUFFICES ASSUME IInv, [Next]_vars, mishaps' = {}
             PROVE  (Calm /\ NothingForgotten)'
  BY DEF Calm, NothingForgotten
<1> DEFINE Goal == (Calm /\ NothingForgotten)'
<1>0. mishaps = {}
  BY MishapsGrow
<1>1. TypeOK /\ AtWork /\ Alone
  BY DEF IInv
<1>2. /\ ~At("run", "idle") => job["run"].db = Own /\ said.secret = 0
      /\ ~At("register", "idle") => job["register"].own["db"] = Own
      /\ \A p \in Processes : Saving(p) => AsSaid(p, job[p].kv)
  BY <1>0 DEF IInv, Calm
<1>3. \A p \in Processes : job[p].own \in [Keys -> Values] /\ job[p].kv \in [Keys -> Values]
  BY <1>1 DEF TypeOK, Jobs
<1>4. CASE Register
  <2>1. Quiet /\ ~Saving("run")
    BY <1>4, ReadsQuiet, TwoProcesses DEF Register, At, Saving
  <2>2. Get(file, "db", Default) = Own
    BY <1>0, <2>1, QuietFile DEF Get, Own, Absent
  <2>3. RegisteredKeys(made.accounts + 1)["db"] = Own
    BY <2>2 DEF RegisteredKeys, Empty, Keys
  <2>4. NothingForgotten'
    BY <1>0, <1>1, <1>2, <1>4, <2>1, QuietFile
       DEF Register, NothingForgotten
  <2>5. Calm'
    BY <1>1, <1>2, <1>4, <2>1, <2>3, TwoProcesses DEF Register, NewJob, Calm, TypeOK, At, Saving
  <2> QED
    BY <2>4, <2>5
<1>5. CASE RunWithSecret
  <2>1. Quiet
    BY <1>5, ReadsQuiet, TwoProcesses DEF RunWithSecret, At, Saving
  <2>2. NothingForgotten' /\ Calm'
    BY <1>0, <1>2, <1>5, <2>1, QuietFile
       DEF RunWithSecret, NothingForgotten, Calm, AsSaid, At, Saving
  <2> QED
    BY <2>2
<1>6. CASE RunWithoutSecret
  <2>1. Quiet /\ ~Saving("register")
    BY <1>6, ReadsQuiet, TwoProcesses DEF RunWithoutSecret, At, Saving
  <2>2. Get(file, "db", Default) = Own /\ said.secret = 0
    BY <1>0, <1>6, <2>1, QuietFile DEF Get, Own, Absent, RunWithoutSecret
  <2>3. NothingForgotten'
    BY <1>0, <1>2, <1>6, <2>1, QuietFile
       DEF RunWithoutSecret, NothingForgotten
  <2>4. Calm'
    BY <1>1, <1>2, <1>6, <2>1, <2>2, TwoProcesses
       DEF RunWithoutSecret, NewJob, Calm, TypeOK, At, Saving
  <2> QED
    BY <2>3, <2>4
<1>7. CASE Stop \/ UNCHANGED vars
  BY <1>0, <1>2, <1>7 DEF IInv, Stop, vars, Down, Calm, NothingForgotten,
     AsSaid, At, Saving, Quiet
<1>8. ASSUME NEW p \in Processes, SaveLoad(p) PROVE Goal
  <2>1. Quiet /\ ~Saving(Other(p))
    BY <1>8, ReadsQuiet DEF SaveLoad, At, Saving
  <2>2. AsSaid(p, Merge(file, job[p].own))
    <3>1. /\ file["db"] = Own /\ file["port"] = Own
          /\ file["addr"] = said.account /\ file["mail_pw"] = said.account
          /\ file["hmac_secret"] = said.secret
      BY <1>0, <2>1, QuietFile
    <3>2. \A k \in Keys : Merge(file, job[p].own)[k] =
             IF job[p].own[k] # Absent THEN job[p].own[k] ELSE file[k]
      BY <1>1, <1>8, Loaded
    <3>3. CASE p = "run"
      BY <1>1, <1>8, <3>1, <3>2, <3>3 DEF AsSaid, AtWork, SaveLoad, At, Keys, Absent
    <3>4. CASE p = "register"
      BY <1>1, <1>2, <1>8, <3>1, <3>2, <3>4 DEF AsSaid, AtWork, SaveLoad, At, Keys, Absent
    <3> QED
      BY <3>3, <3>4, TwoProcesses
  <2>3. /\ job' = [job EXCEPT ![p] = [stage |-> "open", db |-> job[p].db, own |-> job[p].own,
                                      kv |-> Merge(file, job[p].own)]]
        /\ file' = file /\ said' = said /\ server' = server
    BY <1>1, <1>8, Loaded
  <2>4. NothingForgotten'
    BY <1>0, <1>2, <2>1, <2>3, QuietFile DEF NothingForgotten
  <2>5. Calm'
    BY <1>1, <1>2, <1>8, <2>1, <2>2, <2>3, TwoProcesses
       DEF Calm, AsSaid, TypeOK, SaveLoad, At, Saving
  <2> QED
    BY <2>4, <2>5
<1>9. ASSUME NEW p \in Processes, SaveOpen(p) PROVE Goal
  <2>1. job' = [job EXCEPT ![p] = [@ EXCEPT !.stage = "flush"]] /\ said' = said /\ server' = server
    BY <1>9 DEF SaveOpen
  <2>2. ~Quiet'
    BY <1>1, <2>1 DEF TypeOK, Jobs, Quiet, At
  <2>3. NothingForgotten'
    BY <1>0, <1>2, <2>1, <2>2 DEF NothingForgotten
  <2>4. \A q \in Processes : /\ job'[q].own = job[q].own /\ job'[q].kv = job[q].kv
                             /\ job'[q].db = job[q].db
                             /\ (At(q, "idle")' <=> At(q, "idle")) /\ (Saving(q)' <=> Saving(q))
    BY <1>1, <1>9, <2>1 DEF TypeOK, Jobs, SaveOpen, At, Saving
  <2>5. Calm'
    BY <1>2, <2>1, <2>4, TwoProcesses DEF Calm, AsSaid
  <2> QED
    BY <2>3, <2>5
<1>10. ASSUME NEW p \in Processes, SaveFails(p) PROVE Goal
  <2>1. Quiet
    BY <1>1, <1>10, TwoProcesses DEF Alone, SaveFails, Quiet, At, Saving
  <2> QED
    BY <1>0, <1>1, <1>2, <1>10, <2>1, QuietFile, TwoProcesses
       DEF SaveFails, Serve, NoJob, TypeOK, NothingForgotten, Calm, AsSaid, At,
           Saving
<1>11. ASSUME NEW p \in Processes, SaveFlush(p) PROVE Goal
  <2>1. file' = job[p].kv /\ AsSaid(p, job[p].kv)
    BY <1>0, <1>1, <1>2, <1>11, FlushAlone DEF SaveFlush, At, Saving
  <2>2. \A q \in Processes : q # p => ~Saving(q)
    BY <1>1, <1>11, TwoProcesses DEF Alone, SaveFlush, At, Saving
  <2>3. CASE p = "register"
    BY <1>1, <1>2, <1>11, <2>1, <2>2, <2>3, TwoProcesses
       DEF SaveFlush, Saved, NoJob, TypeOK, NothingForgotten, Calm, AsSaid, At,
           Saving
  <2>4. CASE p = "run"
    BY <1>1, <1>2, <1>11, <2>1, <2>2, <2>4, TwoProcesses
       DEF SaveFlush, Saved, Serve, NoJob, TypeOK, NothingForgotten, Calm,
           AsSaid, At, Saving
  <2> QED
    BY <2>3, <2>4, TwoProcesses
<1>12. ASSUME NEW p \in Processes, SaveFlushDiskFull(p) PROVE FALSE
  BY <1>12 DEF SaveFlushDiskFull
<1>13. ASSUME NEW p \in Processes, Crash(p) PROVE Goal
  <2>1. ~At(p, "flush")
    BY <1>13 DEF Crash
  <2>2. \A q \in Processes : q # p => job'[q] = job[q]
    BY <1>1, <1>13 DEF Crash, TypeOK
  <2>3. job'[p].stage = "idle" /\ file' = file /\ said' = said /\ server' = server
    BY <1>1, <1>13 DEF Crash, TypeOK, NoJob
  <2>4. Quiet' => Quiet
    BY <2>1, <2>2, <2>3 DEF Quiet, At
  <2>5. NothingForgotten'
    BY <1>0, <1>2, <2>3, <2>4, QuietFile DEF NothingForgotten
  <2>6. Calm'
    BY <1>2, <2>2, <2>3, TwoProcesses DEF Calm, AsSaid, At, Saving
  <2> QED
    BY <2>5, <2>6
<1> QED
  BY <1>4, <1>5, <1>6, <1>7, <1>8, <1>9, <1>10, <1>11, <1>12, <1>13 DEF Next

\* A server that starts, or is up, has what was reported as saved: the file that a
\* cut save emptied has no account until one is registered anew.
LEMMA KeptStep == IInv /\ [Next]_vars => (Kept /\ RestartKeepsSecret)'
<1> SUFFICES ASSUME IInv, [Next]_vars, mishaps' \subseteq {"crash"}
             PROVE  (Kept /\ RestartKeepsSecret)'
  BY DEF Kept, RestartKeepsSecret
<1> DEFINE Goal == (Kept /\ RestartKeepsSecret)'
<1>1. TypeOK /\ AtWork /\ Alone
  BY DEF IInv
<1>2. mishaps \subseteq {"crash"} /\ "overlap" \notin mishaps
  BY MishapsGrow
<1>3. /\ Quiet /\ HasAccount => file["db"] = Own /\ file["hmac_secret"] = said.secret
      /\ ~At("run", "idle") => job["run"].db = Own /\ said.secret = 0
      /\ Saving("run") /\ job["run"].kv["addr"] # Absent =>
            /\ job["run"].kv["db"] = Own
            /\ job["run"].kv["hmac_secret"] = job["run"].own["hmac_secret"]
      /\ server.up => server.db = Own /\ (said.secret # 0 => server.secret = said.secret)
  BY <1>2 DEF IInv, Kept, RestartKeepsSecret
<1>4. file["addr"] = file["mail_pw"]
  BY <1>2 DEF IInv, Together
<1>5. CASE Register
  BY <1>1, <1>3, <1>5 DEF Register, NewJob, TypeOK, Processes, Kept, RestartKeepsSecret, HasAccount,
     Quiet, At, Saving
<1>6. CASE RunWithSecret
  <2>1. Quiet
    BY <1>2, <1>6, ReadsQuiet, TwoProcesses DEF RunWithSecret, At, Saving
  <2>2. Get(file, "db", Default) = Own /\ file["hmac_secret"] = said.secret
    BY <1>3, <1>6, <2>1 DEF RunWithSecret, Get, Own, Absent
  <2>3. Kept'
    BY <1>3, <1>6 DEF RunWithSecret, Kept, HasAccount, Quiet, At, Saving
  <2>4. RestartKeepsSecret'
    BY <1>6, <2>2 DEF RunWithSecret, Serve, RestartKeepsSecret
  <2> QED
    BY <2>3, <2>4
<1>7. CASE RunWithoutSecret
  <2>1. Quiet
    BY <1>2, <1>7, ReadsQuiet, TwoProcesses DEF RunWithoutSecret, At, Saving
  <2>2. Get(file, "db", Default) = Own /\ said.secret = 0
    BY <1>3, <1>7, <2>1 DEF RunWithoutSecret, Get, Own, Absent
  <2>3. RestartKeepsSecret'
    BY <1>3, <1>7 DEF RunWithoutSecret, RestartKeepsSecret
  <2>4. Kept'
    BY <1>1, <1>3, <1>7, <2>1, <2>2 DEF RunWithoutSecret, NewJob, TypeOK, Processes, Kept,
       HasAccount, Quiet, At, Saving
  <2> QED
    BY <2>3, <2>4
<1>8. CASE Stop \/ UNCHANGED vars
  BY <1>3, <1>8 DEF Stop, vars, Down, Kept, RestartKeepsSecret, HasAccount, Quiet, At, Saving
<1>9. ASSUME NEW p \in Processes, SaveLoad(p) PROVE Goal
  <2>1. Quiet
    BY <1>2, <1>9, ReadsQuiet DEF SaveLoad, At, Saving
  <2>2. /\ job' = [job EXCEPT ![p] = [stage |-> "open", db |-> job[p].db, own |-> job[p].own,
                                      kv |-> Merge(file, job[p].own)]]
        /\ \A k \in Keys : Merge(file, job[p].own)[k] =
              IF job[p].own[k] # Absent THEN job[p].own[k] ELSE file[k]
        /\ file' = file /\ said' = said /\ server' = server
    BY <1>1, <1>9, Loaded
  <2>3. RestartKeepsSecret'
    BY <1>3, <2>2 DEF RestartKeepsSecret
  <2>4. CASE p = "run"
    <3> DEFINE kv == Merge(file, job["run"].own)
    <3>1. /\ kv["addr"] = file["addr"] /\ kv["db"] = file["db"]
          /\ kv["hmac_secret"] = job["run"].own["hmac_secret"]
      BY <1>1, <1>9, <2>2, <2>4 DEF AtWork, SaveLoad, At, Keys, Absent
    <3>2. kv["addr"] # Absent => kv["db"] = Own
      BY <1>3, <1>4, <2>1, <3>1 DEF HasAccount
    <3> HIDE DEF kv
    <3>3. job' = [job EXCEPT !["run"] = [stage |-> "open", db |-> job["run"].db,
                                         own |-> job["run"].own, kv |-> kv]]
      BY <2>2, <2>4 DEF kv
    <3> QED
      BY <1>1, <1>3, <1>9, <2>1, <2>2, <2>3, <2>4, <3>1, <3>2, <3>3
         DEF SaveLoad, TypeOK, Processes, Kept, HasAccount, Quiet, At, Saving
  <2>5. CASE p = "register"
    BY <1>1, <1>3, <1>9, <2>1, <2>2, <2>3, <2>5
       DEF SaveLoad, TypeOK, Processes, Kept, HasAccount, Quiet, At, Saving
  <2> QED
    BY <2>4, <2>5, TwoProcesses
<1>10. ASSUME NEW p \in Processes, SaveOpen(p) PROVE Goal
  <2>1. job' = [job EXCEPT ![p] = [@ EXCEPT !.stage = "flush"]] /\ said' = said /\ server' = server
    BY <1>10 DEF SaveOpen
  <2>2. ~Quiet'
    BY <1>1, <2>1 DEF TypeOK, Jobs, Quiet, At
  <2>3. \A q \in Processes : /\ job'[q].own = job[q].own /\ job'[q].kv = job[q].kv
                             /\ job'[q].db = job[q].db
                             /\ (At(q, "idle")' <=> At(q, "idle")) /\ (Saving(q)' <=> Saving(q))
    BY <1>1, <1>10, <2>1 DEF TypeOK, Jobs, SaveOpen, At, Saving
  <2> QED
    BY <1>3, <2>1, <2>2, <2>3, TwoProcesses DEF Kept, RestartKeepsSecret
<1>11. ASSUME NEW p \in Processes, SaveFails(p) PROVE Goal
  <2>1. Quiet
    BY <1>1, <1>2, <1>11, TwoProcesses DEF Alone, SaveFails, Quiet, At, Saving
  <2>2. p = "run" => job["run"].db = Own /\ said.secret = 0
    BY <1>3, <1>11 DEF SaveFails, At
  <2>3. RestartKeepsSecret'
    BY <1>3, <1>11, <2>2 DEF SaveFails, Serve, RestartKeepsSecret
  <2>4. Kept'
    BY <1>1, <1>3, <1>11, <2>1, TwoProcesses
       DEF SaveFails, NoJob, TypeOK, Kept, HasAccount, Quiet, At, Saving
  <2> QED
    BY <2>3, <2>4
<1>12. ASSUME NEW p \in Processes, SaveFlush(p) PROVE Goal
  <2>1. file' = job[p].kv
    BY <1>1, <1>2, <1>12, FlushAlone
  <2>2. \A q \in Processes : q # p => ~Saving(q)
    BY <1>1, <1>2, <1>12, TwoProcesses DEF Alone, SaveFlush, At, Saving
  <2>3. Saved(p) /\ Saving(p)
    BY <1>12 DEF SaveFlush, At, Saving
  <2>4. CASE p = "register"
    <3>1. mishaps = {}
      BY <1>2, <1>12, <2>4 DEF SaveFlush
    <3>2. AsSaid(p, job[p].kv)
      BY <2>3, <3>1 DEF IInv, Calm
    <3>3. file'["db"] = Own /\ file'["hmac_secret"] = said.secret
      BY <2>1, <2>4, <3>2 DEF AsSaid
    <3>4. said'.secret = said.secret /\ server' = server
      BY <1>1, <2>3, <2>4 DEF Saved, TypeOK
    <3> QED
      BY <1>1, <1>3, <2>2, <2>3, <2>4, <3>3, <3>4, TwoProcesses
         DEF Saved, NoJob, TypeOK, Kept, RestartKeepsSecret, HasAccount, Quiet, At, Saving
  <2>5. CASE p = "run"
    <3>1. /\ said'.secret = job["run"].own["hmac_secret"] /\ job' = [job EXCEPT !["run"] = NoJob]
          /\ server' = [up |-> TRUE, db |-> job["run"].db, secret |-> job["run"].own["hmac_secret"]]
      BY <1>1, <2>3, <2>5 DEF Saved, Serve, TypeOK
    <3>2. job["run"].db = Own
      BY <1>3, <2>3, <2>5 DEF At, Saving
    <3>3. HasAccount' => file'["db"] = Own /\ file'["hmac_secret"] = said'.secret
      BY <1>3, <2>1, <2>3, <2>5, <3>1 DEF HasAccount
    <3> QED
      BY <1>1, <3>1, <3>2, <3>3 DEF NoJob, TypeOK, Processes, Kept, RestartKeepsSecret, At, Saving
  <2> QED
    BY <2>4, <2>5, TwoProcesses
<1>13. ASSUME NEW p \in Processes, SaveFlushDiskFull(p) PROVE FALSE
  BY <1>13 DEF SaveFlushDiskFull
<1>14. ASSUME NEW p \in Processes, Crash(p) PROVE Goal
  <2>1. \A q \in Processes : q # p => job'[q] = job[q]
    BY <1>1, <1>14 DEF Crash, TypeOK
  <2>2. job'[p].stage = "idle" /\ file' = file /\ said' = said /\ server' = server
    BY <1>1, <1>14 DEF Crash, TypeOK, NoJob
  <2>3. Quiet' /\ HasAccount' => Quiet /\ HasAccount
    <3>1. CASE At(p, "flush")
      <4>1. file = Empty
        BY <1>1, <1>2, <3>1 DEF Alone
      <4> QED
        BY <2>2, <4>1 DEF HasAccount, Empty, Keys
    <3>2. CASE ~At(p, "flush")
      BY <2>1, <2>2, <3>2 DEF Quiet, HasAccount, At
    <3> QED
      BY <3>1, <3>2
  <2>4. RestartKeepsSecret'
    BY <1>3, <2>2 DEF RestartKeepsSecret
  <2>5. Kept'
    BY <1>3, <2>1, <2>2, <2>3, TwoProcesses DEF Kept, At, Saving
  <2> QED
    BY <2>4, <2>5
<1> QED
  BY <1>5, <1>6, <1>7, <1>8, <1>9, <1>10, <1>11, <1>12, <1>13, <1>14 DEF Next

-----------------------------------------------------------------------------

\* Every step keeps the invariant.
THEOREM Invariance == Spec => []IInv
<1>1. IInv /\ [Next]_vars => IInv'
  BY TypeStep, AtWorkStep, AloneStep, TogetherStep, CalmStep, KeptStep DEF IInv
<1> QED
  BY <1>1, InitSafe, PTL DEF Spec

\* Every value read, merged and written is one of a Config (config.cpp:19-59).
THEOREM TypeCorrectness == Spec => []TypeOK
  BY Invariance, PTL DEF IInv

\* Registrations and starts, in any number and order, do not lose what the other
\* wrote nor the operator's settings (main.cpp:93-99), as long as no save is cut
\* short, met by a full disk or joined by another.
THEOREM NothingIsForgotten == Spec => []NothingForgotten
  BY Invariance, PTL DEF IInv

\* A process that ends in the middle of a save leaves the credentials of one
\* account, or none (config.cpp:33-37).
THEOREM CredentialsStayTogether == Spec => []CredentialsTogether
<1>1. IInv => CredentialsTogether
  BY DEF IInv, Together, CredentialsTogether
<1> QED
  BY <1>1, Invariance, PTL

\* Whenever saves are cut short, no server starts with a secret or a database other
\* than those reported as saved before an account is registered anew (main.cpp:101-116,
\* 248-251).
THEOREM SecretIsKept == Spec => []RestartKeepsSecret
  BY Invariance, PTL DEF IInv
=============================================================================
