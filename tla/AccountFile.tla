----------------------------- MODULE AccountFile -----------------------------
(***************************************************************************)
(* The account file: Config (app/config.cpp) and its two writers in        *)
(* main.cpp, --register with the credentials of a new account and --run    *)
(* with the hmac_secret it generates.  The layout is the one of a single   *)
(* file, in which the operator's own settings are at stake as well.        *)
(*                                                                         *)
(* Config::save truncates the file when it opens it; what it writes stays  *)
(* in the buffer of the stream and reaches the file when the stream is     *)
(* closed, after good() was asked.  In between the process may end, the    *)
(* disk may be full, and the other writer may be at work.                  *)
(*                                                                         *)
(* The file is what Config::load makes of it: a value for every key, 0     *)
(* where a key is absent or empty.  Accounts and secrets are numbered in   *)
(* the order they are made.                                                *)
(***************************************************************************)
EXTENDS Integers, Sequences

CONSTANTS
    MaxAccounts,   \* bound on the accounts registered
    MaxSecrets,    \* bound on the secrets generated
    Faults         \* what may go wrong, of {"crash", "disk", "overlap"}

ASSUME AccountFileAssumption ==
    MaxAccounts \in Nat /\ MaxSecrets \in Nat /\ Faults \subseteq {"crash", "disk", "overlap"}

VARIABLES
    file,       \* the account file, as it would be loaded
    job,        \* job[p]: the command p and how far its save is
    server,     \* the running server: up or not, the database and the secret it uses
    made,       \* counters: accounts registered, secrets generated
    said,       \* history: the account and the secret last reported as saved
    mishaps     \* history: what has gone wrong; "anew" that an account was registered
                \* after a save was cut short

vars == <<file, job, server, made, said, mishaps>>

\* std::map writes its keys in this order.
KeyOrder == <<"addr", "db", "hmac_secret", "mail_pw", "port">>
Keys == {"addr", "db", "hmac_secret", "mail_pw", "port"}

Absent == 0
Cut == -1        \* a value the end of which is missing
Own == 1         \* what the operator wrote under db and port
Default == 2     \* "./deltafeedback.db"

Values == {Cut, Absent, Own, Default} \cup 1..MaxAccounts \cup 1..MaxSecrets
Empty == [k \in Keys |-> Absent]
Processes == {"register", "run"}

\* db: the database it read of; own: the keys it sets; kv: what it will write.
NoJob == [stage |-> "idle", db |-> Absent, own |-> Empty, kv |-> Empty]
NewJob(db, own) == [stage |-> "load", db |-> db, own |-> own, kv |-> Empty]
Down == [up |-> FALSE, db |-> Absent, secret |-> Absent]

Jobs == [stage : {"idle", "load", "open", "flush"},
         db : Values, own : [Keys -> Values], kv : [Keys -> Values]]
Servers == [up : {TRUE}, db : Values \ {Absent}, secret : Values \ {Absent}]

TypeOK ==
    /\ file \in [Keys -> Values]
    /\ job \in [Processes -> Jobs]
    /\ server \in {Down} \cup Servers
    /\ made \in [accounts : 0..MaxAccounts, secrets : 0..MaxSecrets]
    /\ said \in [account : 0..MaxAccounts, secret : 0..MaxSecrets]
    /\ mishaps \subseteq Faults \cup {"anew"}

Init ==
    /\ file = [Empty EXCEPT !["db"] = Own, !["port"] = Own]
    /\ job = [p \in Processes |-> NoJob]
    /\ server = Down
    /\ made = [accounts |-> 0, secrets |-> 0]
    /\ said = [account |-> 0, secret |-> 0]
    /\ mishaps = {}

-----------------------------------------------------------------------------
(* Config *)

\* kv_[k] = v for each of the keys set.
Merge(old, new) == [k \in Keys |-> IF new[k] # Absent THEN new[k] ELSE old[k]]

\* Mutant of Get: the fallback is forgotten.
GetOnly(kv, key, fallback) == kv[key]

Get(kv, key, fallback) == IF kv[key] # Absent THEN kv[key] ELSE fallback

Position(key) == CHOOSE i \in DOMAIN KeyOrder : KeyOrder[i] = key

\* The first n lines of a file, the last of them whole or cut short.
FirstLines(kv, n, last) ==
    [k \in Keys |-> IF Position(k) < n THEN kv[k]
                    ELSE IF Position(k) = n /\ kv[k] # Absent THEN last ELSE Absent]

\* What is left of an older content behind the lines written over it: the lines
\* after the n-th, if it is the longer one, with a line the new one does not have.
LastLines(old, new, n) ==
    IF \E k \in Keys : old[k] # Absent /\ new[k] = Absent
    THEN [k \in Keys |-> IF Position(k) > n THEN old[k] ELSE Absent]
    ELSE Empty

At(p, stage) == job[p].stage = stage
Saving(p) == job[p].stage \in {"open", "flush"}
Other(p) == IF p = "run" THEN "register" ELSE "run"

\* A file is read while the other command is between its own load and its
\* last write.
ReadsBeside(p) == Saving(Other(p))
Reads(p) ==
    /\ ReadsBeside(p) => "overlap" \in Faults
    /\ mishaps' = mishaps \cup (IF ReadsBeside(p) THEN {"overlap"} ELSE {})

\* Mutant of Existing: the keys are saved without what was there.
NothingExisting == Empty

\* save_account loads what is there ...
Existing == file

SaveLoad(p) ==
    /\ At(p, "load")
    /\ Reads(p)
    /\ job' = [job EXCEPT ![p] = [stage |-> "open", db |-> @.db, own |-> @.own,
                                  kv |-> Merge(Existing, @.own)]]
    /\ UNCHANGED <<file, server, made, said>>

\* ... opens the file, which empties it ...
SaveOpen(p) ==
    /\ At(p, "open")
    /\ job' = [job EXCEPT ![p] = [@ EXCEPT !.stage = "flush"]]
    /\ file' = Empty
    /\ UNCHANGED <<server, made, said, mishaps>>

\* The server that has a secret now, saved or not.
Serve(db, secret) == server' = [up |-> TRUE, db |-> db, secret |-> secret]

\* ... unless it cannot be opened: --register fails, --run goes on with a secret
\* of its own.
SaveFails(p) ==
    /\ At(p, "open")
    /\ job' = [job EXCEPT ![p] = NoJob]
    /\ \/ p = "register" /\ UNCHANGED server
       \/ p = "run" /\ Serve(job[p].db, job[p].own["hmac_secret"])
    /\ UNCHANGED <<file, made, said, mishaps>>

\* The save has reported success, whatever became of the bytes.
Saved(p) ==
    /\ job' = [job EXCEPT ![p] = NoJob]
    /\ \/ /\ p = "register"
          /\ said' = [said EXCEPT !.account = job[p].own["addr"]]
          /\ UNCHANGED server
       \/ /\ p = "run"
          /\ said' = [said EXCEPT !.secret = job[p].own["hmac_secret"]]
          /\ Serve(job[p].db, job[p].own["hmac_secret"])
    /\ UNCHANGED made

\* ... and writes it from its beginning when the stream is closed.  Something
\* is there only when the other command wrote it meanwhile; if that is longer,
\* the end of it stays.
SaveFlush(p) ==
    /\ At(p, "flush")
    /\ \E n \in 0..Len(KeyOrder) : file' = Merge(job[p].kv, LastLines(file, job[p].kv, n))
    /\ Saved(p)
    /\ mishaps' = IF p = "register" /\ "crash" \in mishaps THEN mishaps \cup {"anew"} ELSE mishaps

\* The disk is full: the first lines get there, the last of them perhaps cut.
SaveFlushDiskFull(p) ==
    /\ "disk" \in Faults
    /\ At(p, "flush")
    /\ \E n \in DOMAIN KeyOrder :
          file' = Merge(FirstLines(job[p].kv, n, Cut), LastLines(file, job[p].kv, n))
    /\ Saved(p)
    /\ mishaps' = mishaps \cup {"disk"}

-----------------------------------------------------------------------------
(* The commands *)

\* Mutant of RegisteredKeys: the password is read before the account is made.
RegisteredKeysOldPassword(n) ==
    [Empty EXCEPT !["addr"] = n, !["mail_pw"] = n - 1, !["db"] = Get(file, "db", Default)]

\* The keys --register saves for the new account n.
RegisteredKeys(n) ==
    [Empty EXCEPT !["addr"] = n, !["mail_pw"] = n, !["db"] = Get(file, "db", Default)]

\* cmd_register: a registration that fails leaves the file alone.
Register ==
    /\ At("register", "idle")
    /\ made.accounts < MaxAccounts
    /\ Reads("register")
    /\ made' = [made EXCEPT !.accounts = @ + 1]
    /\ job' = [job EXCEPT !["register"] = NewJob(Absent, RegisteredKeys(made.accounts + 1))]
    /\ UNCHANGED <<file, server, said>>

\* Mutant of HasAccount: the server starts without credentials as well.
HasAccountOrNot == TRUE

\* What cmd_run asks of the file before it starts.
HasAccount == file["addr"] # Absent /\ file["mail_pw"] # Absent

\* cmd_run, and a secret in the file.
RunWithSecret ==
    /\ At("run", "idle") /\ ~server.up
    /\ HasAccount
    /\ file["hmac_secret"] # Absent
    /\ Reads("run")
    /\ Serve(Get(file, "db", Default), file["hmac_secret"])
    /\ UNCHANGED <<file, job, made, said>>

\* cmd_run and ensure_hmac_secret without one.
RunWithoutSecret ==
    /\ At("run", "idle") /\ ~server.up
    /\ HasAccount
    /\ file["hmac_secret"] = Absent
    /\ made.secrets < MaxSecrets
    /\ Reads("run")
    /\ made' = [made EXCEPT !.secrets = @ + 1]
    /\ job' = [job EXCEPT !["run"] = NewJob(Get(file, "db", Default),
                                            [Empty EXCEPT !["hmac_secret"] = made.secrets + 1])]
    /\ UNCHANGED <<file, server, said>>

\* A command ends at any point of its save, or the server does.
Crash(p) ==
    /\ "crash" \in Faults
    /\ ~At(p, "idle")
    /\ job' = [job EXCEPT ![p] = NoJob]
    /\ mishaps' = IF At(p, "flush") THEN mishaps \cup {"crash"} ELSE mishaps
    /\ UNCHANGED <<file, server, made, said>>

Stop ==
    /\ server.up
    /\ server' = Down
    /\ UNCHANGED <<file, job, made, said, mishaps>>

Next ==
    \/ Register \/ RunWithSecret \/ RunWithoutSecret \/ Stop
    \/ \E p \in Processes : SaveLoad(p) \/ SaveOpen(p) \/ SaveFails(p)
                            \/ SaveFlush(p) \/ SaveFlushDiskFull(p) \/ Crash(p)

Spec == Init /\ [][Next]_vars

-----------------------------------------------------------------------------
(* Properties *)

Quiet == \A p \in Processes : ~At(p, "flush")

\* main.cpp:93-94, "Preserves anything else that's already there": as long as
\* nothing has gone wrong, the operator's own settings, the credentials of the
\* last registration and the secret reported as saved are all in the file,
\* whichever of the two commands wrote it last and however often one of them
\* could not open it.
NothingForgotten ==
    mishaps = {} /\ Quiet =>
        /\ file["db"] = Own /\ file["port"] = Own
        /\ file["addr"] = said.account /\ file["mail_pw"] = said.account
        /\ file["hmac_secret"] = said.secret

\* A process that ends in the middle of a save may lose the credentials, but it
\* does not leave the address of one account with the password of another, nor
\* one without the other.
CredentialsTogether == mishaps \subseteq {"crash", "anew"} => file["addr"] = file["mail_pw"]

\* main.cpp:109-110 and 248-251: a save that was cut short, by whichever command,
\* may have emptied the file of secret and database, yet no server comes up with
\* others: until an account is registered anew, each one signs with the secret
\* last reported as saved and opens the operator's database, or does not start.
RestartKeepsSecret ==
    mishaps \subseteq {"crash"} /\ server.up =>
        server.db = Own /\ (said.secret # 0 => server.secret = said.secret)

\* main.cpp:194-204: an account reported as registered is in the file until
\* another is, or until a save is interrupted.  The full disk refutes it.
RegisteredMeansSaved ==
    mishaps \subseteq {"disk"} /\ Quiet =>
        file["addr"] = said.account /\ file["mail_pw"] = said.account

\* A file saved by two commands at once still holds the credentials of one
\* account.  Refuted by the end of a longer file under a shorter one.
CredentialsTogetherBeside == mishaps \subseteq {"overlap"} => file["addr"] = file["mail_pw"]
=============================================================================
