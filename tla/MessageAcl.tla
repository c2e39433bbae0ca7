------------------------------ MODULE MessageAcl ------------------------------
(***************************************************************************)
(* The message ACL file (class MessageAcl of atalk/server.py): a cache of  *)
(* a file that the operator replaces, rewrites in place or removes while   *)
(* requests are checked against it.                                        *)
(*                                                                         *)
(* A check holds the lock from the stat to the look-up, so there is one at *)
(* a time; the file changes at any moment, also between stat and open.  Of *)
(* the map only its verdict on the pair that is checked matters.           *)
(***************************************************************************)
EXTENDS Integers

CONSTANTS
    Mtimes    \* modification times, as numbers

ASSUME MtimesAssumption == Mtimes \subseteq Nat

\* What the file says of the pair: it is allowed, it is not, or it does not parse.
Contents == {"allows", "forbids", "garbage"}
Absent == [mtime |-> -1, content |-> "absent"]
AclFile == [mtime : Mtimes, content : Contents] \cup {Absent}

VARIABLES
    aclFile,    \* the file
    mtime,      \* _mtime of the cache, -1 for None
    cached,     \* what _restricted says of the pair
    broken,     \* _broken
    check,      \* the check that runs
    during,     \* history: the contents the file has had during that check
    returned    \* history: a file has come under the time the cache goes by

aclCache == <<mtime, cached, broken>>
aclVars == <<aclFile, mtime, cached, broken, check, during, returned>>

NoCheck == [pc |-> "idle"]
Checks == [pc : {"refresh"}] \cup [pc : {"read"}, seen : Mtimes]
          \cup [pc : {"done"}, verdict : {"allow", "deny"}, hit : BOOLEAN]

-----------------------------------------------------------------------------
(* The operator *)

Becomes(file) ==
    /\ aclFile' = file
    /\ during' = during \cup {file.content}
    /\ returned' = (returned \/ (file # Absent /\ file.mtime = mtime))
    /\ UNCHANGED <<mtime, cached, broken, check>>

\* A file is moved into place or rewritten there.  Its time may be any: later than the
\* last one, earlier, the same (a rewrite within one tick of the clock), or one that was
\* there before (a backup moved back).
ReplaceFile(t, content) ==
    Becomes([mtime |-> t, content |-> content])

RemoveFile ==
    /\ aclFile # Absent
    /\ Becomes(Absent)

-----------------------------------------------------------------------------
(* MessageAcl.check *)

CheckStarts ==
    /\ check = NoCheck
    /\ check' = [pc |-> "refresh"]
    /\ during' = {aclFile.content}
    /\ UNCHANGED <<aclFile, aclCache, returned>>

Verdict(b, c) == IF b \/ c = "forbids" THEN "deny" ELSE "allow"

\* The look-up and the lock's release; the verdict is from the values looked up.  "hit":
\* they were in the cache.
Answer(c, b, hit) == check' = [pc |-> "done", verdict |-> Verdict(b, c), hit |-> hit]

\* The cache is set to what was found, and looked up.
Conclude(m, c, b) ==
    /\ mtime' = m /\ cached' = c /\ broken' = b
    /\ returned' = FALSE
    /\ Answer(c, b, FALSE)

\* Mutant of Fresh: only a newer file is read.
FreshUnlessNewer(t) == t <= mtime /\ ~broken

\* The cache holds this version of the file.
Fresh(t) == t = mtime /\ ~broken

\* _refresh up to the stat: no file means no restrictions.
StatFile ==
    /\ check.pc = "refresh"
    /\ IF aclFile = Absent THEN Conclude(-1, "allows", FALSE)
       ELSE /\ IF Fresh(aclFile.mtime)
                 THEN Answer(cached, broken, TRUE)
                 ELSE check' = [pc |-> "read", seen |-> aclFile.mtime]
            /\ UNCHANGED <<aclCache, returned>>
    /\ UNCHANGED <<aclFile, during>>

\* The file is opened, read and parsed; by now it may be another one, or gone.  What was
\* read is kept under the time of the stat.
ReadFile ==
    /\ check.pc = "read"
    /\ IF aclFile.content \in {"garbage", "absent"}
         THEN /\ broken' = TRUE
              /\ Answer(cached, TRUE, FALSE)
              /\ UNCHANGED <<mtime, cached, returned>>
         ELSE Conclude(check.seen, aclFile.content, FALSE)
    /\ UNCHANGED <<aclFile, during>>

CheckReturns ==
    /\ check.pc = "done"
    /\ check' = NoCheck /\ during' = {}
    /\ UNCHANGED <<aclFile, aclCache, returned>>

AclInit ==
    /\ aclFile = Absent /\ returned = FALSE
    /\ mtime = -1 /\ cached = "allows" /\ broken = FALSE
    /\ check = NoCheck /\ during = {}

AclNext ==
    \/ \E t \in Mtimes, c \in Contents : ReplaceFile(t, c)
    \/ RemoveFile
    \/ CheckStarts \/ StatFile \/ ReadFile \/ CheckReturns

AclSpec == AclInit /\ [][AclNext]_aclVars

-----------------------------------------------------------------------------
(* Properties *)

\* Every variable has its type.
AclTypeOK ==
    /\ aclFile \in AclFile /\ returned \in BOOLEAN
    /\ mtime \in Mtimes \cup {-1} /\ cached \in {"allows", "forbids"} /\ broken \in BOOLEAN
    /\ check \in Checks \cup {NoCheck}
    /\ during \subseteq Contents \cup {"absent"}

\* What a verdict should rest on: a message passes only if the file, at some moment of
\* the check, allowed it or was not there; it is stopped only if the file, at some moment
\* of the check, forbade it or did not parse, or was exchanged under the check.
RestsOnFile(verdict) ==
    IF verdict = "allow"
      THEN during \cap {"allows", "absent"} # {}
      ELSE during \notin {{"allows"}, {"absent"}}

\* The verdict of a check rests on the file, also when the file is exchanged between the
\* stat and the open, so that the cache pairs one file's time with another's contents.
\* The exception, in which the class does not keep its promise to fail closed: the verdict
\* comes from the cache, and since the cache was filled a file has come into place under
\* the very time the cache goes by.
VerdictCurrent ==
    check.pc = "done" /\ ~(check.hit /\ returned) => RestsOnFile(check.verdict)

\* The cache is typed and its verdicts are those of the file.
AclFileSound == AclTypeOK /\ VerdictCurrent
=============================================================================
