--------------------------- MODULE RuntimePolicy ---------------------------
(***************************************************************************)
(* The runtime policy of one worker: a policy file (a ConfigMap volume)    *)
(* that operators replace at will, FileRuntimePolicyProvider, which checks *)
(* it at most every Interval seconds and keeps the last document that      *)
(* passed validation, and decide_policy, which every fetch command asks    *)
(* before its request is built.                                            *)
(*                                                                         *)
(* A check is two calls to the operating system, stat() and read_text():   *)
(* the file may be replaced between them.  One call of current() takes no  *)
(* time on the model's clock.  Checks are spaced by time.time(), a clock   *)
(* that may be set back.                                                   *)
(***************************************************************************)
EXTENDS Integers, Sequences, TLC

CONSTANTS
    Content,        \* what may be on disk, and the settings' own document
    Bootstrap,      \* the document made from the settings
    Form,           \* what kind of file each Content is: see FileForm
    Default,        \* default_policy of each document
    Scopes,         \* scope_policies of each document, a sequence
    Command,        \* fetch commands: their context fields
    Interval,       \* reload_interval_seconds
    MaxWrites,      \* bound: replacements of the file
    MaxBack         \* bound: seconds by which the clock is set back in all

(* "invalid": not JSON, or a field of it is missing, unknown or out of its *)
(* range.  "undecodable": read_text or json.loads raises a ValueError that *)
(* is neither an OSError nor a JSONDecodeError (bytes that are not UTF-8,  *)
(* an integer literal of thousands of digits).                             *)
FileForm == {"absent", "undecodable", "invalid", "document"}

ScopeMatchOrder ==
    <<"policy_scope_id", "politeness_key", "host_id", "site_id", "tier">>
Result == {"bootstrap", "not_modified", "read_error", "validation_error",
           "success"}
Failure == {"read_error", "validation_error"}

ASSUME PolicyAssumption ==
    /\ Bootstrap \in Content
    /\ Form \in [Content -> FileForm]
    /\ Form[Bootstrap] = "document" /\ Scopes[Bootstrap] = <<>>
    /\ \A c \in Content : DOMAIN Scopes[c] = 1..Len(Scopes[c])
    /\ Interval \in Nat \ {0}
    /\ MaxWrites \in Nat
    /\ MaxBack \in Nat

VARIABLES
    content,    \* what is on disk
    mtime,      \* its modification time: the number of replacements
    quiet,      \* seconds since the last replacement, up to LongAgo
    age,        \* time.time() - _last_checked_at, up to LongAgo
    back,       \* seconds the clock has been set back so far
    lag,        \* and since the last check
    doc,        \* _current_document
    lkg,        \* _last_known_good: a set of at most one document
    seenMtime,  \* _last_mtime_ns
    result,     \* _last_result
    call,       \* where current() is: "none", "stat" done, or "returned"
    statMtime,  \* what stat() said, while the file is read
    running     \* the consumption loop has not been ended by an exception

file == <<content, mtime, quiet>>
clock == <<age, back, lag>>
provider == <<doc, lkg, seenMtime, result>>
vars == <<file, clock, provider, call, statMtime, running>>

(* Enough for a check to be due however far the clock is set back.         *)
LongAgo == Interval + MaxBack

Init ==
    /\ content \in Content \ {Bootstrap}
    /\ mtime = 0
    /\ quiet = 0
    /\ age = LongAgo
    /\ back = 0
    /\ lag = 0
    /\ doc = Bootstrap
    /\ lkg = {}
    /\ seenMtime = -1
    /\ result = "bootstrap"
    /\ call = "none"
    /\ statMtime = -1
    /\ running = TRUE

-----------------------------------------------------------------------------
(***************************************************************************)
(* policy_document_from_mapping and decide_policy.                         *)
(***************************************************************************)
SupportedTypes(c) == \A i \in DOMAIN Scopes[c] :
    \E k \in DOMAIN ScopeMatchOrder : ScopeMatchOrder[k] = Scopes[c][i].type

\* Mutant: a scope may occur twice.
AcceptsDuplicates(c) == Form[c] = "document" /\ SupportedTypes(c)

Accepts(c) ==
    /\ Form[c] = "document"
    /\ SupportedTypes(c)
    /\ \A i, j \in DOMAIN Scopes[c] :
         /\ Scopes[c][i].type = Scopes[c][j].type
         /\ Scopes[c][i].id = Scopes[c][j].id
         => i = j

(* Entry i of document c is about command m, at level k of the order. *)
Matches(c, i, m, k) ==
    /\ ScopeMatchOrder[k] = Scopes[c][i].type
    /\ Scopes[c][i].type \in DOMAIN m
    /\ m[Scopes[c][i].type] = Scopes[c][i].id

(* The entry that applies: the first level of the order that has one, and  *)
(* of two entries with one key the later (scope_index is a dict).          *)
Applies(c, i, m) == \E k \in DOMAIN ScopeMatchOrder :
    /\ Matches(c, i, m, k)
    /\ \A j \in DOMAIN Scopes[c], l \in DOMAIN ScopeMatchOrder :
         Matches(c, j, m, l) => k < l \/ (k = l /\ j <= i)

(* An override replaces the fields it has; the others keep the default's. *)
PolicyFor(c, m) ==
    IF \E i \in DOMAIN Scopes[c] : Applies(c, i, m)
      THEN LET i == CHOOSE i \in DOMAIN Scopes[c] : Applies(c, i, m)
           IN  Scopes[c][i].policy @@ Default[c]
      ELSE Default[c]

IsPaused(p) == p.paused \/ ~p.enabled

-----------------------------------------------------------------------------
(***************************************************************************)
(* The world: time, and operators who replace or remove the file.          *)
(***************************************************************************)
Tick ==
    /\ call = "none"
    /\ quiet' = IF quiet < LongAgo THEN quiet + 1 ELSE quiet
    /\ age' = IF age < LongAgo THEN age + 1 ELSE age
    /\ UNCHANGED <<content, mtime, back, lag, provider, call, statMtime,
                   running>>

(* The wall clock is set back by a second, the seconds go on.              *)
SetBack ==
    /\ call = "none"
    /\ back < MaxBack
    /\ back' = back + 1
    /\ lag' = lag + 1
    /\ age' = age - 1
    /\ UNCHANGED <<file, provider, call, statMtime, running>>

ReplaceFile ==
    /\ mtime < MaxWrites
    /\ content' \in Content \ {content, Bootstrap}
    /\ mtime' = mtime + 1
    /\ quiet' = 0
    /\ UNCHANGED <<clock, provider, call, statMtime, running>>

(* A new process has no last-known-good document. *)
Restart ==
    /\ age' = LongAgo
    /\ lag' = 0
    /\ doc' = Bootstrap
    /\ lkg' = {}
    /\ seenMtime' = -1
    /\ result' = "bootstrap"
    /\ call' = "none"
    /\ statMtime' = -1
    /\ running' = TRUE
    /\ UNCHANGED <<file, back>>

-----------------------------------------------------------------------------
(***************************************************************************)
(* FileRuntimePolicyProvider.current.                                      *)
(***************************************************************************)
\* Mutant: the file is checked a second late.
CheckDueLate == age > Interval

CheckDue == age >= Interval

IsLkgActive == lkg # {} /\ result \in Failure

\* Mutant: any failure falls back to the settings.
HandleFailureByBootstrap(r) ==
    /\ result' = r
    /\ doc' = Bootstrap
    /\ call' = "returned"
    /\ UNCHANGED <<lkg, seenMtime>>

(* _handle_failure: the last-known-good document, or the settings'. *)
HandleFailure(r) ==
    /\ result' = r
    /\ doc' = IF lkg # {} THEN CHOOSE d \in lkg : TRUE ELSE Bootstrap
    /\ call' = "returned"
    /\ UNCHANGED <<lkg, seenMtime>>

NotDueYet ==
    /\ running /\ call = "none"
    /\ ~CheckDue
    /\ call' = "returned"
    /\ UNCHANGED <<file, clock, provider, statMtime, running>>

(* stat(): a missing file is an OSError, a known mtime ends the check. *)
StatFile ==
    /\ running /\ call = "none"
    /\ CheckDue
    /\ age' = 0
    /\ lag' = 0
    /\ IF Form[content] = "absent"
         THEN HandleFailure("read_error") /\ UNCHANGED statMtime
         ELSE IF seenMtime = mtime /\ lkg # {}
         THEN /\ result' = "not_modified"
              /\ call' = "returned"
              /\ UNCHANGED <<doc, lkg, seenMtime, statMtime>>
         ELSE /\ call' = "stat"
              /\ statMtime' = mtime
              /\ UNCHANGED provider
    /\ UNCHANGED <<file, back, running>>

\* Mutant: the mtime of a rejected file is remembered as well.
ReadRemembersRejected ==
    /\ call = "stat"
    /\ Form[content] # "undecodable"
    /\ IF Accepts(content)
         THEN /\ doc' = content
              /\ lkg' = {content}
              /\ result' = "success"
         ELSE /\ result' = "validation_error"
              /\ UNCHANGED <<doc, lkg>>
    /\ seenMtime' = statMtime
    /\ call' = "returned"
    /\ statMtime' = -1
    /\ UNCHANGED <<file, clock, running>>

(* read_text(), json.loads and validation. *)
ReadFile ==
    /\ call = "stat"
    /\ Form[content] # "undecodable"
    /\ IF Accepts(content)
         THEN /\ doc' = content
              /\ lkg' = {content}
              /\ seenMtime' = statMtime
              /\ result' = "success"
              /\ call' = "returned"
         ELSE HandleFailure(IF Form[content] = "absent" THEN "read_error"
                            ELSE "validation_error")
    /\ statMtime' = -1
    /\ UNCHANGED <<file, clock, running>>

(* The exception leaves current(), _policy_decision and start(). *)
ReadRaises ==
    /\ call = "stat"
    /\ Form[content] = "undecodable"
    /\ running' = FALSE
    /\ call' = "none"
    /\ UNCHANGED <<file, clock, provider, statMtime>>

(* The document goes to decide_policy; what becomes of the command that    *)
(* asked, and of the loop, is CommandGate's.                               *)
Decide ==
    /\ call = "returned"
    /\ call' = "none"
    /\ UNCHANGED <<file, clock, provider, statMtime>>

World == Tick \/ SetBack \/ ReplaceFile

Current == NotDueYet \/ StatFile \/ ReadFile \/ ReadRaises

Next ==
    \/ World \/ Restart \/ Current
    \/ Decide /\ UNCHANGED running

Spec == Init /\ [][Next]_vars

-----------------------------------------------------------------------------
(***************************************************************************)
(* Properties.                                                             *)
(***************************************************************************)
TypeOK ==
    /\ content \in Content \ {Bootstrap}
    /\ mtime \in 0..MaxWrites
    /\ quiet \in 0..LongAgo
    /\ age \in -MaxBack..LongAgo
    /\ back \in 0..MaxBack
    /\ lag \in 0..back
    /\ doc \in Content
    /\ lkg \in SUBSET Content
    /\ lkg # {} => lkg = {doc}
    /\ seenMtime \in -1..MaxWrites
    /\ result \in Result
    /\ call \in {"none", "stat", "returned"}
    /\ statMtime \in -1..MaxWrites
    /\ running \in BOOLEAN

(* User story 1 of spec 007: once a valid policy has been on disk for the  *)
(* reload interval, every decision is taken from it, whatever failed       *)
(* before and however stat, read and replacement interleaved.  A clock set *)
(* back delays the next check by as much, and by no more.                  *)
DecisionsAreFresh == [][
    /\ Decide
    /\ quiet >= Interval + lag /\ Accepts(content)
    => doc = content]_vars

(* FR-004, FR-018: lkg_active tells the truth.  If the file has not been   *)
(* replaced since before the last check, it is up exactly when the file is *)
(* unusable and an older document is served in its place.                  *)
LkgFlagTruthful ==
    running /\ call # "stat" /\ lkg # {} /\ quiet > age + lag =>
        /\ IsLkgActive <=> ~Accepts(content)
        /\ ~IsLkgActive => doc = content

(* FR-004: a worker that has loaded a policy never falls back to its       *)
(* settings before it restarts, and never trades the policy in force for   *)
(* anything but the file's newer one.                                      *)
LastKnownGoodKept == [][
    lkg # {} /\ doc' # doc => doc' = content \/ (lkg' = {} /\ doc' = Bootstrap)]_vars
=============================================================================
