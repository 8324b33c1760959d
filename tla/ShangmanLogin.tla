----------------------------- MODULE ShangmanLogin -----------------------------
(***************************************************************************)
(* The login of the Shangman ERP, made by calls of the skills' command     *)
(* line.  Each call is a process of its own: one fetches a captcha, a      *)
(* later one submits what was read from it, others look at the login,      *)
(* clear it, or export with it.  What is known between the calls is in the *)
(* files of the account, under a lock of the file system; the desktop      *)
(* changes the settings without it.                                        *)
(*                                                                         *)
(* A captcha is named by the call that prepared it and a token by the call *)
(* that submitted it; either carries the settings its call was started     *)
(* with.  A section under the lock is one step, but where a process that   *)
(* dies in it leaves something half done.                                  *)
(***************************************************************************)
EXTENDS Integers, FiniteSets

CONSTANTS
    Calls,
    KindOf,          \* KindOf[c]: prepare, submit, clear, status, export
    None,            \* nobody
    MaxRevisions,    \* bound: changes of the settings
    MaxFaults        \* bound: calls killed, and requests without an answer

Kinds == {"prepare", "submit", "clear", "status", "export"}

ShangmanLoginAssumption ==
    /\ None \notin Calls
    /\ KindOf \in [Calls -> Kinds]
    /\ MaxRevisions \in Nat /\ MaxFaults \in Nat

VARIABLES
    revision,        \* settings.json, integrations.shangman.revision
    challenges,      \* the challenge-*.json, each paired with
    images,          \* its challenge-*.png
    epoch,           \* epoch.json
    saved,           \* state.json: the submission whose token it holds, or None
    expired,         \* captchas and tokens whose time is over
    lock,            \* auth.lock, where a section is more than a step
    call,            \* call[c]: where it is, its settings, captcha, epoch and token
    posted,          \* posted[c]: login requests that carried the captcha of c
    faults

vars == <<revision, challenges, images, epoch, saved, expired, lock, call, posted, faults>>

Init ==
    /\ revision = 0
    /\ challenges = {} /\ images = {}
    /\ epoch = 0
    /\ saved = None
    /\ expired = {}
    /\ lock = None
    /\ call = [c \in Calls |->
                 [at |-> "new", rev |-> 0, captcha |-> None, epoch |-> 0, token |-> None]]
    /\ posted = [c \in Calls |-> 0]
    /\ faults = 0

At(c, place) == call[c].at = place
To(c, place) == call' = [call EXCEPT ![c].at = place]
Fault == faults < MaxFaults /\ faults' = faults + 1

\* assert_current()
Current(c) == call[c].rev = revision

\* cleanup(): captchas that have expired or are of other settings, and images without one.
Kept(c) == {ch \in challenges : ch \notin expired /\ call[ch].rev = call[c].rev}
Cleanup(c, kept) == challenges' = kept /\ images' = images \cap kept

\* Where a call is about to ask for the lock.
Waiting == {"pair", "consume", "save", "clear", "status", "read", "reject"}

-----------------------------------------------------------------------------
\* A command is started with the settings its host was started with.
Start(c) ==
    /\ At(c, "new")
    /\ \E rev \in 0..revision :
          LET first == CASE KindOf[c] = "prepare" -> "fetch"
                         [] KindOf[c] = "submit" -> "consume"
                         [] KindOf[c] = "export" -> "read"
                         [] OTHER -> KindOf[c]
          IN call' = [call EXCEPT ![c].rev = rev,
                 ![c].at = IF first \in {"fetch", "consume"} /\ rev # revision
                           THEN "done" ELSE first]
    /\ UNCHANGED <<revision, challenges, images, epoch, saved, expired, lock, posted, faults>>

\* The desktop: another account or password.
Configure ==
    /\ revision < MaxRevisions
    /\ revision' = revision + 1
    /\ UNCHANGED <<challenges, images, epoch, saved, expired, lock, call, posted, faults>>

Expires ==
    /\ \E c \in (challenges \cup {saved}) \ (expired \cup {None}) : expired' = expired \cup {c}
    /\ UNCHANGED <<revision, challenges, images, epoch, saved, lock, call, posted, faults>>

\* The lock was not to be had in ten seconds.
TimesOut(c) ==
    /\ call[c].at \in Waiting /\ lock \notin {None, c}
    /\ To(c, "done")
    /\ UNCHANGED <<revision, challenges, images, epoch, saved, expired, lock, posted, faults>>

\* A section that asserts first, in a process with settings of before.
Outdated(c) ==
    /\ call[c].at \in Waiting \ {"status"} /\ lock = None /\ ~Current(c)
    /\ To(c, "done")
    /\ UNCHANGED <<revision, challenges, images, epoch, saved, expired, lock, posted, faults>>

-----------------------------------------------------------------------------
\* captcha(), and then prepare(): the image is written before the file that pairs it.
Captcha(c) ==
    /\ At(c, "fetch")
    /\ To(c, "pair")
    /\ UNCHANGED <<revision, challenges, images, epoch, saved, expired, lock, posted, faults>>

WriteImage(c) ==
    /\ At(c, "pair") /\ lock = None /\ Current(c)
    /\ challenges' = Kept(c)
    /\ images' = (images \cap Kept(c)) \cup {c}
    /\ lock' = c
    /\ To(c, "json")
    /\ UNCHANGED <<revision, epoch, saved, expired, posted, faults>>

WriteChallenge(c) ==
    /\ At(c, "json")
    /\ \/ challenges' = challenges \cup {c} /\ UNCHANGED <<images, faults>>
       \/ Fault /\ images' = images \ {c} /\ UNCHANGED challenges
    /\ lock' = None
    /\ To(c, "done")
    /\ UNCHANGED <<revision, epoch, saved, expired, posted>>

\* consume(): the captcha is deleted before it is looked at, and before any request.
Consume(c) ==
    /\ At(c, "consume") /\ lock = None /\ Current(c)
    /\ \E ch \in {p \in Calls : KindOf[p] = "prepare" /\ At(p, "done")} :
          IF ch \in challenges
          THEN /\ Cleanup(c, Kept(c) \ {ch})
               /\ call' = [call EXCEPT ![c].captcha = ch, ![c].epoch = epoch,
                     ![c].at = IF ch \in Kept(c) THEN "post" ELSE "done"]
          ELSE To(c, "done") /\ UNCHANGED <<challenges, images>>
    /\ UNCHANGED <<revision, epoch, saved, expired, lock, posted, faults>>

\* login(): with a token, or without one: turned down, or no answer.
Post(c) ==
    /\ At(c, "post")
    /\ posted' = [posted EXCEPT ![call[c].captcha] = @ + 1]
    /\ \/ To(c, "save") /\ UNCHANGED faults
       \/ To(c, "done") /\ Fault
    /\ UNCHANGED <<revision, challenges, images, epoch, saved, expired, lock>>

\* Fault: save() does not compare the epoch.
SaveAnyway(c) ==
    /\ At(c, "save") /\ lock = None /\ Current(c)
    /\ saved' = c
    /\ To(c, "done")
    /\ UNCHANGED <<revision, challenges, images, epoch, expired, lock, posted, faults>>

\* save(): not what a clear has overtaken.
Save(c) ==
    /\ At(c, "save") /\ lock = None /\ Current(c)
    /\ saved' = IF call[c].epoch = epoch THEN c ELSE saved
    /\ To(c, "done")
    /\ UNCHANGED <<revision, challenges, images, epoch, expired, lock, posted, faults>>

-----------------------------------------------------------------------------
\* clear(): the epoch first, so that a login under way is not saved, then the files.
NewEpoch(c) ==
    /\ At(c, "clear") /\ lock = None /\ Current(c)
    /\ epoch' = epoch + 1
    /\ lock' = c
    /\ To(c, "wipe")
    /\ UNCHANGED <<revision, challenges, images, saved, expired, posted, faults>>

Wipe(c) ==
    /\ At(c, "wipe")
    /\ saved' = None
    /\ Cleanup(c, {})
    /\ lock' = None
    /\ To(c, "done")
    /\ UNCHANGED <<revision, epoch, expired, posted, faults>>

\* _load(): a token of other settings is removed.
Loaded(c) == IF saved # None /\ call[saved].rev # call[c].rev THEN None ELSE saved

\* status() cleans up before it has asked whether it is current.
Status(c) ==
    /\ At(c, "status") /\ lock = None
    /\ Cleanup(c, Kept(c))
    /\ saved' = IF Current(c) THEN Loaded(c) ELSE saved
    /\ To(c, "done")
    /\ UNCHANGED <<revision, epoch, expired, lock, posted, faults>>

\* read_token()
ReadToken(c) ==
    /\ At(c, "read") /\ lock = None /\ Current(c)
    /\ saved' = Loaded(c)
    /\ IF Loaded(c) \in expired \cup {None} THEN To(c, "done")
       ELSE call' = [call EXCEPT ![c].at = "ask", ![c].token = saved]
    /\ UNCHANGED <<revision, challenges, images, epoch, expired, lock, posted, faults>>

\* The requests of an export, up to the first that answers 401.
Ask(c) ==
    /\ At(c, "ask")
    /\ To(c, "done") \/ To(c, "reject")
    /\ UNCHANGED <<revision, challenges, images, epoch, saved, expired, lock, posted, faults>>

\* invalidate(): only the token that was rejected.
Invalidate(c) ==
    /\ At(c, "reject") /\ lock = None /\ Current(c)
    /\ saved' = IF Loaded(c) = call[c].token THEN None ELSE Loaded(c)
    /\ To(c, "done")
    /\ UNCHANGED <<revision, challenges, images, epoch, expired, lock, posted, faults>>

\* The process is killed, and its lock is free; or a request fails, and the call ends.
Killed(c) ==
    /\ call[c].at \notin {"new", "done", "half"} /\ Fault
    /\ To(c, IF At(c, "wipe") \/ At(c, "json") THEN "half" ELSE "done")
    /\ lock' = IF lock = c THEN None ELSE lock
    /\ UNCHANGED <<revision, challenges, images, epoch, saved, expired, posted>>

Next ==
    \/ Configure \/ Expires
    \/ \E c \in Calls :
          \/ Start(c) \/ TimesOut(c) \/ Outdated(c)
          \/ Captcha(c) \/ WriteImage(c) \/ WriteChallenge(c)
          \/ Consume(c) \/ Post(c) \/ Save(c)
          \/ NewEpoch(c) \/ Wipe(c) \/ Status(c) \/ ReadToken(c) \/ Ask(c) \/ Invalidate(c)
          \/ Killed(c)

Spec == Init /\ [][Next]_vars

-----------------------------------------------------------------------------
TypeOK ==
    /\ revision \in 0..MaxRevisions /\ epoch \in Nat
    /\ challenges \subseteq Calls /\ images \subseteq Calls /\ expired \subseteq Calls
    /\ saved \in Calls \cup {None} /\ lock \in Calls \cup {None}
    /\ \A c \in Calls :
          /\ call[c].at \in Waiting \cup {"new", "fetch", "json", "post", "wipe", "ask", "done",
                                          "half"}
          /\ call[c].rev \in 0..revision /\ call[c].epoch \in 0..epoch
          /\ call[c].captcha \in Calls \cup {None} /\ call[c].token \in Calls \cup {None}

\* A captcha is sent to the platform once, whoever submits it, how often, and whatever
\* became of the answer.
CaptchasArePostedOnce == \A c \in Calls : posted[c] <= 1

\* A login that was under way when the account was cleared does not come back: what is
\* saved is of this epoch, unless a clear is between its two steps or died there.
ClearedStaysCleared ==
    saved # None /\ call[saved].epoch # epoch =>
        \E c \in Calls : KindOf[c] = "clear" /\ call[c].at \in {"wipe", "half"}

\* A captcha that can be submitted can be seen, and an image that cannot be submitted is one
\* whose process is at it, or died.
CaptchasAreSeen ==
    /\ challenges \subseteq images
    /\ \A c \in images \ challenges : call[c].at \in {"json", "half"}

LoginInv == TypeOK /\ CaptchasArePostedOnce /\ ClearedStaysCleared /\ CaptchasAreSeen

\* A login that was saved is given up by a clear, by the rejection of its own token, or to a
\* process with newer settings; a process with older ones never removes it.
NewerLoginsStay ==
    saved # None /\ saved' = None =>
        \E c \in Calls :
           /\ call'[c].at # call[c].at
           /\ \/ At(c, "wipe")
              \/ At(c, "reject") /\ call[c].token = saved
              \/ call[c].rev > call[saved].rev

\* A captcha of the current settings that is not too old is used up by its own submission or
\* by a clear; or by a status of a process with older settings, which cleans up first.
CaptchasAreKept ==
    \A ch \in challenges \ (challenges' \cup expired) :
        call[ch].rev = revision =>
           \E c \in Calls :
              /\ call'[c].at # call[c].at
              /\ \/ At(c, "consume") /\ call'[c].captcha = ch
                 \/ At(c, "wipe")
                 \/ At(c, "status") /\ call[c].rev < revision
=============================================================================
