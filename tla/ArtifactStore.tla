--------------------------- MODULE ArtifactStore ---------------------------
(***************************************************************************)
(* put_bytes of the artifact store, step by step, for writers in several    *)
(* processes over one directory.  A content stands for its bytes and for    *)
(* their SHA-256 digest, which names the file; other names are temporary    *)
(* files of mkstemp.  A process may die at any step and any call may fail;  *)
(* a power loss takes all processes, the bytes no fsync has flushed, and    *)
(* perhaps names, for the directory itself is never flushed.                *)
(***************************************************************************)
CONSTANTS Writers, Contents, None

ASSUME StoreAssumption == None \notin Writers \union Contents

VARIABLES
  dest,                \* per content: "absent", "whole" or "torn" under its name
  dirty,               \* names whose bytes no fsync has flushed
  temps,               \* temporary files <<writer, content>>, or Abandoned ones
  synced,              \* writers that flushed their temporary file
  pc, content,         \* a writer's next step and the content it puts
  outcome,             \* how a writer's last put ended
  acked,               \* history: contents returned by a put since the boot
  crashed              \* history: a process has died

names == <<dest, dirty>>
storeVars == <<names, temps, synced, pc, content, outcome, acked, crashed>>

\* Temporary files whose writer died; nothing tells them apart or removes them.
Abandoned == <<None, None>>

WithTemp == {"write", "sync", "recheck", "replace"}

Init ==
  /\ dest = [c \in Contents |-> "absent"] /\ dirty = {}
  /\ temps = {} /\ synced = {}
  /\ pc = [w \in Writers |-> "idle"] /\ content = [w \in Writers |-> None]
  /\ outcome = [w \in Writers |-> "none"] /\ acked = {} /\ crashed = FALSE

Goto(w, step) == pc' = [pc EXCEPT ![w] = step]

\* Mutant: the temporary file is removed after an error only.
LeaveOnErrorUnlinks(w, how) ==
  /\ Goto(w, "idle") /\ content' = [content EXCEPT ![w] = None]
  /\ temps' = IF how = "raised" THEN {f \in temps : f[1] # w} ELSE temps
  /\ synced' = synced \ {w}
  /\ outcome' = [outcome EXCEPT ![w] = how]
  /\ acked' = IF how = "returned" THEN acked \union {content[w]} ELSE acked
\* The put returns or raises; `finally` unlinks a temporary file not yet renamed.
Leave(w, how) ==
  /\ Goto(w, "idle") /\ content' = [content EXCEPT ![w] = None]
  /\ temps' = {f \in temps : f[1] # w} /\ synced' = synced \ {w}
  /\ outcome' = [outcome EXCEPT ![w] = how]
  /\ acked' = IF how = "returned" THEN acked \union {content[w]} ELSE acked
-----------------------------------------------------------------------------
Put(w, c) ==
  /\ pc[w] = "idle" /\ Goto(w, "lookup")
  /\ content' = [content EXCEPT ![w] = c] /\ outcome' = [outcome EXCEPT ![w] = "none"]
  /\ UNCHANGED <<names, temps, synced, acked, crashed>>

\* dest.exists() and the comparison with what it holds, before and after the
\* temporary file is written.
Check(w, step, next) ==
  /\ pc[w] = step
  /\ \/ /\ dest[content[w]] = "absent" /\ Goto(w, next)
        /\ UNCHANGED <<temps, synced, content, outcome, acked>>
     \/ dest[content[w]] = "whole" /\ Leave(w, "returned")
     \/ dest[content[w]] = "torn" /\ Leave(w, "raised")   \* "artifact hash collision"
  /\ UNCHANGED <<names, crashed>>

Lookup(w) == Check(w, "lookup", "mktemp")
Recheck(w) == Check(w, "recheck", "replace")

MakeTemp(w) ==
  /\ pc[w] = "mktemp" /\ Goto(w, "write")
  /\ temps' = temps \union {<<w, content[w]>>}
  /\ UNCHANGED <<names, synced, content, outcome, acked, crashed>>

Write(w) ==
  /\ pc[w] = "write" /\ Goto(w, "sync")
  /\ UNCHANGED <<names, temps, synced, content, outcome, acked, crashed>>

\* Mutant: flush() without fsync().
SyncFlushOnly(w) ==
  /\ pc[w] = "sync" /\ Goto(w, "recheck")
  /\ UNCHANGED <<names, temps, synced, content, outcome, acked, crashed>>
Sync(w) ==
  /\ pc[w] = "sync" /\ Goto(w, "recheck") /\ synced' = synced \union {w}
  /\ UNCHANGED <<names, temps, content, outcome, acked, crashed>>

\* os.replace: the file takes its name, over whatever another writer put there.
Replace(w) ==
  LET c == content[w]
  IN /\ pc[w] = "replace"
     /\ dest' = [dest EXCEPT ![c] = "whole"]
     /\ dirty' = IF w \in synced THEN dirty \ {c} ELSE dirty \union {c}
     /\ Leave(w, "returned") /\ UNCHANGED crashed

\* Any call of a put may raise OSError.
Fail(w) == pc[w] # "idle" /\ Leave(w, "raised") /\ UNCHANGED <<names, crashed>>

\* A process that dies leaves its temporary file behind.
Crash(w) ==
  /\ Goto(w, "idle") /\ content' = [content EXCEPT ![w] = None]
  /\ temps' = {IF f[1] = w THEN Abandoned ELSE f : f \in temps}
  /\ synced' = synced \ {w} /\ outcome' = [outcome EXCEPT ![w] = "none"]
  /\ crashed' = TRUE /\ UNCHANGED <<names, acked>>

\* Each name may be gone, its file perhaps back under the temporary one; each
\* dirty one may hold anything.
PowerLoss ==
  /\ \E lost \in SUBSET {c \in Contents : dest[c] # "absent"}, torn \in SUBSET dirty :
       /\ dest' = [c \in Contents |-> IF c \in lost THEN "absent"
                                      ELSE IF c \in torn THEN "torn" ELSE dest[c]]
       /\ temps' \in {{}, IF temps = {} /\ lost = {} THEN {} ELSE {Abandoned}}
  /\ dirty' = {} /\ synced' = {} /\ acked' = {} /\ crashed' = TRUE
  /\ pc' = [w \in Writers |-> "idle"] /\ content' = [w \in Writers |-> None]
  /\ outcome' = [w \in Writers |-> "none"]

\* One step of a put under way.
PutStep(w) ==
  Lookup(w) \/ MakeTemp(w) \/ Write(w) \/ Sync(w) \/ Recheck(w) \/ Replace(w) \/ Fail(w)

Next ==
  \/ \E w \in Writers : (\E c \in Contents : Put(w, c)) \/ PutStep(w) \/ Crash(w)
  \/ PowerLoss

Spec == Init /\ [][Next]_storeVars
-----------------------------------------------------------------------------
Promise == INSTANCE ContentStore

(* Writers racing for one content, dying between any two steps and losing   *)
(* power never leave part of a content under its digest, so that no later   *)
(* put of good bytes fails as a "hash collision", and a digest that was     *)
(* returned can be read until the power fails (put_bytes).                  *)
ImplementsContentStore == Promise!Spec

(* A temporary file belongs to a put under way for its content, or to a     *)
(* process that died: no return and no error leaves one behind (finally).   *)
TempsAreOwned ==
  \A f \in temps :
    \/ f = Abandoned /\ crashed
    \/ f[1] \in Writers /\ pc[f[1]] \in WithTemp /\ content[f[1]] = f[2]
=============================================================================
