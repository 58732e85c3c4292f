------------------------------ MODULE ApnsPush ------------------------------
(***************************************************************************)
(* Pushes to the app.  A push takes a copy of the registered device tokens *)
(* and sends to each of them in an executor thread; a token that Apple no  *)
(* longer knows is pruned afterwards, by a callback on the event loop.     *)
(* Registrations, removals and further pushes come in between, and an app  *)
(* may come back under the token it had.  The registry and the sender's    *)
(* settings are one file, rewritten in place on every change; a write that *)
(* fails is swallowed, and leaves the old file or one that cannot be read. *)
(***************************************************************************)
EXTENDS Integers, SequencesExt

CONSTANTS
  Tokens,     \* the device tokens of the apps
  MaxTokens,  \* MAX_TOKENS
  Batches     \* bound: the pushes that run at a time

ApnsPushConstants == MaxTokens \in Nat \ {0}

VARIABLES
  registry,   \* _push_cfg["tokens"], newest last
  sender,     \* there is one: _push_cfg is enabled, with credentials
  pushFile,   \* push.json, as _load_push_file would read it
  installed,  \* the tokens that Apple knows
  batch,      \* of each push: what it has still to send to, and what is dead
  prunes,     \* the callbacks that will remove a token
  wanted,     \* history: registered and neither removed by the user, nor pushed
              \* out by newer ones, nor lost with a write or a read that failed
  returned,   \* history: last registered while a prune of it was under way
  unsaved     \* history: the last write or read of the file failed

registryVars == <<registry, sender, pushFile, unsaved>>
apnsPushVars == <<registryVars, installed, batch, prunes, wanted, returned>>

NoBatch == [runs |-> FALSE, left |-> <<>>, dead |-> {}]

TypeOK ==
  /\ registry \in Seq(Tokens)
  /\ Len(registry) <= MaxTokens /\ IsInjective(registry)
  /\ sender \in BOOLEAN
  /\ pushFile \in [tokens : Seq(Tokens), on : BOOLEAN]
  /\ Len(pushFile.tokens) <= MaxTokens /\ IsInjective(pushFile.tokens)
  /\ installed \subseteq Tokens
  /\ batch \in [Batches -> [runs : BOOLEAN, left : Seq(Tokens), dead : SUBSET Tokens]]
  /\ prunes \subseteq Tokens
  /\ wanted \subseteq Tokens
  /\ returned \subseteq Tokens
  /\ unsaved \in BOOLEAN

\* no file, or one that cannot be read: default_config
NoFile == [tokens |-> <<>>, on |-> FALSE]

Init ==
  /\ registry = <<>>
  /\ sender = FALSE
  /\ pushFile = NoFile
  /\ installed = {}
  /\ batch = [b \in Batches |-> NoBatch]
  /\ prunes = {}
  /\ wanted = {}
  /\ returned = {}
  /\ unsaved = FALSE

-----------------------------------------------------------------------------
(* The event loop.                                                         *)

\* a token is in it once at most
Without(t) ==
  IF t \notin ToSet(registry) THEN registry
  ELSE RemoveAt(registry, CHOOSE i \in DOMAIN registry : registry[i] = t)

\* to the end, and the oldest past the cap go
Registered(t) ==
  LET all == Append(Without(t), t)
  IN  IF Len(all) > MaxTokens THEN Tail(all) ELSE all

\* _save_push_file: open truncates what was there, and an error is swallowed.
Save(tokens, on) ==
  \/ pushFile' = [tokens |-> tokens, on |-> on] /\ unsaved' = FALSE
  \/ pushFile' \in {pushFile, NoFile} /\ unsaved' = TRUE

\* A push or a callback holds the token for dead.
Condemned(t) == t \in prunes \/ \E b \in Batches : t \in batch[b].dead

\* register_push_token, by the app, which runs on a device with that token
Register(t) ==
  /\ registry' = Registered(t)
  /\ Save(registry', sender)
  /\ installed' = installed \cup {t}
  /\ wanted' = (wanted \cup {t}) \ (ToSet(registry) \ ToSet(Registered(t)))
  /\ returned' = IF Condemned(t) THEN returned \cup {t} ELSE returned \ {t}
  /\ UNCHANGED <<sender, batch, prunes>>

\* remove_push_token, asked for by the user
RemoveToken(t) ==
  /\ registry' = Without(t)
  /\ Save(registry', sender)
  /\ wanted' = wanted \ {t}
  /\ UNCHANGED <<sender, installed, batch, prunes, returned>>

\* remove_push_token, asked for by a push that found the token dead
Prune(t) ==
  /\ t \in prunes
  /\ prunes' = prunes \ {t}
  /\ registry' = Without(t)
  /\ Save(registry', sender)
  /\ UNCHANGED <<sender, installed, batch, wanted, returned>>

\* save_push_config: a running push keeps the sender it has
Configure ==
  /\ sender' = ~sender
  /\ Save(registry, sender')
  /\ UNCHANGED <<registry, installed, batch, prunes, wanted, returned>>

\* _push_apns
Push(b) ==
  /\ sender
  /\ registry # <<>>
  /\ ~batch[b].runs
  /\ batch' = [batch EXCEPT ![b] = [runs |-> TRUE, left |-> registry, dead |-> {}]]
  /\ UNCHANGED <<registryVars, installed, prunes, wanted, returned>>

-----------------------------------------------------------------------------
(* The executor.                                                           *)

\* Variant: whatever could not be sent to is dead
Failed(t, answered) == ~answered \/ t \notin installed

\* 410 says so; no answer says nothing.
Unregistered(t, answered) == answered /\ t \notin installed

\* ApnsSender.send to the next token
Send(b, answered) ==
  /\ batch[b].left # <<>>
  /\ LET t == Head(batch[b].left)
     IN  batch' = [batch EXCEPT
                     ![b].left = Tail(@),
                     ![b].dead = IF Unregistered(t, answered) THEN @ \cup {t} ELSE @]
  /\ UNCHANGED <<registryVars, installed, prunes, wanted, returned>>

\* The key file cannot be read, or signed with: the whole push is over, and
\* nothing is pruned.
SigningFails(b) ==
  /\ batch[b].left # <<>>
  /\ batch' = [batch EXCEPT ![b] = NoBatch]
  /\ UNCHANGED <<registryVars, installed, prunes, wanted, returned>>

\* all were tried: call_soon_threadsafe for the dead ones
BatchEnds(b) ==
  /\ batch[b].runs
  /\ batch[b].left = <<>>
  /\ prunes' = prunes \cup batch[b].dead
  /\ batch' = [batch EXCEPT ![b] = NoBatch]
  /\ UNCHANGED <<registryVars, installed, wanted, returned>>

-----------------------------------------------------------------------------

\* The app is deleted from a device.
Uninstall(t) ==
  /\ t \in installed
  /\ installed' = installed \ {t}
  /\ UNCHANGED <<registryVars, batch, prunes, wanted, returned>>

\* The daemon restarts with what _load_push_file reads; a read that fails is
\* swallowed too.
Restart ==
  /\ \E reads \in BOOLEAN :
       LET loaded == IF reads THEN pushFile ELSE NoFile
       IN  /\ registry' = loaded.tokens
           /\ sender' = loaded.on
           /\ wanted' = IF reads /\ ~unsaved THEN wanted
                        ELSE wanted \cap ToSet(loaded.tokens)
           /\ unsaved' = ~reads
  /\ batch' = [b \in Batches |-> NoBatch]
  /\ prunes' = {}
  /\ UNCHANGED <<pushFile, installed, returned>>

Next ==
  \/ \E t \in Tokens : Register(t) \/ RemoveToken(t) \/ Prune(t) \/ Uninstall(t)
  \/ \E b \in Batches : \/ Push(b) \/ SigningFails(b) \/ BatchEnds(b)
                        \/ \E answered \in BOOLEAN : Send(b, answered)
  \/ Configure
  \/ Restart

Spec == Init /\ [][Next]_apnsPushVars

-----------------------------------------------------------------------------
(* Properties.                                                             *)

\* "Prunes tokens APNs reports as 410 Unregistered" and no others: a device that
\* registered, has the app and was not pushed out is reached by the next push,
\* whatever the network did to the pushes before, whatever came between their
\* steps, and over restarts.  Excepted are a device that came back while a push
\* held it for dead, and what a failing write or read of the file has lost.
ReachableIsKept == (wanted \cap installed) \ returned \subseteq ToSet(registry)

\* An app instance that "registers (or refreshes)" its token has it registered,
\* if it came back while a push held it for dead too.  The code prunes it: the
\* callback does not ask when the token was registered.
ReturningIsKept == wanted \cap installed \subseteq ToSet(registry)

-----------------------------------------------------------------------------
(* What the properties rest on.                                            *)

\* What is held for dead is not installed, unless it came back since.
DeadAreGone ==
  /\ prunes \cap installed \subseteq returned
  /\ \A b \in Batches : batch[b].dead \cap installed \subseteq returned

\* Unless the last write or read failed, the file has what the daemon has.
FileIsCurrent == unsaved \/ pushFile = [tokens |-> registry, on |-> sender]

=============================================================================
