------------------------------ MODULE Provider ------------------------------
(***************************************************************************)
(* Which Claude an installation talks to.  The choice is kept twice: in    *)
(* the settings document, secrets sealed, and mirrored in plain text into  *)
(* .env, which a run prefers to the document; the environment of the       *)
(* process goes before both.  The settings screen shows what is in force,  *)
(* secrets masked, tests what is on it, and saves it: the document first,  *)
(* the file second.  A sign-in through the browser stores its token in the *)
(* document, and operators edit the file by hand.                          *)
(***************************************************************************)
EXTENDS Naturals, FiniteSets

CONSTANTS
  Modes,    \* the providers looked at
  Looked,   \* the fields looked at; nobody fills in the others
  Values,   \* what a field may be given, positive
  Environs, \* environments the processes may be started with
  Saves,    \* requests that save
  Budget    \* bound: sign-ins, edits by hand, lost keys, failures of the file

None  == 0
Fixed == "fixed"  \* a value the program supplies itself

\* FIELDS, and the variable each field feeds.
FIELDS ==
  [subscription  |-> {"oauthToken"},
   anthropic_api |-> {"apiKey", "baseUrl", "model"},
   bedrock       |-> {"awsRegion", "bedrockApiKey", "model", "smallFastModel"},
   gateway       |-> {"baseUrl", "authToken", "model"},
   ollama        |-> {"baseUrl", "model", "smallFastModel"}]

Variable ==
  [oauthToken |-> "CLAUDE_CODE_OAUTH_TOKEN", apiKey |-> "ANTHROPIC_API_KEY",
   authToken |-> "ANTHROPIC_AUTH_TOKEN", bedrockApiKey |-> "AWS_BEARER_TOKEN_BEDROCK",
   baseUrl |-> "ANTHROPIC_BASE_URL", awsRegion |-> "AWS_REGION",
   model |-> "ANTHROPIC_MODEL", smallFastModel |-> "ANTHROPIC_DEFAULT_HAIKU_MODEL"]

Secrets   == {"oauthToken", "apiKey", "authToken", "bedrockApiKey"}
Filled(m) == FIELDS[m] \cap Looked
Variables == {Variable[f] : f \in Looked}

\* What build_env puts where a mode needs something and nobody gave it.
Default(m, v) ==
  IF \/ m = "ollama" /\ v \in {"ANTHROPIC_AUTH_TOKEN", "ANTHROPIC_API_KEY", "ANTHROPIC_BASE_URL"}
     \/ m = "bedrock" /\ v = "AWS_REGION"
  THEN Fixed ELSE None

VARIABLES
  environ, \* the environment of the processes
  envfile,    \* .env
  row,     \* the settings document: its mode, and a cell for each field
  save,    \* where each save stands, and what it has read
  faults

vars == <<environ, envfile, row, save, faults>>

\* A secret sealed under a key that is gone cannot be read.
Blank == [value |-> None, sealed |-> FALSE]
Cell  == [value : {None} \cup Values, sealed : BOOLEAN]
decrypt(cell) == IF cell.sealed THEN None ELSE cell.value

NoFile == [v \in Variables |-> None]
Unset  == [mode |-> "subscription", cells |-> [f \in Looked |-> Blank]]
NoSave == [at |-> "idle", row |-> Unset, kept |-> {}, alone |-> FALSE, whole |-> FALSE,
           tried |-> NoFile, before |-> NoFile]

Init ==
  /\ environ \in Environs
  /\ envfile = NoFile
  /\ row \in {Unset, [Unset EXCEPT !.mode = "cloudflare"]}
  /\ save = [r \in Saves |-> NoSave]
  /\ faults = Budget

-----------------------------------------------------------------------------
(* What a run is given.                                                    *)

resolve_mode(config) == IF config.mode \in Modes THEN config.mode ELSE "subscription"

First(a, b, c) == IF a # None THEN a ELSE IF b # None THEN b ELSE c

\* The environment of the process, then .env, then the document; the Test
\* button has the last two the other way round.
build_env(config, dotenv, prefer_config) ==
  LET m == resolve_mode(config)
      Feeds(v) == {f \in Filled(m) : Variable[f] = v}
      Chosen(v) == LET f == CHOOSE g \in Feeds(v) : TRUE
                       stored == decrypt(config.cells[f])
                   IN IF prefer_config THEN First(environ[v], stored, dotenv[v])
                      ELSE First(environ[v], dotenv[v], stored)
  IN [v \in Variables |->
        IF Feeds(v) # {} /\ Chosen(v) # None THEN Chosen(v) ELSE Default(m, v)]

Served == build_env(row, envfile, FALSE)

-----------------------------------------------------------------------------
(* The settings screen.                                                    *)

\* A provider that was removed is forgotten with all its fields, by whoever
\* looks first.
Config == IF row.mode = "cloudflare" THEN Unset ELSE row

load_config ==
  /\ row.mode = "cloudflare"
  /\ row' = Config
  /\ UNCHANGED <<environ, envfile, save, faults>>

\* public_config locks what the environment of the process gives.
Unlocked(m) == {f \in Filled(m) : environ[Variable[f]] = None}

\* A field that was not sent keeps what is stored.
Document(config, m, body) ==
  [mode |-> m,
   cells |-> [f \in Looked |-> IF f \in DOMAIN body THEN [Blank EXCEPT !.value = body[f]]
                               ELSE config.cells[f]]]

Saving == {r \in Saves : save[r].at \in {"write", "file"}}

\* Whoever writes is not alone any more, and nobody else is.
Crowded(by) == [r \in Saves |-> IF r \in by THEN save[r] ELSE [save[r] EXCEPT !.alone = FALSE]]

\* save_claude_settings reads what is stored.  body holds what the form sends:
\* neither masks, which say nothing, nor what was cleared.  (The Test button,
\* pressed now, would build tried.)
Reads(r, m, body) ==
  LET document == Document(Config, m, body)
  IN /\ save[r].at = "idle"
     /\ row' = Config
     /\ save' = [Crowded({}) EXCEPT ![r] =
          [at |-> "write", row |-> document, alone |-> Saving = {},
           kept |-> IF m = Config.mode THEN (Unlocked(m) \cap Secrets) \ DOMAIN body ELSE {},
           tried |-> build_env(document, envfile, TRUE),
           before |-> build_env(Config, envfile, FALSE),
           whole |-> \A f \in Filled(m) \ DOMAIN body :
                       decrypt(document.cells[f]) # None \/ envfile[Variable[f]] = None]]
     /\ UNCHANGED <<environ, envfile, faults>>

\* Only the fields of the mode are set.
WritesRow(r) ==
  /\ save[r].at = "write"
  /\ row' = [mode |-> save[r].row.mode,
             cells |-> [f \in Looked |-> IF f \in FIELDS[save[r].row.mode]
                                         THEN save[r].row.cells[f] ELSE row.cells[f]]]
  /\ save' = [Crowded({r}) EXCEPT ![r].at = "file"]
  /\ UNCHANGED <<environ, envfile, faults>>

\* Mutant: one variable is missing from the list of those it may write.
Unlisted(document) ==
  [v \in Variables |->
     LET fed == {f \in Filled(document.mode) : Variable[f] = v /\ decrypt(document.cells[f]) # None}
     IN IF v = "CLAUDE_CODE_OAUTH_TOKEN" THEN envfile[v]
        ELSE IF fed = {} THEN None ELSE document.cells[CHOOSE f \in fed : TRUE].value]

\* Every variable the screen may write is written, or removed.
persist_env_file(document) ==
  [v \in Variables |->
     LET fed == {f \in Filled(document.mode) : Variable[f] = v /\ decrypt(document.cells[f]) # None}
     IN IF fed = {} THEN None ELSE document.cells[CHOOSE f \in fed : TRUE].value]

WritesFile(r) ==
  /\ save[r].at = "file"
  /\ envfile' = persist_env_file(save[r].row)
  /\ save' = [Crowded({r}) EXCEPT ![r] = [NoSave EXCEPT !.at = "saved"]]
  /\ UNCHANGED <<environ, row, faults>>

-----------------------------------------------------------------------------
(* Around it.                                                              *)

Spend(kind) == faults[kind] > 0 /\ faults' = [faults EXCEPT ![kind] = @ - 1]

\* The process dies with the document written, or the file cannot be.
FileFails(r) ==
  /\ save[r].at = "file"
  /\ Spend("failure")
  /\ save' = [save EXCEPT ![r] = [NoSave EXCEPT !.at = "failed"]]
  /\ UNCHANGED <<environ, envfile, row>>

\* oauth_code stores the token, in the document only.
oauth_code(token) ==
  /\ {"oauthToken"} \subseteq Looked
  /\ Spend("sign-in")
  /\ row' = [mode |-> "subscription",
             cells |-> [row.cells EXCEPT !["oauthToken"] = [Blank EXCEPT !.value = token]]]
  /\ save' = Crowded({})
  /\ UNCHANGED <<environ, envfile>>

EditsFile(v, value) ==
  /\ envfile[v] # value
  /\ Spend("by hand")
  /\ envfile' = [envfile EXCEPT ![v] = value]
  /\ save' = Crowded({})
  /\ UNCHANGED <<environ, row>>

\* APP_SECRET_KEY is changed.
LosesKey ==
  /\ Spend("key")
  /\ row' = [row EXCEPT !.cells = [f \in Looked |->
       [row.cells[f] EXCEPT !.sealed = @ \/ (f \in Secrets /\ row.cells[f].value # None)]]]
  /\ save' = Crowded({})
  /\ UNCHANGED <<environ, envfile>>

Next ==
  \/ \E r \in Saves :
       \/ \E m \in Modes : \E sent \in SUBSET Unlocked(m) : \E body \in [sent -> Values] :
            Reads(r, m, body)
       \/ WritesRow(r) \/ WritesFile(r) \/ FileFails(r)
  \/ load_config
  \/ \E token \in Values : oauth_code(token)
  \/ \E v \in Variables, value \in {None} \cup Values : EditsFile(v, value)
  \/ LosesKey

Spec == Init /\ [][Next]_vars

-----------------------------------------------------------------------------
(* Properties.                                                             *)

ProviderTypeOK ==
  /\ environ \in [Variables -> {None} \cup Values]
  /\ envfile \in [Variables -> {None} \cup Values]
  /\ row.mode \in Modes \cup {"cloudflare"} /\ row.cells \in [Looked -> Cell]
  /\ \A r \in Saves : /\ save[r].at \in {"idle", "write", "file", "saved", "failed"}
                      /\ save[r].row.cells \in [Looked -> Cell]

Done(r) == save[r].at = "file" /\ save'[r].at = "saved" /\ save[r].alone

\* "Tests what was typed rather than what was saved, so a wrong key is caught
\* before it becomes the configuration every job uses": once a save nobody
\* interfered with is through, a run is given what the Test button would have
\* tried, whatever the file and the document held before - left there by a save
\* that died half way, by another provider, by hand, or by a sign-in.  Except
\* where a field was left alone that only the file had (TestClaudeSettings.py,
\* ClaudeSettings.py:61-91, provider.py:315-419, 474-493).
SavedAsTested  == \A r \in Saves : Done(r) /\ save[r].whole => Served' = save[r].tried
TestedIsServed == [][SavedAsTested]_vars

\* "The screen sent its own mask back, which means leave this alone": saving the
\* provider that is in use with its credential untouched leaves runs with the
\* credential they had (ClaudeSettings.py:73-78).
MaskLeavesAlone ==
  [][\A r \in Saves :
       Done(r) => \A f \in save[r].kept :
                    Served'[Variable[f]] = save[r].before[Variable[f]]]_vars
=============================================================================
