----------------------------- MODULE FirstStart -----------------------------
(***************************************************************************)
(* What run does before it listens (cmd/gemgate/main.go:71-82, 212-232):   *)
(* without a configuration file it asks for one with the set-up wizard     *)
(* (internal/tui/setup.go), writes it, and loads whatever file there is;   *)
(* then the life of the process begins.  A start that fails leaves the     *)
(* file for the next one, which does not ask again.  Of a field of the     *)
(* wizard only matters whether it is blank, and whether it is special:     *)
(* WriteConfig puts the text between double quotes as it is, so a quote, a *)
(* backslash or a ${NAME} in it is read back as something else.            *)
(***************************************************************************)
EXTENDS Lifecycle, Integers

VARIABLES
  file,     \* the configuration file, as Load reads it
  start,    \* where this start is
  fields,   \* SetupModel.fields: those that are not blank
  special,  \* ... and of these, those with a quote, a backslash or a ${NAME}
  field     \* SetupModel.active

wizard == <<fields, special, field>>
setup == <<file, start, wizard>>
startVars == <<vars, setup>>

Fields == 0..3
APIKey == 0
Token == 1
Listen == 2
ClientName == 3

\* The fields that Load finds a value for, and whether some value may differ from
\* what was typed.  A file that does not parse holds nothing.
Files == [there : BOOLEAN, holds : SUBSET Fields, altered : BOOLEAN]
Missing == [there |-> FALSE, holds |-> {}, altered |-> FALSE]
Garbled == [there |-> TRUE, holds |-> {}, altered |-> TRUE]
AsTyped == [there |-> TRUE, holds |-> Fields, altered |-> FALSE]

\* The wizard ends by Enter, by Escape, or because its program was interrupted.
Ended == {"submitted", "cancelled", "interrupted"}
Starts == {"stat", "asking", "loading", "loaded", "failed"} \union Ended

Prefilled == {Token, Listen, ClientName}

StartInit ==
  /\ Init
  /\ file \in {Missing, AsTyped}
  /\ start = "stat"
  /\ fields = Prefilled /\ special = {}
  /\ field = APIKey

\* The wizard runs if there is no file.
Stat ==
  /\ start = "stat"
  /\ start' = IF file.there THEN "loading" ELSE "asking"
  /\ UNCHANGED <<vars, file, wizard>>

-----------------------------------------------------------------------------
\* The keys of the wizard.
Type ==
  /\ start = "asking"
  /\ fields' = fields \union {field}
  /\ special' \in {special, special \union {field}}
  /\ UNCHANGED <<vars, file, start, field>>

\* Backspace takes the last character: the only one, a special one, or another.
Backspace ==
  /\ start = "asking"
  /\ fields' \in {fields, fields \ {field}}
  /\ special' \in {special \intersect fields', special \ {field}}
  /\ UNCHANGED <<vars, file, start, field>>

Tab ==
  /\ start = "asking" /\ field < ClientName
  /\ field' = field + 1
  /\ UNCHANGED <<vars, file, start, fields, special>>

ShiftTab ==
  /\ start = "asking" /\ field > APIKey
  /\ field' = field - 1
  /\ UNCHANGED <<vars, file, start, fields, special>>

\* Enter goes on from a field that is not blank.
EnterNext ==
  /\ start = "asking" /\ field < ClientName
  /\ field \in fields
  /\ field' = field + 1
  /\ UNCHANGED <<vars, file, start, fields, special>>

\* Mutant of EnterLast: the last field is checked like every other.
EnterLastOnly ==
  /\ start = "asking" /\ field = ClientName
  /\ field \in fields
  /\ start' = "submitted"
  /\ UNCHANGED <<vars, file, wizard>>

\* Tab skips fields unchecked, so the last Enter checks all of them.
EnterLast ==
  /\ start = "asking" /\ field = ClientName
  /\ fields = Fields
  /\ start' = "submitted"
  /\ UNCHANGED <<vars, file, wizard>>

\* Escape; a terminal that fails ends the start likewise.
Cancel ==
  /\ start = "asking"
  /\ start' = "cancelled"
  /\ UNCHANGED <<vars, file, wizard>>

\* RunSetup takes tea.ErrInterrupted for an end like any other.
Interrupt ==
  /\ start = "asking"
  /\ start' = "interrupted"
  /\ UNCHANGED <<vars, file, wizard>>

-----------------------------------------------------------------------------
\* RunSetup returns, and the wizard is gone.
Returns(next) ==
  /\ start' = next
  /\ fields' = Prefilled /\ special' = {} /\ field' = APIKey
  /\ UNCHANGED vars

Cancelled ==
  /\ start = "cancelled"
  /\ UNCHANGED file
  /\ Returns("failed")

\* Result and WriteConfig, and what Load makes of the outcome.  The prefix that
\* AccessToken adds makes any token one that is not blank.  A special field reads as
\* another value, as a blank one (\x20, a variable that is not set), or spoils the file.
Written ==
  LET filled == fields \union {Token}
  IN IF special = {}
     THEN [there : {TRUE}, holds : {filled}, altered : {FALSE}]
     ELSE [there : {TRUE}, holds : {filled \ lost : lost \in SUBSET (special \ {Token})},
           altered : {TRUE}] \union {Garbled}

WriteConfig ==
  /\ start \in {"submitted", "interrupted"}
  /\ file' \in Written
  /\ Returns("loading")

\* The file cannot be created, or only some of it gets written.
WriteFails ==
  /\ start \in {"submitted", "interrupted"}
  /\ \/ file' = Missing
     \/ \E whole \in Written :
          \E part \in SUBSET whole.holds : file' = [whole EXCEPT !.holds = part]
  /\ Returns("failed")

\* An empty server.listen has a default; the key (config.go:444), the client's name and
\* its token have none.
Loads == {APIKey, Token, ClientName} \subseteq file.holds

Load ==
  /\ start = "loading" /\ Loads
  /\ start' = "loaded"
  /\ UNCHANGED <<vars, file, wizard>>

\* A required field is blank, or reading, parsing or building the gateway fails.
LoadFails ==
  /\ start = "loading"
  /\ start' = "failed"
  /\ UNCHANGED <<vars, file, wizard>>

\* The operator starts GemGate again.
StartAgain ==
  /\ start = "failed"
  /\ start' = "stat"
  /\ UNCHANGED <<vars, file, wizard>>

Ask ==
  \/ Type \/ Backspace \/ Tab \/ ShiftTab
  \/ EnterNext \/ EnterLast \/ Cancel \/ Interrupt

Before ==
  \/ Stat \/ Ask \/ Cancelled \/ WriteConfig \/ WriteFails
  \/ Load \/ LoadFails \/ StartAgain

\* A step of the process, once it has a configuration.
Lives(Step) == start = "loaded" /\ Step /\ UNCHANGED setup

StartNext == Before \/ Lives(Next)

\* As FairSpec; nothing is assumed of the operator who answers the wizard.
StartSpec ==
  /\ StartInit /\ [][StartNext]_startVars
  /\ WF_startVars(Lives(Startup))
  /\ WF_startVars(Lives(StopOnSignal \/ StopOnServerError))
  /\ WF_startVars(Lives(Stopping))
  /\ WF_startVars(Lives(Expire))
  /\ \A s \in Servers :
       /\ WF_startVars(Lives(Serve(s)))
       /\ WF_startVars(Lives(stopping[s] /\ ServeReturns(s)))

-----------------------------------------------------------------------------
StartTypeOK ==
  /\ TypeOK
  /\ file \in Files
  /\ start \in Starts
  /\ fields \subseteq Fields /\ special \subseteq fields
  /\ field \in Fields

\* Tab goes past blank fields and fields can be emptied again, but GemGate goes on from
\* what the operator submits only if every field of the form is filled, and then from
\* what they typed (trimmed, and the token with its prefix) unless some field holds a
\* quote, a backslash or a ${NAME}; it saves nothing that they cancel
\* (setup.go:77-155, 228-237, 254-286; main.go:212-223).
SavesWhatWasSubmitted ==
  [][file' # file =>
       /\ start # "cancelled"
       /\ start = "submitted" /\ start' = "loading" =>
            fields = Fields /\ (special = {} => file' = AsTyped)]_startVars
=============================================================================
