---------------------------- MODULE CoreActions ----------------------------
(***************************************************************************)
(* The core actions of a run that load skills and capabilities             *)
(* (ReActExecutor._execute_core_action, src/agent_core/react.py), and the  *)
(* skills context of its session with the windows a file is read through   *)
(* (src/agent_core/skills.py).                                             *)
(*                                                                         *)
(* The runs of a session share one context; each executor has its own      *)
(* memory of loaded capabilities.  A file is the sequence of the widths of *)
(* its lines.  None of these actions suspends, so each is one step; what a *)
(* load_capability of an MCP server refreshes first is module McpCenter's. *)
(***************************************************************************)
EXTENDS Integers, Sequences, FiniteSets, SequencesExt, FiniteSetsExt, Lists

CONSTANTS
  Readers,       \* executors of one session
  Skills,        \* skill names a host may register
  Found,         \* what discover finds for a query, in order: [kind, name]
  FileTexts,     \* what the one resource of each skill may hold
  Offsets,       \* offsets an agent asks for
  FrameBytes,    \* header, footer and the line break between them
  PrefixBytes,   \* "n | " of a numbered line
  MaxBytes,      \* VIEW_WINDOW_MAX_BYTES
  MaxRemembered, \* 24 in _remember_loaded_capability
  MaxCoreSteps   \* bound of the model: core actions and writes of files

DotsBytes == 4

\* The skill of a reader that has none, and the kind that is not given.
NoName == ""

CoreAssumption ==
  /\ FrameBytes \in Nat /\ PrefixBytes \in Nat /\ MaxBytes \in Nat
  /\ MaxRemembered \in Nat \ {0} /\ MaxCoreSteps \in Nat
  /\ FileTexts \subseteq Seq(Nat) /\ Offsets \subseteq Int
ASSUME CoreAssumption

VARIABLES
  registered, \* SkillRegistry._skills: names
  files,      \* the resource of each skill, as it is on disk
  loaded,     \* SkillsContext._loaded
  views,      \* SkillsContext._views: per skill no or one window, [content, offset]
  remembered, \* _loaded_capabilities of each executor: [kind, name] in the order of the dict
  reader,     \* history: what each agent was shown of the file it reads on and on
  coreSteps

coreVars == <<registered, files, loaded, views, remembered, reader, coreSteps>>

Unread == [skill |-> NoName, seen |-> {}, next |-> 1, told |-> FALSE, shown |-> 0, width |-> 0, of |-> 0]

CoreInit ==
  /\ registered = {}
  /\ files \in [Skills -> FileTexts]
  /\ loaded = {}
  /\ views = [s \in Skills |-> {}]
  /\ remembered = [e \in Readers |-> << >>]
  /\ reader = [e \in Readers |-> Unread]
  /\ coreSteps = 0

CountCoreStep == coreSteps < MaxCoreSteps /\ coreSteps' = coreSteps + 1

-----------------------------------------------------------------------------
(* Windows.                                                                 *)

\* set_offset
Clamped(offset, content) ==
  LET total == Max({1, Len(content)}) IN Min({Max({1, offset}), total})

\* Lines, with something beside each.
BytesFrom(content, from, to, each) ==
  Summed(SubSeq(content, from, to)) + (to + 1 - from) * each

\* A file that fits is shown from its first line as it is.
Plain(window) ==
  /\ window.offset = 1
  /\ FrameBytes + BytesFrom(window.content, 1, Len(window.content), 1) <= MaxBytes

\* Numbered lines from the offset on, as long as dots may follow.
LinesShown(window) ==
  IF Plain(window) THEN Len(window.content)
  ELSE LET dots == IF window.offset > 1 THEN 2 * DotsBytes ELSE DotsBytes
           fits(k) == FrameBytes + dots + BytesFrom(window.content, window.offset,
                                            window.offset + k - 1, PrefixBytes + 1) <= MaxBytes
       IN Max({0} \cup {k \in 1 .. (Len(window.content) - window.offset + 1) : fits(k)})

\* A window that says it is truncated where the count of its rendered lines, the dots
\* before them included, falls short.
TruncatedByCount(window) ==
  LET before == IF window.offset > 1 THEN 1 ELSE 0
  IN ~Plain(window) /\ window.offset - 1 + LinesShown(window) + before < Len(window.content)

\* render: the loop broke off, or the count falls short.
Truncated(window) ==
  ~Plain(window) /\ window.offset + LinesShown(window) - 1 < Len(window.content)

-----------------------------------------------------------------------------
(* Core actions.                                                            *)

\* SkillRegistry.register raises for a name it has.
RegisterSkill(skill) ==
  /\ skill \notin registered
  /\ registered' = registered \cup {skill}
  /\ UNCHANGED <<files, loaded, views, remembered, reader, coreSteps>>

\* A file changes on disk; windows keep the content they were made of.
WriteFile(skill, text) ==
  /\ CountCoreStep /\ text # files[skill]
  /\ files' = [files EXCEPT ![skill] = text]
  /\ UNCHANGED <<registered, loaded, views, remembered, reader>>

UnloadSkill(skill) ==
  /\ skill \in loaded
  /\ loaded' = loaded \ {skill}
  /\ UNCHANGED <<registered, files, views, remembered, reader, coreSteps>>

\* load_skill; an unknown name is answered as a failure.
LoadSkill(skill) ==
  /\ skill \in registered /\ CountCoreStep
  /\ loaded' = loaded \cup {skill}
  /\ UNCHANGED <<registered, files, views, remembered, reader>>

\* A dict keeps the place of a name it has; the oldest names go.
Kept(s) == IF Len(s) <= MaxRemembered THEN s ELSE SubSeq(s, Len(s) - MaxRemembered + 1, Len(s))
Remembered(s, match) ==
  IF \E i \in DOMAIN s : s[i].name = match.name
  THEN [i \in DOMAIN s |-> IF s[i].name = match.name THEN match ELSE s[i]]
  ELSE Kept(Append(s, match))

\* What discover finds now: skills only if they are registered.
Discovered(query) ==
  SelectSeq(Found[query], LAMBDA m : m.kind = "skill" => m.name \in registered)
Exact(query, kind) ==
  SelectSeq(Discovered(query), LAMBDA m : m.name = query /\ (kind # NoName => m.kind = kind))

\* load_capability: the exact match, else the best one; nothing found is a failure.
LoadCapability(e, query, kind) ==
  /\ Discovered(query) # << >> /\ CountCoreStep
  /\ LET match == Head(Exact(query, kind) \o Discovered(query))
     IN /\ loaded' = loaded \cup IF match.kind = "skill" THEN {match.name} ELSE {}
        /\ remembered' = [remembered EXCEPT ![e] = Remembered(@, match)]
  /\ UNCHANGED <<registered, files, views, reader>>

\* What the agent notes of an answer: a line is numbered unless all are shown.
Noted(e, skill, seen, window) ==
  reader' = [reader EXCEPT ![e] =
    [skill |-> skill, next |-> window.offset + LinesShown(window),
     seen |-> seen \cup (window.offset .. (window.offset + LinesShown(window) - 1)),
     told |-> ~Truncated(window), shown |-> LinesShown(window), of |-> Len(window.content),
     width |-> IF window.content = << >> THEN 0 ELSE window.content[window.offset]]]

\* load_skill_resource: the file is read anew, and its window of the session replaced.
LoadResource(e, skill, offset) ==
  /\ skill \in registered /\ CountCoreStep
  /\ LET window == [content |-> files[skill], offset |-> Clamped(offset, files[skill])]
     IN /\ views' = [views EXCEPT ![skill] = {window}]
        /\ Noted(e, skill, 1 .. (window.offset - 1), window)
  /\ UNCHANGED <<registered, files, loaded, remembered>>

\* change_skill_view_offset, of an agent that reads on behind what it was shown.
ChangeViewOffset(e) ==
  LET skill == reader[e].skill IN
  /\ skill # NoName /\ views[skill] # {} /\ CountCoreStep
  /\ LET view == CHOOSE w \in views[skill] : TRUE
         window == [view EXCEPT !.offset = Clamped(reader[e].next, view.content)]
     IN /\ views' = [views EXCEPT ![skill] = {window}]
        /\ Noted(e, skill, reader[e].seen, window)
  /\ UNCHANGED <<registered, files, loaded, remembered>>

CoreNext ==
  \/ \E skill \in Skills :
       \/ RegisterSkill(skill) \/ UnloadSkill(skill) \/ LoadSkill(skill)
       \/ \E text \in FileTexts : WriteFile(skill, text)
  \/ \E e \in Readers :
       \/ \E query \in DOMAIN Found, kind \in {NoName, "skill"} : LoadCapability(e, query, kind)
       \/ \E skill \in Skills, offset \in Offsets : LoadResource(e, skill, offset)
       \/ ChangeViewOffset(e)

CoreSpec == CoreInit /\ [][CoreNext]_coreVars

-----------------------------------------------------------------------------
(* Properties.                                                              *)

\* An agent that starts with a window and always asks for what comes behind the last line
\* it was shown misses no line: once it is told that nothing is left out it has seen (or
\* skipped when it started) every line, and until then each answer shows at least one,
\* unless not even that one fits.  This although other runs of the session move and
\* replace the same window, and the file changes meanwhile.
ReadersMissNothing ==
  \A e \in Readers : reader[e].skill # NoName =>
    /\ reader[e].told => 1 .. reader[e].of \subseteq reader[e].seen
    /\ reader[e].shown = 0 =>
         \/ reader[e].of = 0
         \/ FrameBytes + 2 * DotsBytes + PrefixBytes + 1 + reader[e].width > MaxBytes
=============================================================================
