--------------------------- MODULE SensorConfigs ---------------------------
(***************************************************************************)
(* The sensors' configurations: the UI keeps them in a list and in files,  *)
(* one per sensor, named by its number; the daemon loads the files when it *)
(* starts and reports the state of its sensors by number, which the UI     *)
(* shows as the icons of its list. A file is written and read key by key,  *)
(* and no lock keeps the daemon from reading what the UI is writing.       *)
(***************************************************************************)
EXTENDS SequencesExt, FiniteSetsExt, Naturals

CONSTANTS
    MaxSensors,  \* bound: sensors in the list
    Keys,        \* the keys of a file, in the order they are written
    LoadKeys,    \* the same, in the order they are read
    Configs,     \* what the dialog may hand over: a value for every key
    Params,      \* those that a dialog of their own sets at once
    Default,     \* the value of each key a file does not have
    MaxEdits     \* bound: additions, changes and deletions

KeySet == ToSet(Keys)

Values == UNION {{c[k] : k \in KeySet} : c \in Configs \union {Default}}

ASSUME ConfigsAssumption ==
    /\ MaxSensors \in Nat
    /\ Keys \in Seq(KeySet) /\ Keys # << >> /\ IsInjective(Keys)
    /\ LoadKeys \in Seq(KeySet) /\ ToSet(LoadKeys) = KeySet /\ IsInjective(LoadKeys)
    /\ Params \subseteq KeySet
    /\ Configs \union {Default} \subseteq [KeySet -> Values]
    /\ MaxEdits \in Nat

VARIABLES
    list,      \* the UI's SensorConfigArray: numbers and configurations
    files,     \* the files there are, by number: values by key
    saving,    \* SensorConfig::save of the UI: the number and how many keys it has written
    dialog,    \* the dialog of a sensor: its number, and whether the sensor was deleted meanwhile
    daemon,    \* "down", "loads" or "runs"
    found,     \* the daemon's loadAll: numbers of the files it has still to load
    partly,    \* what load has read of the first of them
    loaded,    \* the daemon's SensorConfigArray
    saved,     \* numbers and configurations that were ever saved whole (history)
    unsaved,   \* numbers whose parameters a dialog has set and no save has followed (history)
    ghost,     \* the dialog of a deleted sensor was confirmed (history)
    torn,      \* numbers of which a save was cut off by the end of the UI (history)
    meddled,   \* the UI wrote or deleted a file while the daemon was loading (history)
    changed,   \* numbers of sensors the UI added, changed or deleted since (history)
    edits      \* how many edits were made (bounds the model)

daemonVars == <<daemon, found, partly, loaded>>
vars == <<list, files, saving, dialog, daemonVars, saved, unsaved, ghost, torn, meddled, changed, edits>>

Number == 1..MaxSensors
Rest == [id |-> 0, done |-> 0]
NoDialog == [id |-> 0, gone |-> FALSE]
NoValues == [k \in {} |-> Default]

Numbers(configs) == [i \in DOMAIN configs |-> configs[i].id]

\* Mutant: a file's first key is never read.
FilledButFirst(values) == [k \in KeySet |-> IF k \in DOMAIN values /\ k # Head(Keys) THEN values[k]
                                            ELSE Default[k]]

\* What load makes of the values a file has.
Filled(values) == [k \in KeySet |-> IF k \in DOMAIN values THEN values[k] ELSE Default[k]]

Init ==
    /\ list = << >>
    /\ files = [n \in {} |-> NoValues]
    /\ saving = Rest
    /\ dialog = NoDialog
    /\ daemon = "down"
    /\ found = << >>
    /\ partly = << >>
    /\ loaded = << >>
    /\ saved = {}
    /\ unsaved = {}
    /\ ghost = FALSE
    /\ torn = {}
    /\ meddled = FALSE
    /\ changed = {}
    /\ edits = 0

-----------------------------------------------------------------------------
(* The UI *)

Edits(n) ==
    /\ saving = Rest
    /\ edits < MaxEdits
    /\ edits' = edits + 1
    /\ changed' = changed \union {n}

\* findUnusedId.
UnusedNumber == CHOOSE n \in Number : /\ n \notin ToSet(Numbers(list))
                                      /\ \A j \in 1..n - 1 : j \in ToSet(Numbers(list))

\* AddSensor: the dialog is given a configuration of its own; addFrom, then save.
Add(c) ==
    /\ Len(list) < MaxSensors
    /\ list' = Append(list, [id |-> UnusedNumber, config |-> c])
    /\ saving' = [id |-> UnusedNumber, done |-> 0]
    /\ Edits(UnusedNumber)
    /\ UNCHANGED <<files, dialog, daemonVars, saved, unsaved, ghost, torn, meddled>>

\* EditSensor: the dialog has no owner, the main window goes on taking commands.
OpenDialog(i) ==
    /\ dialog = NoDialog
    /\ dialog' = [id |-> list[i].id, gone |-> FALSE]
    /\ Edits(list[i].id)
    /\ UNCHANGED <<list, files, saving, daemonVars, saved, unsaved, ghost, torn, meddled>>

\* What the sensor of the dialog has once the keys in which are those of c.
Written(keys, c) ==
    [i \in DOMAIN list |->
        IF list[i].id # dialog.id THEN list[i]
        ELSE [list[i] EXCEPT !.config = [k \in KeySet |-> IF k \in keys THEN c[k] ELSE @[k]]]]

\* OnOK of the dialog of the parameters, which are those of the sensor in the list.
SetParams(c) ==
    /\ saving = Rest
    /\ dialog # NoDialog
    /\ ~dialog.gone
    /\ list' = Written(Params, c)
    /\ unsaved' = unsaved \union {dialog.id}
    /\ UNCHANGED <<files, saving, dialog, daemonVars, saved, ghost, torn, meddled, changed, edits>>

\* OnOK, then save.
Confirm(c) ==
    /\ saving = Rest
    /\ dialog # NoDialog
    /\ ~dialog.gone
    /\ list' = Written(KeySet \ Params, c)
    /\ saving' = [id |-> dialog.id, done |-> 0]
    /\ dialog' = NoDialog
    /\ UNCHANGED <<files, daemonVars, saved, unsaved, ghost, torn, meddled, changed, edits>>

\* The sensor was deleted: what the deleted object holds may come to be a file again; or
\* nothing happens. The end of the UI is RestartUI.
ConfirmGone(c) ==
    /\ saving = Rest
    /\ dialog.gone
    /\ dialog' = NoDialog
    /\ ghost' = TRUE
    /\ files' \in {files, [n \in DOMAIN files \union {dialog.id} |->
                              IF n = dialog.id THEN c ELSE files[n]]}
    /\ saved' = saved \union {[id |-> dialog.id, config |-> c]}
    /\ meddled' = (meddled \/ daemon = "loads")
    /\ changed' = changed \union {dialog.id}
    /\ UNCHANGED <<list, saving, daemonVars, unsaved, torn, edits>>

Cancel ==
    /\ saving = Rest
    /\ dialog # NoDialog
    /\ dialog' = NoDialog
    /\ UNCHANGED <<list, files, saving, daemonVars, saved, unsaved, ghost, torn, meddled, changed, edits>>

\* Mutant: the file stays.
DeleteFromList(i) ==
    /\ list' = RemoveAt(list, i)
    /\ Edits(list[i].id)
    /\ UNCHANGED <<files, saving, dialog, daemonVars, saved, unsaved, ghost, torn, meddled>>

\* DeleteSensor: DeleteConfigByID, with the file.
Delete(i) ==
    /\ list' = RemoveAt(list, i)
    /\ files' = [n \in DOMAIN files \ {list[i].id} |-> files[n]]
    /\ dialog' = IF dialog.id = list[i].id THEN [dialog EXCEPT !.gone = TRUE] ELSE dialog
    /\ unsaved' = unsaved \ {list[i].id}
    /\ meddled' = (meddled \/ daemon = "loads")
    /\ Edits(list[i].id)
    /\ UNCHANGED <<saving, daemonVars, saved, ghost, torn>>

Saved(n) == CHOOSE s \in ToSet(list) : s.id = n

\* saveData: one key more is written.
SaveKey ==
    /\ saving # Rest
    /\ LET n   == saving.id
           key == Keys[saving.done + 1]
           old == IF n \in DOMAIN files THEN files[n] ELSE NoValues
           new == [k \in DOMAIN old \union {key} |-> IF k = key THEN Saved(n).config[k] ELSE old[k]]
           all == saving.done + 1 = Len(Keys)
       IN  /\ files' = [j \in DOMAIN files \union {n} |-> IF j = n THEN new ELSE files[j]]
           /\ saving' = IF all THEN Rest ELSE [saving EXCEPT !.done = @ + 1]
           /\ saved' = IF all THEN saved \union {Saved(n)} ELSE saved
           /\ unsaved' = IF all THEN unsaved \ {n} ELSE unsaved
    /\ meddled' = (meddled \/ daemon = "loads")
    /\ UNCHANGED <<list, dialog, daemonVars, ghost, torn, changed, edits>>

\* The order in which the files are found.
InOrder(numbers) ==
    [i \in 1..Cardinality(numbers) |->
        CHOOSE n \in numbers : Cardinality({other \in numbers : other < n}) = i - 1]

\* The UI ends, perhaps in the middle of a save, and is started again: loadAll.
RestartUI ==
    /\ list' = [i \in DOMAIN InOrder(DOMAIN files) |->
                   [id |-> InOrder(DOMAIN files)[i],
                    config |-> Filled(files[InOrder(DOMAIN files)[i]])]]
    /\ saving' = Rest
    /\ torn' = torn \union ({saving.id} \ {Rest.id})
    /\ dialog' = NoDialog
    /\ unsaved' = {}
    /\ UNCHANGED <<files, daemonVars, saved, ghost, meddled, changed, edits>>

-----------------------------------------------------------------------------
(* The daemon *)

\* loadAll finds the files.
StartDaemon ==
    /\ daemon = "down"
    /\ daemon' = "loads"
    /\ found' = InOrder(DOMAIN files)
    /\ partly' = << >>
    /\ loaded' = << >>
    /\ meddled' = (saving # Rest)
    /\ changed' = {}
    /\ UNCHANGED <<list, files, saving, dialog, saved, unsaved, ghost, torn, edits>>

\* loadData: one value more is read, the default if the file does not have the key, or is
\* gone. UdpParams reads its addresses before its ports and writes them after.
LoadKey ==
    /\ daemon = "loads"
    /\ found # << >>
    /\ LET n     == Head(found)
           key   == LoadKeys[Len(partly) + 1]
           there == IF n \in DOMAIN files THEN files[n] ELSE NoValues
           read  == Append(partly, Filled(there)[key])
           whole == [k \in KeySet |-> read[CHOOSE j \in DOMAIN LoadKeys : LoadKeys[j] = k]]
       IN  IF Len(read) = Len(LoadKeys)
           THEN /\ loaded' = Append(loaded, [id |-> n, config |-> whole])
                /\ found' = Tail(found)
                /\ partly' = << >>
           ELSE partly' = read /\ UNCHANGED <<loaded, found>>
    /\ UNCHANGED <<list, files, saving, dialog, daemon, saved, unsaved, ghost, torn, meddled, changed, edits>>

\* createAll makes a sensor of each.
CreateAll ==
    /\ daemon = "loads"
    /\ found = << >>
    /\ daemon' = "runs"
    /\ UNCHANGED <<list, files, saving, dialog, found, partly, loaded, saved, unsaved, ghost,
                   torn, meddled, changed, edits>>

StopDaemon ==
    /\ daemon # "down"
    /\ daemon' = "down"
    /\ loaded' = << >>
    /\ found' = << >>
    /\ partly' = << >>
    /\ UNCHANGED <<list, files, saving, dialog, saved, unsaved, ghost, torn, meddled, changed, edits>>

-----------------------------------------------------------------------------

Next ==
    \/ \E c \in Configs : Add(c)
    \/ \E i \in DOMAIN list : OpenDialog(i) \/ Delete(i)
    \/ \E c \in Configs : SetParams(c) \/ Confirm(c) \/ ConfirmGone(c)
    \/ Cancel
    \/ SaveKey
    \/ RestartUI
    \/ StartDaemon \/ LoadKey \/ CreateAll \/ StopDaemon

Spec == Init /\ [][Next]_vars

-----------------------------------------------------------------------------
(* Properties *)

\* Mutant: the icon is that of the sensor at the same place.
StateAtPlace(i) == {loaded[j] : j \in {i} \intersect DOMAIN loaded}

\* OnTimer and populateSensorStateArray: the sensor of the daemon whose state is the icon
\* of an item.
StateOf(i) == {s \in ToSet(loaded) : s.id = list[i].id}

\* Between two saves the files are what the list shows, but for the parameters of a sensor
\* whose dialog was cancelled, and until the dialog of a deleted sensor is confirmed.
FilesAreList ==
    saving = Rest /\ ~ghost =>
        /\ DOMAIN files = ToSet(Numbers(list))
        /\ \A s \in ToSet(list), k \in KeySet :
              Filled(files[s.id])[k] = s.config[k] \/ (k \in Params /\ s.id \in unsaved)

\* The daemon runs with configurations the UI has saved whole, never with some keys of one
\* and some of another, unless the UI was writing or deleting while it loaded, or had ended
\* in the middle of a save.
LoadedWereSaved == ~meddled => \A s \in ToSet(loaded) : s \in saved \/ s.id \in torn

\* No two sensors of the UI, and none of the daemon, have one number, whatever is added and
\* deleted in between. An icon shows the state of another sensor than that of its item, or of
\* none though the sensor is there, only where the UI has edited since the daemon began to
\* load, or while it loaded.
IconsOfList ==
    /\ IsInjective(Numbers(list)) /\ IsInjective(Numbers(loaded))
    /\ daemon = "runs" /\ ~meddled =>
           \A i \in DOMAIN list :
               list[i].id \notin changed => {s.id : s \in StateOf(i)} = {list[i].id}

=============================================================================
