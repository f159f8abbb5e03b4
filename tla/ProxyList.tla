----------------------------- MODULE ProxyList ------------------------------
(***************************************************************************)
(* The administrator's two files (main.py): the message of the day and the *)
(* list of Telegram proxies, saved one after the other by write_text, and  *)
(* read anew, and the list parsed, for every request.                      *)
(*                                                                         *)
(* A save runs between two awaits, so nobody in the process sees it half   *)
(* done; but each of the two writes empties its file first and may raise,  *)
(* or the process die, before the file is whole again.  A list is the set  *)
(* of the hosts it adds to the configured ones.                            *)
(***************************************************************************)
CONSTANTS
    Hosts,
    Configured,     \* the hosts of hosts.json, which are checked in any case
    Messages, Torn, \* Torn: a message that was cut short
    Unreadable,     \* a text that does not parse as a list
    Nothing         \* no form

VARIABLES
    message, proxies,   \* contents of message.md and tg-proxies.txt
    saving,             \* the form being saved and the file that is being written
    accepted,           \* history: the form last answered with "saved"
    cut                 \* history: the furthest write cut short since

files == <<message, proxies, saving, accepted, cut>>

Lists == SUBSET (Hosts \ Configured)
Forms == Messages \X Lists

TypeOK ==
    /\ message \in Messages \cup {Torn}
    /\ proxies \in Lists \cup {Unreadable}
    /\ saving \in {Nothing} \cup [form : Forms, file : {"message", "list"}]
    /\ accepted \in Forms
    /\ cut \in {"none", "message", "list"}

Init ==
    /\ message \in Messages /\ proxies = {}
    /\ saving = Nothing
    /\ accepted = <<message, proxies>> /\ cut = "none"

\* Mutant: both files are opened before either is written.
PostOpensBoth(m, list) ==
    /\ saving = Nothing /\ list # Unreadable
    /\ saving' = [form |-> <<m, list>>, file |-> "message"]
    /\ message' = Torn /\ proxies' = {}
    /\ UNCHANGED <<accepted, cut>>

\* The administrator's form; a list that does not parse is refused, and changes
\* nothing.  The message is opened, and so emptied, first.
Post(m, list) ==
    /\ saving = Nothing /\ list # Unreadable
    /\ saving' = [form |-> <<m, list>>, file |-> "message"]
    /\ message' = Torn
    /\ UNCHANGED <<proxies, accepted, cut>>

MessageWritten ==
    /\ saving # Nothing /\ saving.file = "message"
    /\ message' = saving.form[1]
    /\ saving' = [saving EXCEPT !.file = "list"] /\ proxies' = {}
    /\ UNCHANGED <<accepted, cut>>

ListWritten ==
    /\ saving # Nothing /\ saving.file = "list"
    /\ proxies' = saving.form[2]
    /\ saving' = Nothing /\ accepted' = saving.form /\ cut' = "none"
    /\ UNCHANGED message

\* What is left of a list when its writing is cut short: some of its lines, or
\* a line that does not parse.
Shortened(list) == (SUBSET list) \cup {Unreadable}

\* The write raises or the process dies: in the message, or once that is whole
\* but the list not opened yet, or in the list.
CutShort ==
    /\ saving # Nothing /\ saving' = Nothing
    /\ \/ /\ saving.file = "message"
          /\ message' \in {message, saving.form[1]}
          /\ cut' = IF cut = "list" THEN "list" ELSE "message"
          /\ UNCHANGED proxies
       \/ /\ saving.file = "list"
          /\ proxies' \in Shortened(saving.form[2])
          /\ cut' = "list"
          /\ UNCHANGED message
    /\ UNCHANGED accepted

\* find_host_data in get_health_hosts_data.  A list that does not parse fails
\* the checks of all hosts, the configured ones too.
Listed(host) == proxies # Unreadable /\ host \in Configured \cup proxies
-----------------------------------------------------------------------------
\* Between saves both files hold what the last accepted form said, unless a save
\* has been cut short since.  One that was cut short before it came to the list
\* leaves that as it was, so that the same hosts are checked; and the list can be
\* read unless the writing of a list was cut short.  The next save that is
\* accepted repairs both files.
FilesAsAccepted ==
    saving = Nothing =>
        /\ cut = "none" => <<message, proxies>> = accepted
        /\ cut # "list" => \A host \in Hosts :
                              Listed(host) <=> host \in Configured \cup accepted[2]
        /\ proxies = Unreadable => cut = "list"
=============================================================================
