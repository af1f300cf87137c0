---------------------------- MODULE JsonlStorage ----------------------------
(***************************************************************************)
(* JsonlStorage of src/wheel/storage: a directory per day with the items   *)
(* of the day, one JSON text per line, and a report and a summary that are *)
(* overwritten.  Calls are synchronous and nothing runs beside them, so a  *)
(* call is one step; what makes it hard is where the step can be cut.  A   *)
(* write can end after any byte: the process dies, or the disk is full,    *)
(* which no stream is asked about, so that the call returns as usual; and  *)
(* dump() throws on text that is not UTF-8.  What was written survives the *)
(* process; losing it with the machine is left out.                        *)
(*                                                                         *)
(* A date is a number, larger when later; 0 is the empty date that callers *)
(* leave to today_str().  Items are numbered in the order in which they    *)
(* are given to save_items(), texts in the order of save_report() and      *)
(* save_summary().  A save_items() of no items leaves the directory of its *)
(* date and an empty file, which loads as if it were not there.            *)
(***************************************************************************)
EXTENDS Integers, SequencesExt

CONSTANTS
  MaxDate,    \* the last date
  MaxItems,   \* bound on the items given to save_items()
  MaxBatch,   \* bound on the items given to it at once
  MaxTexts    \* bound on the reports and summaries saved

ASSUME StorageBounds == {MaxDate, MaxItems, MaxBatch, MaxTexts} \subseteq Nat

Dates    == 1..MaxDate
sessions == MaxDate + 1     \* where the browser saves, if it was made; its name sorts last
Docs     == {"report", "summary"}
Platforms == {0, 1}
platform(i) == i % 2        \* UnifiedItem::platform
NoPlatform == 2             \* load_items() is asked for no platform

VARIABLES
  up,       \* the process runs
  today,    \* what today_str() returns
  dirs,     \* the directories in data_dir_
  items,    \* items.jsonl of each date: what of each item's line is in it
  docs,     \* report.md and summary.json: which text, and what of it
  \* History.
  nitem, ntext,   \* items and texts so far
  saved,          \* items of calls of save_items() that wrote all they had
  given,          \* items given to save_items(), for each date
  last,           \* text last given for each file
  named,          \* dates that some save was called for, items or none
  cut             \* files of which the last save, or any append, was cut

vars == <<up, today, dirs, items, docs, nitem, ntext, saved, given, last, named, cut>>

(* What there is of a line: all of it, all but the newline, or less. *)
Piece == [item : 1..MaxItems, part : {"whole", "noeol", "half"}]
Text  == [text : 0..MaxTexts, part : {"absent", "empty", "half", "full"}]

(* Every variable has its type. *)
TypeOK ==
  /\ up \in BOOLEAN /\ today \in Dates
  /\ dirs \subseteq Dates \cup {sessions}
  /\ items \in [Dates -> Seq(Piece)]
  /\ docs \in [Dates -> [Docs -> Text]]
  /\ nitem \in 0..MaxItems /\ ntext \in 0..MaxTexts
  /\ saved \in [Dates -> Seq(1..MaxItems)] /\ given \in [Dates -> Seq(1..MaxItems)]
  /\ last \in [Dates -> [Docs -> 0..MaxTexts]] /\ named \subseteq Dates
  /\ cut \subseteq Dates \X (Docs \cup {"items"})

Init ==
  /\ up = TRUE /\ today \in Dates /\ dirs \in {{}, {sessions}}
  /\ items = [d \in Dates |-> <<>>]
  /\ docs = [d \in Dates |-> [f \in Docs |-> [text |-> 0, part |-> "absent"]]]
  /\ nitem = 0 /\ ntext = 0
  /\ saved = [d \in Dates |-> <<>>] /\ given = [d \in Dates |-> <<>>]
  /\ last = [d \in Dates |-> [f \in Docs |-> 0]] /\ named = {} /\ cut = {}

-----------------------------------------------------------------------------
DateOr(date) == IF date = 0 THEN today ELSE date

(* Mutant of Written: the file is opened without std::ios::app. *)
Written_Truncate(file, batch, k, part) ==
  [i \in 1..k |-> [item |-> batch[i], part |-> "whole"]]
    \o (IF part = "none" THEN <<>> ELSE <<[item |-> batch[k + 1], part |-> part]>>)

(* An append that writes k whole lines and some part of the next. *)
Written(file, batch, k, part) ==
  file \o [i \in 1..k |-> [item |-> batch[i], part |-> "whole"]]
       \o (IF part = "none" THEN <<>> ELSE <<[item |-> batch[k + 1], part |-> part]>>)

(* save_items() of n items, perhaps of none, writes k of them, and the next in part: it dies or
   throws before the others, or finds the disk full. *)
save_items(n, date, k, part, dies) ==
  LET batch == [i \in 1..n |-> nitem + i]
      d == DateOr(date)
  IN /\ up
     /\ nitem + n <= MaxItems
     /\ k <= n /\ (k = n => part = "none")
     /\ dirs' = dirs \cup {d}
     /\ items' = [items EXCEPT ![d] = Written(@, batch, k, part)]
     /\ nitem' = nitem + n
     /\ given' = [given EXCEPT ![d] = @ \o batch]
     /\ saved' = IF k = n THEN [saved EXCEPT ![d] = @ \o batch] ELSE saved
     /\ named' = named \cup {d}
     /\ cut' = IF k < n THEN cut \cup {<<d, "items">>} ELSE cut
     /\ up' = ~dies
     /\ UNCHANGED <<today, docs, ntext, last>>

(* save_report() and save_summary() open the file, which empties it, and write
   it.  (dump() of a summary can throw between the two.) *)
SaveDoc(f, date, part, dies) ==
  LET d == DateOr(date)
  IN /\ up
     /\ ntext < MaxTexts
     /\ ntext' = ntext + 1
     /\ dirs' = dirs \cup {d}
     /\ docs' = [docs EXCEPT ![d][f] = [text |-> ntext + 1, part |-> part]]
     /\ last' = [last EXCEPT ![d][f] = ntext + 1]
     /\ named' = named \cup {d}
     /\ cut' = IF part = "full" THEN cut \ {<<d, f>>} ELSE cut \cup {<<d, f>>}
     /\ up' = ~dies
     /\ UNCHANGED <<today, items, nitem, saved, given>>

(* start() after the process died; it creates data_dir_ and repairs nothing. *)
start ==
  /\ ~up
  /\ up' = TRUE
  /\ UNCHANGED <<today, dirs, items, docs, nitem, ntext, saved, given, last, named, cut>>

Midnight ==
  /\ today < MaxDate
  /\ today' = today + 1
  /\ UNCHANGED <<up, dirs, items, docs, nitem, ntext, saved, given, last, named, cut>>

Next ==
  \/ \E n \in 0..MaxBatch, date \in 0..MaxDate, dies \in BOOLEAN, part \in {"none", "noeol", "half"} :
       \E k \in 0..n : save_items(n, date, k, part, dies)
  \/ \E f \in Docs, date \in 0..MaxDate, dies \in BOOLEAN, part \in {"empty", "half", "full"} :
       SaveDoc(f, date, part, dies)
  \/ start \/ Midnight

Spec == Init /\ [][Next]_vars

-----------------------------------------------------------------------------
(* Mutant of load_items: a line that does not parse is skipped. *)
load_items_SkipBad(d, p) ==
  LET f == items[d]
      alone(i) == /\ i = 1 \/ f[i - 1].part = "whole"
                  /\ f[i].part = "whole" \/ (f[i].part = "noeol" /\ i = Len(f))
      good == SelectSeq([i \in 1..Len(f) |-> [item |-> f[i].item, ok |-> alone(i)]],
                        LAMBDA x : x.ok /\ p \in {NoPlatform, platform(x.item)})
  IN [throws |-> FALSE, value |-> [i \in 1..Len(good) |-> good[i].item]]

(* load_items() throws when a line is not one JSON text: when a half one is in
   it, or a whole one with something after it. *)
load_items(d, p) ==
  LET f == items[d]
      all == [i \in 1..Len(f) |-> f[i].item]
  IN [throws |-> \E i \in 1..Len(f) :
                   f[i].part = "half" \/ (f[i].part = "noeol" /\ i < Len(f)),
      value  |-> IF p = NoPlatform THEN all ELSE SelectSeq(all, LAMBDA x : platform(x) = p)]

(* The text is 0 when the file does not exist. *)
load_report(d) ==
  [throws |-> FALSE, text |-> docs[d]["report"].text, part |-> docs[d]["report"].part]

load_summary(d) ==
  LET s == docs[d]["summary"]
  IN [throws |-> s.part \in {"empty", "half"}, text |-> s.text, part |-> s.part]

(* std::sort with std::greater, of names that are all different. *)
NewestFirst(D) ==
  CHOOSE s \in [1..Cardinality(D) -> D] : \A i, j \in DOMAIN s : i < j => s[i] > s[j]

(* Mutant of list_dates: the directory of the sessions is not left out. *)
list_dates_All == NewestFirst(dirs)

list_dates == NewestFirst(dirs \ {sessions})

-----------------------------------------------------------------------------
InOrder(s) == \A i, j \in 1..Len(s) : i < j => s[i] < s[j]

(* Whatever was cut elsewhere and however often the process died, what was
   saved for a date is loaded again: all its items in their order, those of
   one platform when asked for, and the last report and summary, as long as
   no save of that very file was cut. *)
RoundTrip ==
  \A d \in Dates :
    /\ <<d, "items">> \notin cut =>
         /\ ~load_items(d, NoPlatform).throws
         /\ load_items(d, NoPlatform).value = saved[d]
         /\ \A p \in Platforms :
              /\ ~load_items(d, p).throws
              /\ load_items(d, p).value = SelectSeq(saved[d], LAMBDA x : platform(x) = p)
    /\ <<d, "report">> \notin cut =>
         load_report(d).part \in {"full", "absent"} /\ load_report(d).text = last[d]["report"]
    /\ <<d, "summary">> \notin cut =>
         ~load_summary(d).throws /\ load_summary(d).text = last[d]["summary"]

(* A load_items() that returns, returns every item of every save_items() that
   wrote all it had, in order, and nothing that was not given to one: after a
   crash it may throw, but it never loses an item silently. *)
NeverSilentlyLost ==
  \A d \in Dates :
    LET r == load_items(d, NoPlatform)
    IN ~r.throws => /\ InOrder(r.value)
                    /\ ToSet(saved[d]) \subseteq ToSet(r.value)
                    /\ ToSet(r.value) \subseteq ToSet(given[d])

(* list_dates() returns the dates that a save was called for, also when the save
   had no item to write or died, newest first, and not the directory of the
   sessions; and a date that it leaves out loads as nothing at all: no item, no
   report, no summary and no exception. *)
DatesListed ==
  /\ \A i, j \in 1..Len(list_dates) : i < j => list_dates[i] > list_dates[j]
  /\ ToSet(list_dates) = named
  /\ \A d \in Dates \ ToSet(list_dates) :
       /\ ~load_items(d, NoPlatform).throws /\ load_items(d, NoPlatform).value = <<>>
       /\ load_report(d).part = "absent"
       /\ ~load_summary(d).throws /\ load_summary(d).part = "absent"

-----------------------------------------------------------------------------
(* What is in a file F of items, however its appends were cut, when the items
   up to b were given, G of them to this file, V by calls that wrote all: pieces
   of items in the order in which they were given, every saved one among them;
   and exactly the saved ones, each on a line of its own, if no append was cut. *)
FileOk(F, G, V, b, wasCut) ==
  /\ \A i \in 1..Len(F) : F[i].item <= b /\ \E j \in 1..Len(G) : G[j] = F[i].item
  /\ \A i, j \in 1..Len(F) : i < j => F[i].item < F[j].item
  /\ \A i \in 1..Len(V) : \E j \in 1..Len(F) : F[j].item = V[i]
  /\ ~wasCut => /\ Len(F) = Len(V)
                /\ \A i \in 1..Len(F) : F[i].item = V[i] /\ F[i].part = "whole"

FileInv ==
  \A d \in Dates : FileOk(items[d], given[d], saved[d], nitem, <<d, "items">> \in cut)

(* A report or summary is of the text last given, whole unless its save was cut. *)
DocInv ==
  \A d \in Dates, f \in Docs :
    /\ docs[d][f].text = last[d][f]
    /\ <<d, f>> \notin cut => docs[d][f].part \in {"full", "absent"}

(* The directories are those of the dates that a save was called for, and that of
   the sessions; without a directory there is no file. *)
DirInv ==
  /\ dirs \ {sessions} = named
  /\ \A d \in Dates \ named : items[d] = <<>> /\ \A f \in Docs : docs[d][f].part = "absent"

StorageInv == TypeOK /\ FileInv /\ DocInv /\ DirInv
=============================================================================
