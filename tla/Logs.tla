------------------------------- MODULE Logs -------------------------------
(***************************************************************************)
(* YoukiCliRuntime::get_logs (youki_cli.rs): the point-in-time log fetch.  *)
(* It checks that {state_root}/{id}/container.log exists, then awaits      *)
(* tokio::fs::read_to_string on it, and returns the whole content or its   *)
(* last `tail` lines.  Between the check and the read other actors run:    *)
(* the container appends to its log, and a remove_container of it runs     *)
(* `youki delete --force`, which deletes the container's state directory   *)
(* under state_root, log file included.                                    *)
(***************************************************************************)
EXTENDS Naturals, Sequences, SequencesExt

CONSTANTS
    MaxLog,     \* longest log file explored, in characters
    MaxTail,    \* largest tail requested
    None        \* tail: None

ASSUME MaxLog \in Nat /\ MaxTail \in Nat

(* The characters of a log file: a printable one, carriage return, line   *)
(* feed.                                                                   *)
Chars == {"a", "CR", "LF"}

Tails == (0 .. MaxTail) \cup {None}

(* Rust's saturating_sub on usize.                                         *)
SatSub(x, y) == IF x >= y THEN x - y ELSE 0

VARIABLES
    log,       \* the log file's characters
    logExists, \* the log file exists
    deleted,   \* youki delete has removed the container's state directory
    lpc,       \* the get_logs call: "idle", or "read" while it awaits the read
    ltail,     \* its tail argument
    lres,      \* how the last get_logs ended: "ok", "err", or "none" yet
    lval       \* the content its Ok carried

vars == <<log, logExists, deleted, lpc, ltail, lres, lval>>
-----------------------------------------------------------------------------
(* The pieces of c between line feeds (str::split('\n')).                  *)
RECURSIVE SplitLF(_)
SplitLF(c) ==
    IF \A i \in 1 .. Len(c) : c[i] # "LF"
    THEN <<c>>
    ELSE LET k == CHOOSE i \in 1 .. Len(c) :
                      c[i] = "LF" /\ \A j \in 1 .. i - 1 : c[j] # "LF"
         IN <<SubSeq(c, 1, k - 1)>> \o SplitLF(SubSeq(c, k + 1, Len(c)))

(* Mutant: lines() taken as split('\n'), keeping the empty piece after a   *)
(* final line feed and the carriage returns.                               *)
LinesSplit(c) == IF c = <<>> THEN <<>> ELSE SplitLF(c)

(* str::lines(): the final line ending is optional, and a carriage return *)
(* right before a line feed belongs to the line ending.                    *)
Lines(c) ==
    LET s == SplitLF(c)
        body == IF Last(s) = <<>> THEN Front(s) ELSE s
        Ended(i) == i < Len(s)
    IN [i \in 1 .. Len(body) |->
           IF Ended(i) /\ body[i] # <<>> /\ Last(body[i]) = "CR"
           THEN Front(body[i]) ELSE body[i]]

(* lines[start..].join("\n")                                               *)
JoinLF(ls) ==
    IF ls = <<>> THEN <<>>
    ELSE FoldLeft(LAMBDA acc, l : acc \o <<"LF">> \o l, Head(ls), Tail(ls))

(* The Ok value get_logs builds from the content it read.                 *)
TailOf(c, tail) ==
    IF tail = None THEN c
    ELSE LET ls == Lines(c)
             start == SatSub(Len(ls), tail)
         IN JoinLF(SubSeq(ls, start + 1, Len(ls)))
-----------------------------------------------------------------------------
Init ==
    /\ log = <<>>
    /\ logExists = FALSE
    /\ deleted = FALSE
    /\ lpc = "idle"
    /\ ltail = None
    /\ lres = "none"
    /\ lval = <<>>

(* get_logs(id, tail), up to its await: a missing file is Ok(""); an       *)
(* existing one is read next.                                              *)
GetLogs(tail) ==
    /\ lpc = "idle"
    /\ ltail' = tail
    /\ IF logExists THEN lpc' = "read" /\ lres' = "none"
                    ELSE lres' = "ok" /\ UNCHANGED lpc
    /\ lval' = <<>>
    /\ UNCHANGED <<log, logExists, deleted>>

(* read_to_string(&log_path).await?: the content, or the I/O error (the   *)
(* file is gone) returned by the `?`; then the tail is taken.             *)
GetLogsRead ==
    /\ lpc = "read"
    /\ lpc' = "idle"
    /\ lres' = IF logExists THEN "ok" ELSE "err"
    /\ lval' = IF logExists THEN TailOf(log, ltail) ELSE <<>>
    /\ UNCHANGED <<log, logExists, deleted, ltail>>

(* The container writes a character to its log (creating the file).       *)
WriteLog ==
    /\ ~deleted
    /\ Len(log) < MaxLog
    /\ \E ch \in Chars : log' = Append(log, ch)
    /\ logExists' = TRUE
    /\ UNCHANGED <<deleted, lpc, ltail, lres, lval>>

(* remove_container's `youki delete --force` removes the state directory:  *)
(* the log file is gone, and nothing writes it again.                      *)
YoukiDelete ==
    /\ ~deleted
    /\ deleted' = TRUE
    /\ logExists' = FALSE
    /\ log' = <<>>
    /\ UNCHANGED <<lpc, ltail, lres, lval>>

Next == (\E n \in Tails : GetLogs(n)) \/ GetLogsRead \/ WriteLog \/ YoukiDelete

Spec == Init /\ [][Next]_vars
-----------------------------------------------------------------------------
(***************************************************************************)
(* Reference definitions, from the meaning of a line rather than from the *)
(* splitting the code does.                                                *)
(***************************************************************************)

(* Positions of the line feeds of c, in order.                             *)
LFs(c) == SelectSeq([i \in 1 .. Len(c) |-> i], LAMBDA i : c[i] = "LF")

(* The k-th line of c: the characters after the (k-1)-th line feed and    *)
(* before the k-th (without a carriage return right before it), or up to  *)
(* the end for an unterminated last line.                                  *)
RefLine(c, k) ==
    LET from == IF k = 1 THEN 1 ELSE LFs(c)[k - 1] + 1
        to == IF k <= Len(LFs(c))
                THEN IF LFs(c)[k] > from /\ c[LFs(c)[k] - 1] = "CR"
                       THEN LFs(c)[k] - 2 ELSE LFs(c)[k] - 1
                ELSE Len(c)
    IN SubSeq(c, from, to)

RefLineCount(c) ==
    IF c = <<>> \/ Last(c) = "LF" THEN Len(LFs(c)) ELSE Len(LFs(c)) + 1

(* The last n lines in their original order, separated by line feeds.     *)
RefTail(c, n) ==
    LET total == RefLineCount(c)
        first == total - (IF n < total THEN n ELSE total) + 1
    IN JoinLF([k \in 1 .. total - first + 1 |-> RefLine(c, first + k - 1)])

(* What a log fetch of content c (e: the file exists) with the given tail  *)
(* should answer: nothing for a missing file, else the content or its last *)
(* n lines in their original order (all of them when there are fewer).    *)
Expected(e, c, tail) ==
    IF ~e THEN <<>> ELSE IF tail = None THEN c ELSE RefTail(c, tail)

(* Spec 4.4 and 8: every value get_logs returns Ok is the file as it was   *)
(* read, or its last `tail` lines in their original order, and an empty    *)
(* string for a file that does not exist, however the container appends to *)
(* the file or a youki delete removes it between the call's two steps.     *)
TailIsLastLines ==
    [][lres' = "ok" /\ <<lpc, lres, lval>> # <<lpc', lres', lval'>> =>
         lval' = Expected(logExists, log, ltail')]_vars

(* Spec 4.4 and 8: a missing log file is an empty result, not an error:   *)
(* get_logs never fails because the file is absent.                        *)
MissingLogIsEmpty == lres # "err"
=============================================================================
