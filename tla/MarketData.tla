----------------------------- MODULE MarketData -----------------------------
(***************************************************************************)
(* From market files to the arrays an environment reads: quality checks,   *)
(* the dataset manifest, calendars, exchange rates and the panel           *)
(* (data/, environments/panel.py).                                         *)
(*                                                                         *)
(* Days are numbered.  A file holds the bars of one asset; the defects a   *)
(* function of days cannot show (duplicate or unsorted keys, nulls, wrong  *)
(* market metadata) are a set of codes beside them.                        *)
(***************************************************************************)
EXTENDS Integers, FiniteSets, FiniteSetsExt

CONSTANTS Assets,    \* a finite set, one market each
          Foreign,   \* assets whose currency is not the base currency
          LastDay,
          Bars,      \* bars of a file, NoBar included
          Files,     \* Files[a], the files the asset may have
          Tables,    \* exchange rates by day, NoRate where none is recorded
          Rebalance, \* explicit sessions of a scheduled_rebalance calendar
          NoBar, NoRate, NoPrice

Days == 1..LastDay

\* bars have numbers, files are complete records of the days, and a rate that is
\* recorded is positive; the marks of what is missing are no numbers
DataAssumption ==
  /\ LastDay \in Nat /\ Foreign \subseteq Assets
  /\ \A b \in Bars \ {NoBar} : b.open \in Int /\ b.close \in Int
  /\ \A a \in Assets : \A f \in Files[a] :
       f = [bars |-> f.bars, defects |-> f.defects] /\ f.bars \in [Days -> Bars]
  /\ Tables \subseteq [Days -> {NoRate} \cup (Nat \ {0})]
  /\ NoRate \notin Int /\ NoPrice \notin Int

VARIABLES files,     \* canonical files on disk
          rates,     \* the FX artifact
          manifest,  \* dataset_manifest.json
          panel      \* MarketDataPanel, or why there is none

vars == <<files, rates, manifest, panel>>

NoManifest == [built |-> FALSE]
NoPanel == [status |-> "none"]
Refused(reason) == [status |-> reason]

(***************************************************************************)
(* Quality: every finding of a file, and nothing dropped or repaired.      *)
(***************************************************************************)
Recorded(file) == {file.bars[d] : d \in Days} \ {NoBar}

Findings(file) ==
  file.defects
  \cup (IF \E b \in Recorded(file) : b.open < 0 \/ b.close < 0 THEN {"negative_numeric"} ELSE {})
  \cup (IF \E b \in Recorded(file) : ~b.enveloped THEN {"invalid_high"} ELSE {})

Merged(S) == UNION {Findings(S[a]) : a \in Assets}

(***************************************************************************)
(* Manifest.  A digest is the content it was taken of.                     *)
(***************************************************************************)
BuildManifest ==
  /\ ~manifest.built
  /\ manifest' = [built |-> TRUE, digest |-> [ohlcv |-> files, fx |-> rates],
                  valid |-> Merged(files) = {}]
  /\ UNCHANGED <<files, rates, panel>>

\* Mutant: only the rates are checked.
FxVerifiedOnly == manifest.digest.fx = rates
Verified == manifest.digest = [ohlcv |-> files, fx |-> rates]

\* a file is rewritten or edited after it was recorded
EditFile(a, d, bar) ==
  /\ manifest.built /\ panel = NoPanel
  /\ Verified
  /\ files' = [files EXCEPT ![a].bars[d] = bar]
  /\ UNCHANGED <<rates, manifest, panel>>

(***************************************************************************)
(* Calendars.                                                              *)
(***************************************************************************)
Observed(a) == {d \in Days : files[a].bars[d] # NoBar}
UnionDays == UNION {Observed(a) : a \in Assets}
CalendarModes == {"union", "intersection", "scheduled_rebalance"}

Composite(mode) ==
  CASE mode = "union" -> UnionDays
    [] mode = "intersection" -> {d \in UnionDays : \A a \in Assets : d \in Observed(a)}
    [] mode = "scheduled_rebalance" -> Rebalance \cap UnionDays

(***************************************************************************)
(* Exchange rates: the latest one known on a day.                          *)
(***************************************************************************)
KnownRates(table, d) == {e \in Days : e <= d /\ table[e] # NoRate}
RateOn(table, a, d) == IF a \in Foreign THEN table[Max(KnownRates(table, d))] ELSE 1

(***************************************************************************)
(* The panel of a set of files on a set of sessions.                       *)
(***************************************************************************)
\* Mutant: the bar of the next day is seen.
SeenAhead(S, sessions, a, d) ==
  {e \in sessions : e <= d + 1 /\ S[a].bars[e] # NoBar}
SeenBy(S, sessions, a, d) == {e \in sessions : e <= d /\ S[a].bars[e] # NoBar}

CloseOn(S, table, sessions, a, d) ==
  LET seen == SeenBy(S, sessions, a, d)
  IN  IF seen = {} THEN NoPrice ELSE S[a].bars[Max(seen)].close * RateOn(table, a, d)

QuotedOpenOnly(S, table, sessions, a, d) ==
  IF S[a].bars[d] = NoBar THEN NoPrice ELSE S[a].bars[d].open * RateOn(table, a, d)
OpenOn(S, table, sessions, a, d) ==
  IF S[a].bars[d] = NoBar THEN CloseOn(S, table, sessions, a, d)
  ELSE S[a].bars[d].open * RateOn(table, a, d)

TradableOn(S, a, d) ==
  /\ S[a].bars[d] # NoBar
  /\ S[a].bars[d].flag \notin {"suspended", "not_tradable"}
  /\ S[a].bars[d].open > 0 /\ S[a].bars[d].close > 0

RowOf(S, table, sessions, d) ==
  [open     |-> [a \in Assets |-> OpenOn(S, table, sessions, a, d)],
   close    |-> [a \in Assets |-> CloseOn(S, table, sessions, a, d)],
   tradable |-> {a \in Assets : TradableOn(S, a, d)}]

Valued(S, table, sessions) ==
  {d \in sessions : \A a \in Assets :
     LET close == CloseOn(S, table, sessions, a, d) IN close # NoPrice /\ close > 0}

RatesMissing(table, sessions) ==
  Foreign # {} /\ \E d \in sessions : KnownRates(table, d) = {}

PanelOf(S, table, sessions) ==
  IF sessions = {} THEN Refused("no_sessions")
  ELSE IF RatesMissing(table, sessions) THEN Refused("fx_missing")
  ELSE IF Valued(S, table, sessions) = {} THEN Refused("never_valued")
  ELSE [status |-> "built", sessions |-> sessions,
        first |-> Min(Valued(S, table, sessions)),
        rows |-> [d \in sessions |-> RowOf(S, table, sessions, d)]]

\* a checked frame on the calendar the caller supplies
Framed(mode) ==
  IF Merged(files) # {} THEN Refused("quality") ELSE PanelOf(files, rates, Composite(mode))

BuildPanel(mode) ==
  /\ panel = NoPanel
  /\ panel' = Framed(mode)
  /\ UNCHANGED <<files, rates, manifest>>

\* a data set is loaded through its manifest, on the calendar it was observed on
LoadPanel ==
  /\ manifest.built /\ panel = NoPanel
  /\ panel' = IF Verified THEN Framed("union") ELSE Refused("manifest")
  /\ UNCHANGED <<files, rates, manifest>>

\* the copied range of sessions a partition reads
SliceOfOldFirst(p, start, end) ==
  LET kept == {d \in p.sessions : start <= d /\ d <= end}
  IN  [p EXCEPT !.sessions = kept, !.rows = [d \in kept |-> p.rows[d]]]
Slice(p, start, end) ==
  LET kept == {d \in p.sessions : start <= d /\ d <= end}
  IN  [p EXCEPT !.sessions = kept, !.rows = [d \in kept |-> p.rows[d]],
                !.first = Max({p.first, Min(kept)})]

(***************************************************************************)
(* Specification.                                                          *)
(***************************************************************************)
Init ==
  /\ files \in {S \in [Assets -> UNION {Files[a] : a \in Assets}] :
                  \A a \in Assets : S[a] \in Files[a]}
  /\ rates \in Tables
  /\ manifest = NoManifest
  /\ panel = NoPanel

Next ==
  \/ BuildManifest
  \/ \E a \in Assets, d \in Days, bar \in Bars : EditFile(a, d, bar)
  \/ LoadPanel
  \/ \E mode \in CalendarModes : BuildPanel(mode)

Spec == Init /\ [][Next]_vars

TypeOK ==
  /\ \A a \in Assets : files[a].bars \in [Days -> Bars]
  /\ rates \in Tables
  /\ manifest.built \in BOOLEAN
  /\ panel.status \in {"none", "manifest", "quality", "no_sessions", "fx_missing",
                       "never_valued", "built"}

Built == panel.status = "built"

\* What an observation may see of a session does not depend on later bars or
\* rates: cutting the data after any day leaves the rows up to it unchanged
\* (docs/environment-contract.md, Timing).
Until(S, d) ==
  [a \in Assets |-> [S[a] EXCEPT !.bars = [e \in Days |-> IF e <= d THEN S[a].bars[e] ELSE NoBar]]]
KnownUntil(table, d) == [e \in Days |-> IF e <= d THEN table[e] ELSE NoRate]

ForwardOnly ==
  Built => \A d \in panel.sessions :
    d >= panel.first =>
      LET earlier == PanelOf(Until(files, d), KnownUntil(rates, d), {e \in panel.sessions : e <= d})
      IN  /\ earlier.status = "built" /\ earlier.first = panel.first
          /\ \A e \in earlier.sessions : earlier.rows[e] = panel.rows[e]

\* From the first common session on every asset has an open and a close, so
\* that the two gap checks of panel.py:272-275 never refuse a panel; and the
\* prices are positive unless a source holds a zero price, which the quality
\* checks accept and the account refuses in the middle of an episode.
ZeroPriced == \E a \in Assets : \E b \in Recorded(files[a]) : b.open = 0 \/ b.close = 0

ValuationComplete ==
  Built => \A d \in {e \in panel.sessions : e >= panel.first}, a \in Assets :
    /\ panel.rows[d].open[a] # NoPrice /\ panel.rows[d].close[a] # NoPrice
    /\ ~ZeroPriced => panel.rows[d].open[a] > 0 /\ panel.rows[d].close[a] > 0

\* On the observed calendar an asset that is closed is valued at its latest
\* close of any day, at the exchange rate of the session (panel.py:199-215).
LatestClose ==
  Built /\ panel.sessions = UnionDays =>
    \A d \in panel.sessions, a \in Assets :
      LET last == {e \in Observed(a) : e <= d}
      IN  last # {} => panel.rows[d].close[a] = files[a].bars[Max(last)].close * RateOn(rates, a, d)

\* A panel that was loaded stands for data its manifest describes and the quality checks
\* passed, also when a file was edited after it was recorded (panel.py:82-85).
PanelVerified ==
  [][LoadPanel /\ Built' => /\ manifest.digest = [ohlcv |-> files, fx |-> rates]
                            /\ \A a \in Assets : Findings(files[a]) = {}]_vars

\* A partition is a part of the panel: a slice taken at or after the first
\* common session values everything from its own first session on.
SliceValued ==
  Built => \A start, end \in panel.sessions :
    (panel.first <= start /\ start <= end) =>
      LET s == Slice(panel, start, end)
      IN  s.first = start /\ \A d \in s.sessions, a \in Assets : s.rows[d].close[a] # NoPrice

\* A panel shows what was known, values everything, and so do its parts.
PanelSound == ForwardOnly /\ ValuationComplete /\ LatestClose /\ SliceValued
=============================================================================
