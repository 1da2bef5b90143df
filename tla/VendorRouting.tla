---------------------------- MODULE VendorRouting -----------------------------
(***************************************************************************)
(* How the tools of the analysts get their data.  The calls of one message *)
(* run in threads of their own.  Each is routed along a chain of vendors   *)
(* that its configuration gives, Yahoo and Alpha Vantage; only a rate      *)
(* limit of Alpha Vantage makes it go on to the next one.  Yahoo's         *)
(* requests are retried when it limits their rate, and its prices for the  *)
(* technical indicators are kept in a file of the day, which all threads   *)
(* share without a lock.                                                   *)
(*                                                                         *)
(* A value of an indicator is represented by whether it is right, which it *)
(* is when it was computed from all trading days up to its own.  A tool    *)
(* that is asked for several indicators is as many calls, one after the    *)
(* other.  All calls are about one ticker on one day of the calendar.      *)
(***************************************************************************)
EXTENDS Integers, Sequences

CONSTANTS
  Calls,           \* the calls of tools, each in a thread of its own
  Requests,        \* what each may ask for: a method, an input and a date
  Names,           \* what a configuration may name as a vendor
  Configs,         \* the configurations that graphs of the process use
  Today,           \* the last day of the download
  TradingDays,     \* the days that have prices
  OldDays,         \* those of them that the first write to the file holds
  LookBackDays,    \* look_back_days of the indicators
  MaxRetries,      \* max_retries of yf_retry
  MaxKills         \* bound: how often the process is killed

VARIABLES
  config,     \* _config
  file,       \* the price file of the day, as the parts of it that are there
  call,       \* the state of each call
  kills,      \* how often the process was killed
  mishaps     \* what has happened to the file, for the properties

vars == <<config, file, call, kills, mishaps>>

-----------------------------------------------------------------------------
(* Methods, vendors and their configuration.                               *)
Statements == {"get_balance_sheet", "get_cashflow", "get_income_statement"}
News == {"get_news", "get_global_news", "get_insider_transactions"}

ToolsCategories ==
  [core_stock_apis |-> {"get_stock_data"}, technical_indicators |-> {"get_indicators"},
   fundamental_data |-> Statements \cup {"get_fundamentals"}, news_data |-> News]

Methods == UNION {ToolsCategories[k] : k \in DOMAIN ToolsCategories}

VendorMethods ==
  [method \in Methods |->
     IF method = "get_global_news" THEN <<"yfinance", "alpha_vantage">>
     ELSE <<"alpha_vantage", "yfinance">>]

Vendors == {"yfinance", "alpha_vantage"}

GetCategoryForMethod(method) ==
  CHOOSE k \in DOMAIN ToolsCategories : method \in ToolsCategories[k]

GetVendor(cfg, method) ==
  LET category == GetCategoryForMethod(method)
  IN  IF method \in DOMAIN cfg.tool_vendors THEN cfg.tool_vendors[method]
      ELSE IF category \in DOMAIN cfg.data_vendors THEN cfg.data_vendors[category]
      ELSE <<"default">>

AppendMissing(chain, vendor) ==
  IF \E i \in 1..Len(chain) : chain[i] = vendor THEN chain ELSE Append(chain, vendor)

(* A bug: the remaining vendors are not appended. *)
PrimaryVendors(cfg, method) == GetVendor(cfg, method)

FallbackVendors(cfg, method) ==
  LET available == VendorMethods[method]
  IN  AppendMissing(AppendMissing(GetVendor(cfg, method), available[1]), available[2])

(* An input may have a date or an indicator that nobody understands, or a  *)
(* ticker that no file can be named after.                                 *)
Inputs == {"good", "bad", "unsafe ticker"}

ASSUME RoutingAssumption ==
  /\ Requests \in
       [Calls -> SUBSET [method : Methods, input : Inputs, date : 0..Today]]
  /\ Vendors \subseteq Names
  /\ \A cfg \in Configs, method \in Methods : GetVendor(cfg, method) \in Seq(Names)
  /\ Today \in Nat /\ LookBackDays \in Nat /\ MaxRetries \in Nat /\ MaxKills \in Nat
  /\ TradingDays \subseteq 1..Today /\ OldDays \subseteq TradingDays

-----------------------------------------------------------------------------
(* What the vendors answer.                                                *)
Texts == {"data", "none", "error"}      \* the data, that there are none, a message
Errors == {"AlphaVantageRateLimitError", "ValueError", "Exception"}

(* Alpha Vantage: the key is missing, the request fails, the answer says   *)
(* that there were too many, or it is text.                                *)
HttpAnswers == {"no key", "HTTP error", "rate limit", "data", "none"}

MakeApiRequest(http) ==
  CASE http = "no key"     -> "ValueError"
    [] http = "HTTP error" -> "Exception"
    [] http = "rate limit" -> "AlphaVantageRateLimitError"
    [] OTHER               -> http

FormatDatetimeForApi(input) == IF input = "bad" THEN "ValueError" ELSE "20260102T0000"

(* A bad date is an error if it is the first one; with a bad last one the  *)
(* answer is passed on unfiltered.  A table of which no row is in range is *)
(* still a table.                                                          *)
AVStock(input, http) ==
  {MakeApiRequest(http)} \cup IF input = "bad" THEN {"ValueError"} ELSE {}

(* Every error but that of an unknown indicator is told in the answer, the *)
(* rate limit included; and one indicator is not offered (no request).     *)
AVIndicator(input, http) ==
  IF input = "bad" THEN {"ValueError"}
  ELSE {"none"} \cup IF MakeApiRequest(http) \in Errors THEN {"error"} ELSE {http, "error"}

(* The filter of the reports by date expects a dictionary, not a text.     *)
AVFundamentals(input, http) == MakeApiRequest(http)

AVNews(input, http) ==
  IF FormatDatetimeForApi(input) = "ValueError" THEN "ValueError" ELSE MakeApiRequest(http)

AVInsiderTransactions(input, http) == MakeApiRequest(http)

AlphaVantage(method, input, http) ==
  CASE method = "get_stock_data" -> AVStock(input, http)
    [] method = "get_indicators" -> AVIndicator(input, http)
    [] method \in Statements \cup {"get_fundamentals"} -> {AVFundamentals(input, http)}
    [] method \in {"get_news", "get_global_news"} -> {AVNews(input, http)}
    [] method = "get_insider_transactions" -> {AVInsiderTransactions(input, http)}

(* Yahoo: what is left of an answer when yf_retry has done with it.        *)
YahooAnswers == {"data", "none", "Exception"}

(* A bug: errors are not caught. *)
Untold(answer) == answer

Told(answer) == IF answer \in Errors THEN "error" ELSE answer

GetYFinDataOnline(answer) == {answer}
YFundamentals(answer) == {Told(answer)}
YInsiderTransactions(answer) == {Told(answer)}

(* What is later than the date asked for is dropped, possibly all of it.   *)
FilterFinancialsByDate(answer) == IF answer = "data" THEN {"data", "none"} ELSE {answer}

YBalanceSheet(answer) == {Told(a) : a \in FilterFinancialsByDate(answer)}
YCashflow(answer) == {Told(a) : a \in FilterFinancialsByDate(answer)}
YIncomeStatement(answer) == {Told(a) : a \in FilterFinancialsByDate(answer)}

(* The dates are read after the answer has come.                           *)
GetNewsYfinance(input, answer) ==
  IF answer = "data" THEN IF input = "bad" THEN {"error"} ELSE {"data", "none"}
  ELSE {Told(answer)}

GetGlobalNewsYfinance(input, answer) ==
  IF answer = "data" /\ input = "bad" THEN {"error"} ELSE {Told(answer)}

YFinance(method, input, answer) ==
  CASE method = "get_stock_data" -> GetYFinDataOnline(answer)
    [] method = "get_fundamentals" -> YFundamentals(answer)
    [] method = "get_balance_sheet" -> YBalanceSheet(answer)
    [] method = "get_cashflow" -> YCashflow(answer)
    [] method = "get_income_statement" -> YIncomeStatement(answer)
    [] method = "get_insider_transactions" -> YInsiderTransactions(answer)
    [] method = "get_news" -> GetNewsYfinance(input, answer)
    [] method = "get_global_news" -> GetGlobalNewsYfinance(input, answer)

(* The searches that a call makes at most.                                 *)
SearchQueries(method) == IF method = "get_global_news" THEN 4 ELSE 1

-----------------------------------------------------------------------------
(* The price file.                                                         *)
(*                                                                         *)
(* Opening it for writing empties it.  A full download is written in two   *)
(* parts, the first of which ends within a row; an empty one is a header.  *)
NoFile == {"no file"}
Complete == {"header", "old", "recent"}
Parts == Complete \cup {"cut row"}
Files == {NoFile} \cup SUBSET Parts

RecentDays == TradingDays \ OldDays

(* The rows of a file: the days they give the prices of, and the days they *)
(* give false prices of.  A row that was cut short may be dropped, or its  *)
(* last number may be taken for the whole one.                             *)
FirstRecent == {d \in RecentDays : \A e \in RecentDays : d <= e}

RowsOf(parts) ==
  LET days == (IF "old" \in parts THEN OldDays ELSE {})
                \cup (IF "recent" \in parts THEN RecentDays ELSE {})
      false == IF "cut row" \in parts THEN {{}, FirstRecent} ELSE {{}}
  IN  {[right |-> days, false |-> f] : f \in false}

(* A bug: the day asked for is dropped too. *)
RowsBefore(rows, day) ==
  [right |-> {d \in rows.right : d < day}, false |-> {d \in rows.false : d < day}]

RowsUpTo(rows, day) ==
  [right |-> {d \in rows.right : d <= day}, false |-> {d \in rows.false : d <= day}]

Values == {"", "right", "false", "not a trading day"}

(* What the indicator is for a day, from the rows up to it.                *)
IndicatorValue(rows, day) ==
  IF day \notin rows.right \cup rows.false THEN "not a trading day"
  ELSE IF /\ \A d \in TradingDays : d <= day => d \in rows.right
          /\ \A d \in rows.false : d > day
       THEN "right" ELSE "false"

-----------------------------------------------------------------------------
(* A call.                                                                 *)
Days == (0 - LookBackDays)..Today
Loading == {"look", "read", "download", "open", "write", "rest"}
Writing == {"write", "rest"}
Ended == {"answered", "raised", "no vendor"}
Places == {"idle", "route", "ask"} \cup Loading \cup Ended

CallRecord ==
  [pc : Places, method : Methods, input : Inputs, date : 0..Today,
   chain : Seq(Names), at : Nat,           \* the vendor that is asked next or now
   queries : 0..4, tries : 0..MaxRetries,   \* searches done; attempts that failed
   bulk : BOOLEAN, day : Days,              \* all days at once, or this one
   download : {"", "full", "empty"}, values : [Days -> Values],
   answer : Texts \cup {""},
   disturbed : BOOLEAN]                     \* has read a file that was being written

Window(r) == (r.date - LookBackDays)..r.date

Idle(q) ==
  [pc |-> "idle", method |-> q.method, input |-> q.input, date |-> q.date,
   chain |-> <<>>, at |-> 1, queries |-> 0, tries |-> 0,
   bulk |-> TRUE, day |-> q.date, download |-> "",
   values |-> [d \in Days |-> ""], answer |-> "", disturbed |-> FALSE]

Vendor(r) == IF r.at <= Len(r.chain) THEN r.chain[r.at] ELSE ""

Init ==
  /\ config \in Configs
  /\ file = NoFile
  /\ \E q \in [Calls -> UNION {Requests[c] : c \in Calls}] :
       /\ \A c \in Calls : q[c] \in Requests[c]
       /\ call = [c \in Calls |-> Idle(q[c])]
  /\ kills = 0
  /\ mishaps = {}

Becomes(c, r) == call' = [call EXCEPT ![c] = r]

(* An implementation has given an answer or has raised.  The tool of the   *)
(* indicators catches a ValueError; the others raise.                      *)
Finished(r, outcome) ==
  IF outcome \in Texts THEN [r EXCEPT !.pc = "answered", !.answer = outcome]
  ELSE IF r.method = "get_indicators" /\ outcome = "ValueError"
  THEN [r EXCEPT !.pc = "answered", !.answer = "error"]
  ELSE [r EXCEPT !.pc = "raised"]

-----------------------------------------------------------------------------
(* Routing.                                                                *)
(*                                                                         *)
(* The chain is made once, of the configuration of this moment.            *)
RouteToVendor(c) ==
  /\ call[c].pc = "idle"
  /\ Becomes(c, [call[c] EXCEPT !.pc = "route",
                                !.chain = FallbackVendors(config, call[c].method)])
  /\ UNCHANGED <<config, file, kills, mishaps>>

(* The end of the chain is an error. *)
NextVendor(r) ==
  IF r.at < Len(r.chain) THEN [r EXCEPT !.at = @ + 1] ELSE [r EXCEPT !.pc = "no vendor"]

(* A name that is no vendor is passed over. *)
SkipUnknownVendor(c) ==
  /\ call[c].pc = "route"
  /\ Vendor(call[c]) \notin Vendors
  /\ Becomes(c, NextVendor(call[c]))
  /\ UNCHANGED <<config, file, kills, mishaps>>

AskAlphaVantage(c) ==
  /\ call[c].pc = "route"
  /\ Vendor(call[c]) = "alpha_vantage"
  /\ \E http \in HttpAnswers :
       \E outcome \in AlphaVantage(call[c].method, call[c].input, http) :
         Becomes(c, IF outcome = "AlphaVantageRateLimitError"
                    THEN NextVendor(call[c])
                    ELSE Finished(call[c], outcome))
  /\ UNCHANGED <<config, file, kills, mishaps>>

AskYahoo(c) ==
  /\ call[c].pc = "route"
  /\ Vendor(call[c]) = "yfinance"
  /\ Becomes(c,
       IF call[c].input = "bad" /\ call[c].method \in {"get_stock_data", "get_indicators"}
       THEN Finished(call[c], "ValueError")
       ELSE [call[c] EXCEPT !.pc = IF call[c].method = "get_indicators" THEN "look" ELSE "ask"])
  /\ UNCHANGED <<config, file, kills, mishaps>>

-----------------------------------------------------------------------------
(* Requests to Yahoo.  After a rate limit there is another attempt, as     *)
(* long as there have not been too many.                                   *)
(*                                                                         *)
(* A bug: one attempt too many. *)
RetriesOnceMore(r) == r.tries <= MaxRetries

Retries(r) == r.tries < MaxRetries

RateLimited(r) == [r EXCEPT !.tries = @ + 1]

(* A call that searches several times goes on until it has enough.         *)
YahooRequest(c) ==
  /\ call[c].pc = "ask"
  /\ \/ /\ Retries(call[c])
        /\ Becomes(c, RateLimited(call[c]))
     \/ \E answer \in YahooAnswers :
          \E outcome \in YFinance(call[c].method, call[c].input, answer) :
            LET r == [call[c] EXCEPT !.tries = 0, !.queries = @ + 1]
            IN  \/ Becomes(c, Finished(r, outcome))
                \/ /\ answer # "Exception"
                   /\ r.queries < SearchQueries(r.method)
                   /\ Becomes(c, r)
  /\ UNCHANGED <<config, file, kills, mishaps>>

-----------------------------------------------------------------------------
(* The indicators of Yahoo.                                                *)
(*                                                                         *)
(* All days are computed of one table; if that fails, each day, the last   *)
(* first, is computed of a table of its own, and is empty if that fails.   *)
(*                                                                         *)
(* A bug: the same day again. *)
NextDayAgain(r) ==
  IF r.bulk \/ r.day = r.date - LookBackDays
  THEN [r EXCEPT !.pc = "answered", !.answer = "data"]
  ELSE [r EXCEPT !.pc = "look"]

NextDay(r) ==
  IF r.bulk \/ r.day = r.date - LookBackDays
  THEN [r EXCEPT !.pc = "answered", !.answer = "data"]
  ELSE [r EXCEPT !.pc = "look", !.day = @ - 1]

Failed(r) ==
  IF r.bulk THEN [r EXCEPT !.pc = "look", !.bulk = FALSE, !.tries = 0]
  ELSE NextDay([r EXCEPT !.values[r.day] = "", !.tries = 0])

Computed(r, table) ==
  LET rows == RowsUpTo(table, r.day)
  IN  NextDay([r EXCEPT !.values = [d \in Days |->
                 IF d \in Window(r) /\ (r.bulk \/ d = r.day)
                 THEN IndicatorValue(rows, d) ELSE @[d]]])

(* A table without rows may be too little to compute anything of.          *)
Used(r, table) ==
  {Computed(r, table)} \cup
    IF RowsUpTo(table, r.day).right = {} THEN {Failed(r)} ELSE {}

LookForFile(c) ==
  /\ call[c].pc = "look"
  /\ Becomes(c, IF call[c].input = "unsafe ticker" THEN Failed(call[c])
                ELSE [call[c] EXCEPT !.pc = IF file = NoFile THEN "download" ELSE "read"])
  /\ UNCHANGED <<config, file, kills, mishaps>>

OthersWriting(c) == \E o \in Calls \ {c} : call[o].pc \in Writing

ReadFile(c) ==
  /\ call[c].pc = "read"
  /\ LET r == [call[c] EXCEPT !.disturbed = @ \/ OthersWriting(c)]
     IN  IF "header" \notin file THEN Becomes(c, Failed(r))
         ELSE \E table \in RowsOf(file) : \E u \in Used(r, table) : Becomes(c, u)
  /\ UNCHANGED <<config, file, kills, mishaps>>

Download(c) ==
  /\ call[c].pc = "download"
  /\ \/ /\ Retries(call[c])
        /\ Becomes(c, RateLimited(call[c]))
        /\ UNCHANGED mishaps
     \/ /\ Becomes(c, Failed(call[c]))
        /\ UNCHANGED mishaps
     \/ \E data \in {"full", "empty"} :
          /\ Becomes(c, [call[c] EXCEPT !.pc = "open", !.tries = 0, !.download = data])
          /\ mishaps' = IF data = "empty" THEN mishaps \cup {"empty download"} ELSE mishaps
  /\ UNCHANGED <<config, file, kills>>

OpenFile(c) ==
  /\ call[c].pc = "open"
  /\ file' = {}
  /\ Becomes(c, [call[c] EXCEPT !.pc = "write"])
  /\ UNCHANGED <<config, kills, mishaps>>

(* Where another call has already written, the same is written again.      *)
FirstPart(data) ==
  IF data = "empty" THEN {"header"}
  ELSE {"header", "old"} \cup IF "recent" \in file THEN {} ELSE {"cut row"}

(* A bug: a call goes on with its download before the file is closed. *)
WriteFirstPartOnly(c) ==
  /\ call[c].pc = "write"
  /\ file' = file \cup FirstPart(call[c].download)
  /\ Becomes(c, NextDay(call[c]))
  /\ UNCHANGED <<config, kills, mishaps>>

WriteFirstPart(c) ==
  /\ call[c].pc = "write"
  /\ file' = file \cup FirstPart(call[c].download)
  /\ Becomes(c, [call[c] EXCEPT !.pc = "rest"])
  /\ UNCHANGED <<config, kills, mishaps>>

(* The file is written and closed; the call goes on with its download. *)
WriteRest(c) ==
  /\ call[c].pc = "rest"
  /\ file' = IF call[c].download = "empty" THEN file
             ELSE (file \ {"cut row"}) \cup {"recent"}
  /\ LET parts == IF call[c].download = "empty" THEN {"header"} ELSE Complete
         r == [call[c] EXCEPT !.download = ""]
     IN  \E table \in RowsOf(parts) : \E u \in Used(r, table) : Becomes(c, u)
  /\ UNCHANGED <<config, kills, mishaps>>

(* The disk is full, say: what is written stays. *)
WriteFails(c) ==
  /\ call[c].pc \in {"open"} \cup Writing
  /\ Becomes(c, Failed([call[c] EXCEPT !.download = ""]))
  /\ mishaps' = IF call[c].pc = "open" THEN mishaps ELSE mishaps \cup {"write cut off"}
  /\ UNCHANGED <<config, file, kills>>

-----------------------------------------------------------------------------
(* Another graph of the process sets its configuration, for all of them.   *)
SetConfig ==
  /\ config' \in Configs \ {config}
  /\ UNCHANGED <<file, call, kills, mishaps>>

(* The process is killed; the calls are made again by the next one.  The   *)
(* file stays as it is.                                                    *)
Kill ==
  /\ kills < MaxKills
  /\ kills' = kills + 1
  /\ call' = [c \in Calls |-> Idle(call[c])]
  /\ mishaps' = IF \E c \in Calls : call[c].pc \in Writing
                THEN mishaps \cup {"write cut off"} ELSE mishaps
  /\ UNCHANGED <<config, file>>

Step(c) ==
  \/ RouteToVendor(c) \/ SkipUnknownVendor(c)
  \/ AskAlphaVantage(c) \/ AskYahoo(c) \/ YahooRequest(c)
  \/ LookForFile(c) \/ ReadFile(c) \/ Download(c)
  \/ OpenFile(c) \/ WriteFirstPart(c) \/ WriteRest(c) \/ WriteFails(c)

Next == (\E c \in Calls : Step(c)) \/ SetConfig \/ Kill

Spec == Init /\ [][Next]_vars

(* A thread runs on, and a request is answered or fails. *)
FairSpec == Spec /\ \A c \in Calls : WF_vars(Step(c))

-----------------------------------------------------------------------------
TypeOK ==
  /\ config \in Configs
  /\ file \in Files
  /\ call \in [Calls -> CallRecord]
  /\ kills \in 0..MaxKills
  /\ mishaps \subseteq {"empty download", "write cut off"}

(* Whatever a configuration names, typing errors and no names included,    *)
(* the call ends with an answer or an error of a vendor: route_to_vendor   *)
(* never runs out of vendors, because Yahoo is in every chain and never    *)
(* makes the call go on.                                                   *)
SomeVendorAnswers == \A c \in Calls : call[c].pc # "no vendor"

(* The tool of the indicators always gives a text.  The others fail, and   *)
(* the run with them, only in the hands of Alpha Vantage, save the one for *)
(* prices; a failure of Yahoo is told to the model as an answer.           *)
ToolsAnswer ==
  \A c \in Calls :
    call[c].pc = "raised" =>
      /\ call[c].method # "get_indicators"
      /\ Vendor(call[c]) = "alpha_vantage" \/ call[c].method = "get_stock_data"

(* Threads that find no file write it at the same time, each emptying what *)
(* another has written; when the last has closed it, it is complete all    *)
(* the same, if every download had prices and every write was finished.    *)
CacheSettles ==
  mishaps = {} /\ (\A c \in Calls : call[c].pc \notin Writing) =>
    file \in {NoFile, Complete}

(* No trading day is told to the model as a day without trading, no other  *)
(* day as one with a price, and no value is false, unless the file was     *)
(* read while another thread was writing it, or was left cut off or empty. *)
GapsExplained ==
  \A c \in Calls :
    /\ call[c].method = "get_indicators" /\ call[c].answer = "data"
    /\ Vendor(call[c]) = "yfinance"
    /\ mishaps = {} /\ ~call[c].disturbed
    => \A d \in Window(call[c]) :
         call[c].values[d] \in
           {"", IF d \in TradingDays THEN "right" ELSE "not a trading day"}

(* A call ends, although its retries may wait and every day may have to be *)
(* loaded again.                                                           *)
CallEnds == \A c \in Calls : call[c].pc \notin Ended ~> call[c].pc \in Ended
=============================================================================
