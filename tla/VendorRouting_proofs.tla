------------------------- MODULE VendorRouting_proofs --------------------------
(***************************************************************************)
(* Proofs about VendorRouting, for any number of calls, any configurations *)
(* and any calendar.                                                       *)
(*                                                                         *)
(* The inductive invariant has a part for each call (Good): Yahoo is in    *)
(* the rest of its chain, and what it does fits its method; and a part for *)
(* the file (FileSound): until something goes wrong with a write, either a *)
(* thread is about to write all of it or all of it is there that the       *)
(* threads still writing do not bring.                                     *)
(***************************************************************************)
EXTENDS VendorRouting, SequenceTheorems, TLAPS

YahooAhead(r) ==
  /\ r.at \in 1..Len(r.chain)
  /\ \E i \in r.at..Len(r.chain) : r.chain[i] = "yfinance"

(* What holds of a call that is being served. *)
Served(r) ==
  /\ r \in CallRecord
  /\ r.date - LookBackDays <= r.day /\ r.day <= r.date
  /\ YahooAhead(r)

MayFail(r) ==
  /\ r.method # "get_indicators"
  /\ Vendor(r) = "alpha_vantage" \/ r.method = "get_stock_data"

Good(r) ==
  /\ r \in CallRecord
  /\ r.pc # "idle" => Served(r)
  /\ r.pc = "idle" => r.at = 1 /\ r.day = r.date
  /\ r.pc \in {"idle", "route"} => r.queries = 0
  /\ r.pc = "ask" =>
       /\ r.method # "get_indicators" /\ Vendor(r) = "yfinance"
       /\ r.queries < SearchQueries(r.method)
  /\ r.pc \in Loading => r.method = "get_indicators"
  /\ r.pc \in {"open"} \cup Writing => r.download # ""
  /\ r.pc # "no vendor"
  /\ r.pc = "raised" => MayFail(r)

(* u may follow r in a step that leaves the file alone. *)
Follows(u, r) == Good(u) /\ u.pc \notin Writing /\ u.download \in {r.download, ""}

FileSound ==
  /\ \A c \in Calls : call[c].pc \in Writing => file # NoFile
  /\ mishaps = {} =>
       /\ \A c \in Calls : call[c].download # "empty"
       /\ \/ file = NoFile
          \/ \E w \in Calls : call[w].pc = "write"
          \/ /\ "header" \in file /\ "old" \in file
             /\ \/ "recent" \in file /\ "cut row" \notin file
                \/ \E w \in Calls : call[w].pc = "rest"

IInv ==
  /\ config \in Configs
  /\ file \in Files
  /\ call \in [Calls -> CallRecord]
  /\ kills \in 0..MaxKills
  /\ mishaps \subseteq {"empty download", "write cut off"}
  /\ \A c \in Calls : Good(call[c])
  /\ FileSound

-----------------------------------------------------------------------------
(* Chains and vendors.                                                     *)
LEMMA MethodNames ==
  Methods = {"get_stock_data", "get_indicators", "get_fundamentals", "get_balance_sheet",
             "get_cashflow", "get_income_statement", "get_news", "get_global_news",
             "get_insider_transactions"}
BY DEF Methods, ToolsCategories, Statements, News

LEMMA AppendMissingHas ==
  ASSUME NEW chain \in Seq(Names), NEW vendor \in Names
  PROVE  /\ AppendMissing(chain, vendor) \in Seq(Names)
         /\ \E i \in 1..Len(AppendMissing(chain, vendor)) :
              AppendMissing(chain, vendor)[i] = vendor
         /\ \A i \in 1..Len(chain) :
              /\ i \in 1..Len(AppendMissing(chain, vendor))
              /\ AppendMissing(chain, vendor)[i] = chain[i]
<1>1. CASE \E i \in 1..Len(chain) : chain[i] = vendor
  BY <1>1 DEF AppendMissing
<1>2. CASE ~\E i \in 1..Len(chain) : chain[i] = vendor
  <2>1. AppendMissing(chain, vendor) = Append(chain, vendor)
    BY <1>2 DEF AppendMissing
  <2>2. /\ Append(chain, vendor) \in Seq(Names)
        /\ Len(Append(chain, vendor)) = Len(chain) + 1
        /\ Append(chain, vendor)[Len(chain) + 1] = vendor
        /\ \A i \in 1..Len(chain) : Append(chain, vendor)[i] = chain[i]
    BY AppendProperties
  <2>3. Len(chain) \in Nat
    BY LenProperties
  <2>4. Len(chain) + 1 \in 1..Len(Append(chain, vendor))
    BY <2>2, <2>3
  <2>5. \A i \in 1..Len(chain) : i \in 1..Len(Append(chain, vendor))
    BY <2>2, <2>3
  <2> QED
    BY <2>1, <2>2, <2>4, <2>5
<1> QED
  BY <1>1, <1>2

(* Whatever is configured, Yahoo is in the chain. *)
LEMMA YahooInChain ==
  ASSUME NEW cfg \in Configs, NEW method \in Methods
  PROVE  /\ FallbackVendors(cfg, method) \in Seq(Names)
         /\ \E i \in 1..Len(FallbackVendors(cfg, method)) :
              FallbackVendors(cfg, method)[i] = "yfinance"
<1> DEFINE first == VendorMethods[method][1]
           second == VendorMethods[method][2]
           configured == GetVendor(cfg, method)
           chain == AppendMissing(configured, first)
<1>1. VendorMethods[method] \in {<<"yfinance", "alpha_vantage">>, <<"alpha_vantage", "yfinance">>}
  BY DEF VendorMethods
<1>2. \/ first = "yfinance" /\ second = "alpha_vantage"
      \/ first = "alpha_vantage" /\ second = "yfinance"
  BY <1>1
<1>3. configured \in Seq(Names)
  BY RoutingAssumption
<1>4. FallbackVendors(cfg, method) = AppendMissing(chain, second)
  BY DEF FallbackVendors
<1> HIDE DEF first, second, configured, chain
<1>5. first \in Names /\ second \in Names
  BY <1>2, RoutingAssumption DEF Vendors
<1>6. /\ chain \in Seq(Names)
      /\ \E i \in 1..Len(chain) : chain[i] = first
  BY <1>3, <1>5, AppendMissingHas DEF chain
<1>7. /\ AppendMissing(chain, second) \in Seq(Names)
      /\ \E i \in 1..Len(AppendMissing(chain, second)) :
           AppendMissing(chain, second)[i] = second
      /\ \A i \in 1..Len(chain) :
           /\ i \in 1..Len(AppendMissing(chain, second))
           /\ AppendMissing(chain, second)[i] = chain[i]
  BY <1>5, <1>6, AppendMissingHas
<1>8. CASE second = "yfinance"
  BY <1>4, <1>7, <1>8
<1>9. CASE first = "yfinance"
  <2>1. PICK i \in 1..Len(chain) : chain[i] = "yfinance"
    BY <1>6, <1>9
  <2>2. /\ i \in 1..Len(AppendMissing(chain, second))
        /\ AppendMissing(chain, second)[i] = "yfinance"
    BY <1>7, <2>1
  <2> QED
    BY <1>4, <1>7, <2>2
<1> QED
  BY <1>2, <1>8, <1>9

(* No answer of Yahoo is a rate limit, and only prices may fail. *)
LEMMA YahooOutcomes ==
  ASSUME NEW method \in Methods, method # "get_indicators",
         NEW input \in Inputs, NEW answer \in YahooAnswers,
         NEW outcome \in YFinance(method, input, answer)
  PROVE  /\ outcome \in Texts \cup Errors
         /\ outcome \notin Texts => method = "get_stock_data"
<1>1. Told(answer) \in Texts
  BY DEF Told, Texts, Errors, YahooAnswers
<1>2. \A a \in FilterFinancialsByDate(answer) : Told(a) \in Texts
  BY <1>1 DEF FilterFinancialsByDate, Told, Texts, Errors
<1>3. CASE method = "get_stock_data"
  <2>1. outcome = answer
    BY <1>3 DEF YFinance, GetYFinDataOnline
  <2> QED
    BY <2>1, <1>3 DEF YahooAnswers, Texts, Errors
<1>4. CASE method = "get_fundamentals"
  <2>1. outcome = Told(answer)
    BY <1>4 DEF YFinance, YFundamentals
  <2> QED
    BY <2>1, <1>1
<1>5. CASE method = "get_balance_sheet"
  <2>1. outcome \in YBalanceSheet(answer)
    BY <1>5 DEF YFinance
  <2> QED
    BY <2>1, <1>2 DEF YBalanceSheet
<1>6. CASE method = "get_cashflow"
  <2>1. outcome \in YCashflow(answer)
    BY <1>6 DEF YFinance
  <2> QED
    BY <2>1, <1>2 DEF YCashflow
<1>7. CASE method = "get_income_statement"
  <2>1. outcome \in YIncomeStatement(answer)
    BY <1>7 DEF YFinance
  <2> QED
    BY <2>1, <1>2 DEF YIncomeStatement
<1>8. CASE method = "get_insider_transactions"
  <2>1. outcome = Told(answer)
    BY <1>8 DEF YFinance, YInsiderTransactions
  <2> QED
    BY <2>1, <1>1
<1>9. CASE method = "get_news"
  <2>1. outcome \in GetNewsYfinance(input, answer)
    BY <1>9 DEF YFinance
  <2> QED
    BY <2>1, <1>1 DEF GetNewsYfinance, Texts
<1>10. CASE method = "get_global_news"
  <2>1. outcome \in GetGlobalNewsYfinance(input, answer)
    BY <1>10 DEF YFinance
  <2> QED
    BY <2>1, <1>1 DEF GetGlobalNewsYfinance, Texts
<1> QED
  BY <1>3, <1>4, <1>5, <1>6, <1>7, <1>8, <1>9, <1>10, MethodNames

(* The indicators of Alpha Vantage fail for an unknown one only.           *)
LEMMA AlphaVantageOutcomes ==
  ASSUME NEW method \in Methods, NEW input \in Inputs, NEW http \in HttpAnswers,
         NEW outcome \in AlphaVantage(method, input, http)
  PROVE  /\ outcome \in Texts \cup Errors
         /\ method = "get_indicators" => outcome \in Texts \cup {"ValueError"}
<1>1. MakeApiRequest(http) \in Texts \cup Errors
  BY DEF MakeApiRequest, Texts, Errors, HttpAnswers
<1>2. CASE method = "get_stock_data"
  <2>1. outcome \in AVStock(input, http)
    BY <1>2 DEF AlphaVantage, Statements
  <2> QED
    BY <2>1, <1>1, <1>2 DEF AVStock, Errors
<1>3. CASE method = "get_indicators"
  <2>1. outcome \in AVIndicator(input, http)
    BY <1>3 DEF AlphaVantage, Statements
  <2>2. MakeApiRequest(http) \notin Errors => http \in Texts
    BY DEF MakeApiRequest, Texts, Errors, HttpAnswers
  <2>3. outcome \in Texts \cup {"ValueError"}
    BY <2>1, <2>2 DEF AVIndicator, Texts
  <2> QED
    BY <2>3 DEF Errors
<1>4. CASE method \in Statements \cup {"get_fundamentals"}
  <2>1. outcome = AVFundamentals(input, http)
    BY <1>4 DEF AlphaVantage, Statements
  <2> QED
    BY <2>1, <1>1, <1>4 DEF AVFundamentals, Statements
<1>5. CASE method \in {"get_news", "get_global_news"}
  <2>1. outcome = AVNews(input, http)
    BY <1>5 DEF AlphaVantage, Statements
  <2> QED
    BY <2>1, <1>1, <1>5 DEF AVNews, Errors
<1>6. CASE method = "get_insider_transactions"
  <2>1. outcome = AVInsiderTransactions(input, http)
    BY <1>6 DEF AlphaVantage, Statements
  <2> QED
    BY <2>1, <1>1, <1>6 DEF AVInsiderTransactions
<1> QED
  BY <1>2, <1>3, <1>4, <1>5, <1>6, MethodNames DEF Statements

-----------------------------------------------------------------------------
(* Steps of one call.                                                      *)
LEMMA YahooOrMore ==
  ASSUME NEW r \in CallRecord, YahooAhead(r), Vendor(r) # "yfinance"
  PROVE  /\ r.at < Len(r.chain)
         /\ YahooAhead([r EXCEPT !.at = @ + 1])
<1>1. r.at \in Nat /\ Len(r.chain) \in Nat
  <2>1. r.at \in Nat /\ r.chain \in Seq(Names)
    BY DEF CallRecord
  <2> QED
    BY <2>1, LenProperties
<1>2. PICK i \in r.at..Len(r.chain) : r.chain[i] = "yfinance"
  BY DEF YahooAhead
<1>3. i # r.at
  BY <1>1, <1>2 DEF Vendor, YahooAhead
<1>4. r.at + 1 <= i /\ i <= Len(r.chain)
  BY <1>1, <1>2, <1>3
<1>5. [r EXCEPT !.at = @ + 1].at = r.at + 1 /\ [r EXCEPT !.at = @ + 1].chain = r.chain
  BY DEF CallRecord
<1>6. r.at + 1 \in 1..Len(r.chain) /\ i \in (r.at + 1)..Len(r.chain)
  BY <1>1, <1>4
<1> QED
  BY <1>1, <1>2, <1>4, <1>5, <1>6 DEF YahooAhead

LEMMA NextVendorFollows ==
  ASSUME NEW r, Good(r), r.pc = "route", Vendor(r) # "yfinance"
  PROVE  Follows(NextVendor(r), r)
<1> DEFINE u == [r EXCEPT !.at = @ + 1]
<1>1. r \in CallRecord /\ Served(r)
  BY DEF Good
<1>2. r.at < Len(r.chain) /\ YahooAhead(u)
  BY <1>1, YahooOrMore DEF Served
<1>3. NextVendor(r) = u
  BY <1>2 DEF NextVendor
<1>4. r.at + 1 \in Nat
  <2>1. r.at \in Nat
    BY <1>1 DEF CallRecord
  <2> QED
    BY <2>1
<1>5. /\ u \in CallRecord
      /\ u.pc = r.pc /\ u.date = r.date /\ u.day = r.day /\ u.queries = r.queries
      /\ u.download = r.download
  BY <1>1, <1>4 DEF CallRecord
<1> HIDE DEF u
<1>6. Served(u)
  BY <1>1, <1>2, <1>5 DEF Served
<1> QED
  BY <1>3, <1>5, <1>6 DEF Follows, Good, Writing, Loading

LEMMA FinishedFollows ==
  ASSUME NEW r, Served(r), NEW outcome \in Texts \cup Errors,
         outcome \in Texts \/ MayFail(r) \/ (r.method = "get_indicators" /\ outcome = "ValueError")
  PROVE  Follows(Finished(r, outcome), r)
<1> DEFINE u == Finished(r, outcome)
<1>1. r \in CallRecord
  BY DEF Served
<1>2. u \in {[r EXCEPT !.pc = "answered", !.answer = outcome],
             [r EXCEPT !.pc = "answered", !.answer = "error"], [r EXCEPT !.pc = "raised"]}
  BY DEF Finished
<1>3. /\ u.date = r.date /\ u.day = r.day /\ u.chain = r.chain /\ u.at = r.at
      /\ u.method = r.method /\ u.download = r.download
  BY <1>1, <1>2 DEF CallRecord
<1>4. u \in CallRecord /\ u.pc \in {"answered", "raised"}
  <2>1. CASE outcome \in Texts
    <3>1. u = [r EXCEPT !.pc = "answered", !.answer = outcome]
      BY <2>1 DEF Finished
    <3> QED
      BY <1>1, <2>1, <3>1 DEF CallRecord, Places, Ended
  <2>2. CASE u = [r EXCEPT !.pc = "answered", !.answer = "error"]
    BY <1>1, <2>2 DEF CallRecord, Places, Ended, Texts
  <2>3. CASE u = [r EXCEPT !.pc = "raised"]
    BY <1>1, <2>3 DEF CallRecord, Places, Ended
  <2> QED
    BY <2>1, <2>2, <2>3 DEF Finished
<1>5. u.pc = "raised" => MayFail(r)
  <2>1. CASE outcome \in Texts
    BY <1>1, <2>1 DEF Finished, CallRecord
  <2>2. CASE r.method = "get_indicators" /\ outcome = "ValueError"
    BY <1>1, <2>2 DEF Finished, CallRecord
  <2> QED
    BY <2>1, <2>2
<1> HIDE DEF u
<1>6. Served(u)
  BY <1>3, <1>4 DEF Served, YahooAhead
<1>7. u.pc = "raised" => MayFail(u)
  BY <1>3, <1>5 DEF MayFail, Vendor
<1>8. Good(u)
  <2>1. CASE u.pc = "answered"
    BY <2>1, <1>4, <1>6 DEF Good, Writing, Loading
  <2>2. CASE u.pc = "raised"
    BY <2>2, <1>4, <1>6, <1>7 DEF Good, Writing, Loading
  <2> QED
    BY <1>4, <2>1, <2>2
<1>9. u.pc \notin Writing /\ u.download \in {r.download, ""}
  BY <1>3, <1>4 DEF Writing
<1> QED
  BY <1>8, <1>9 DEF Follows, u

(* What the steps of an indicator leave alone.                             *)
Alike(u, r) ==
  /\ u \in CallRecord
  /\ u.method = r.method /\ u.date = r.date /\ u.chain = r.chain /\ u.at = r.at

LEMMA DayBefore ==
  ASSUME NEW r, Served(r), r.day # r.date - LookBackDays
  PROVE  /\ r.day - 1 \in Days
         /\ r.date - LookBackDays <= r.day - 1 /\ r.day - 1 <= r.date
<1>1. r.date \in Int /\ r.day \in Int
  <2>1. r.date \in 0..Today /\ r.day \in Days
    BY DEF Served, CallRecord
  <2> QED
    BY <2>1, RoutingAssumption DEF Days
<1>2. 0 <= r.date /\ r.day \in Days
  <2>1. r.date \in 0..Today /\ r.day \in Days
    BY DEF Served, CallRecord
  <2> QED
    BY <2>1, RoutingAssumption
<1>3. r.date - LookBackDays <= r.day /\ r.day <= r.date
  BY DEF Served
<1>4. LookBackDays \in Nat /\ Today \in Nat
  BY RoutingAssumption
<1>5. r.day - 1 >= 0 - LookBackDays
  BY <1>1, <1>2, <1>3, <1>4
<1> QED
  BY <1>1, <1>2, <1>3, <1>4, <1>5 DEF Days

(* A record that is alike follows if its place and its day are right.      *)
LEMMA AlikeFollows ==
  ASSUME NEW r, NEW u, Served(r), r.method = "get_indicators", Alike(u, r),
         u.pc \in {"answered", "look", "read", "download", "open"},
         u.pc = "open" => u.download # "",
         u.date - LookBackDays <= u.day /\ u.day <= u.date
  PROVE  Good(u)
<1>1. YahooAhead(u)
  BY DEF Served, YahooAhead, Alike
<1>2. Served(u)
  BY <1>1 DEF Served, Alike
<1> QED
  BY <1>2 DEF Good, Alike, Writing, Loading

LEMMA NextDayFollows ==
  ASSUME NEW r, Served(r), r.method = "get_indicators"
  PROVE  Follows(NextDay(r), r)
<1> DEFINE u == NextDay(r)
<1>1. r \in CallRecord /\ r.date - LookBackDays <= r.day /\ r.day <= r.date
  BY DEF Served
<1>2. CASE r.bulk \/ r.day = r.date - LookBackDays
  <2>1. u = [r EXCEPT !.pc = "answered", !.answer = "data"]
    BY <1>2 DEF NextDay
  <2>2. /\ Alike(u, r) /\ u.pc = "answered" /\ u.day = r.day /\ u.date = r.date
        /\ u.download = r.download
    BY <1>1, <2>1 DEF Alike, CallRecord, Places, Ended, Texts
  <2> HIDE DEF u
  <2>3. Good(u)
    BY <1>1, <2>2, AlikeFollows
  <2> QED
    BY <2>2, <2>3 DEF Follows, Writing, u
<1>3. CASE ~(r.bulk \/ r.day = r.date - LookBackDays)
  <2>1. u = [r EXCEPT !.pc = "look", !.day = r.day - 1]
    BY <1>3 DEF NextDay
  <2>2. /\ r.day - 1 \in Days
        /\ r.date - LookBackDays <= r.day - 1 /\ r.day - 1 <= r.date
    BY <1>3, DayBefore
  <2>3. /\ Alike(u, r) /\ u.pc = "look" /\ u.day = r.day - 1 /\ u.date = r.date
        /\ u.download = r.download
    BY <1>1, <2>1, <2>2 DEF Alike, CallRecord, Places, Loading
  <2> HIDE DEF u
  <2>4. Good(u)
    BY <2>2, <2>3, AlikeFollows
  <2> QED
    BY <2>3, <2>4 DEF Follows, Writing, u
<1> QED
  BY <1>2, <1>3

LEMMA FailedFollows ==
  ASSUME NEW r, Served(r), r.method = "get_indicators"
  PROVE  Follows(Failed(r), r)
<1>1. r \in CallRecord /\ r.date - LookBackDays <= r.day /\ r.day <= r.date
  BY DEF Served
<1>2. 0 \in 0..MaxRetries
  BY RoutingAssumption
<1>3. CASE r.bulk
  <2> DEFINE u == [r EXCEPT !.pc = "look", !.bulk = FALSE, !.tries = 0]
  <2>1. Failed(r) = u
    BY <1>3 DEF Failed
  <2>2. /\ Alike(u, r) /\ u.pc = "look" /\ u.day = r.day /\ u.date = r.date
        /\ u.download = r.download
    BY <1>1, <1>2 DEF Alike, CallRecord, Places, Loading
  <2> HIDE DEF u
  <2>3. Good(u)
    BY <1>1, <2>2, AlikeFollows
  <2> QED
    BY <2>1, <2>2, <2>3 DEF Follows, Writing
<1>4. CASE ~r.bulk
  <2> DEFINE values == [r.values EXCEPT ![r.day] = ""]
             u == [r EXCEPT !.values = values, !.tries = 0]
  <2>1. Failed(r) = NextDay(u)
    BY <1>4 DEF Failed
  <2>2. values \in [Days -> Values]
    <3>1. r.values \in [Days -> Values]
      BY <1>1 DEF CallRecord
    <3> QED
      BY <3>1 DEF Values
  <2> HIDE DEF values
  <2>3. /\ u \in CallRecord /\ u.method = r.method /\ u.date = r.date /\ u.day = r.day
        /\ u.chain = r.chain /\ u.at = r.at /\ u.download = r.download
    BY <1>1, <1>2, <2>2 DEF CallRecord
  <2> HIDE DEF u
  <2>4. Served(u)
    BY <1>1, <2>3 DEF Served, YahooAhead
  <2>5. Follows(NextDay(u), u)
    BY <2>3, <2>4, NextDayFollows
  <2> QED
    BY <2>1, <2>3, <2>5 DEF Follows
<1> QED
  BY <1>3, <1>4

LEMMA ComputedFollows ==
  ASSUME NEW r, Served(r), r.method = "get_indicators", NEW table
  PROVE  Follows(Computed(r, table), r)
<1> DEFINE values == [d \in Days |->
                        IF d \in Window(r) /\ (r.bulk \/ d = r.day)
                        THEN IndicatorValue(RowsUpTo(table, r.day), d) ELSE r.values[d]]
           u == [r EXCEPT !.values = values]
<1>1. r \in CallRecord /\ r.date - LookBackDays <= r.day /\ r.day <= r.date
  BY DEF Served
<1>2. Computed(r, table) = NextDay(u)
  BY DEF Computed
<1>3. values \in [Days -> Values]
  <2>1. \A d \in Days : r.values[d] \in Values
    BY <1>1 DEF CallRecord
  <2>2. \A rows, d : IndicatorValue(rows, d) \in Values
    BY DEF IndicatorValue, Values
  <2> QED
    BY <2>1, <2>2
<1> HIDE DEF values
<1>4. /\ u \in CallRecord /\ u.method = r.method /\ u.date = r.date /\ u.day = r.day
      /\ u.chain = r.chain /\ u.at = r.at /\ u.download = r.download
  BY <1>1, <1>3 DEF CallRecord
<1> HIDE DEF u
<1>5. Served(u)
  BY <1>1, <1>4 DEF Served, YahooAhead
<1>6. Follows(NextDay(u), u)
  BY <1>4, <1>5, NextDayFollows
<1> QED
  BY <1>2, <1>4, <1>6 DEF Follows

LEMMA UsedFollows ==
  ASSUME NEW r, Served(r), r.method = "get_indicators", NEW table, NEW u \in Used(r, table)
  PROVE  Follows(u, r)
BY ComputedFollows, FailedFollows DEF Used

-----------------------------------------------------------------------------
(* Steps of the system.                                                    *)
MishapKinds == {"empty download", "write cut off"}

(* The part of the invariant about the calls alone. *)
CallsGood ==
  /\ config \in Configs
  /\ call \in [Calls -> CallRecord]
  /\ kills \in 0..MaxKills
  /\ mishaps \subseteq MishapKinds
  /\ \A c \in Calls : Good(call[c])

LEMMA InvParts ==
  /\ IInv <=> CallsGood /\ file \in Files /\ FileSound
  /\ IInv' <=> CallsGood' /\ file' \in Files /\ FileSound'
BY DEF IInv, CallsGood, MishapKinds

LEMMA Became ==
  ASSUME CallsGood, NEW c \in Calls, NEW u, Good(u), Becomes(c, u),
         UNCHANGED <<config, kills>>, mishaps' \subseteq MishapKinds
  PROVE  /\ CallsGood'
         /\ call'[c] = u
         /\ \A d \in Calls \ {c} : call'[d] = call[d]
<1>1. call \in [Calls -> CallRecord] /\ u \in CallRecord
  BY DEF CallsGood, Good
<1>2. /\ call' \in [Calls -> CallRecord]
      /\ call'[c] = u
      /\ \A d \in Calls \ {c} : call'[d] = call[d]
  BY <1>1 DEF Becomes
<1>3. \A d \in Calls : Good(call[d])'
  <2>1. \A d \in Calls : Good(call'[d])
    BY <1>2 DEF CallsGood
  <2>2. \A d \in Calls : Good(call[d])' <=> Good(call'[d])
    BY DEF Good, Served, YahooAhead, MayFail, Vendor
  <2> QED
    BY <2>1, <2>2
<1> QED
  BY <1>2, <1>3 DEF CallsGood

(* A thread does anything but write.                                       *)
LEMMA QuietStep ==
  ASSUME IInv, NEW c \in Calls, NEW u, Good(u), Becomes(c, u),
         call[c].pc \notin Writing, u.pc \notin Writing,
         UNCHANGED <<config, file, kills>>, mishaps' \subseteq MishapKinds,
         mishaps' = {} => mishaps = {} /\ u.download # "empty"
  PROVE  IInv'
<1>1. CallsGood /\ file \in Files /\ FileSound
  BY InvParts
<1>2. /\ CallsGood'
      /\ call'[c] = u
      /\ \A d \in Calls \ {c} : call'[d] = call[d]
  BY <1>1, Became
<1>3. \A d \in Calls : call'[d].pc \in Writing => call[d].pc \in Writing
  BY <1>2
<1>4. \A d \in Calls : call[d].pc \in Writing => call'[d].pc = call[d].pc
  BY <1>2
<1>5. \A d \in Calls : call'[d].pc \in Writing => file' # NoFile
  BY <1>1, <1>3 DEF FileSound
<1>6. ASSUME mishaps' = {}
      PROVE  /\ \A d \in Calls : call'[d].download # "empty"
             /\ \/ file' = NoFile
                \/ \E w \in Calls : call'[w].pc = "write"
                \/ /\ "header" \in file' /\ "old" \in file'
                   /\ \/ "recent" \in file' /\ "cut row" \notin file'
                      \/ \E w \in Calls : call'[w].pc = "rest"
  <2>1. mishaps = {} /\ u.download # "empty"
    BY <1>6
  <2>2. \A d \in Calls : call'[d].download # "empty"
    BY <1>1, <1>2, <2>1 DEF FileSound
  <2>3. \A d \in Calls : /\ call[d].pc = "write" => call'[d].pc = "write"
                         /\ call[d].pc = "rest" => call'[d].pc = "rest"
    BY <1>4 DEF Writing
  <2> QED
    BY <1>1, <2>1, <2>2, <2>3 DEF FileSound
<1>7. FileSound'
  BY <1>5, <1>6 DEF FileSound
<1> QED
  BY <1>1, <1>2, <1>7, InvParts

(* As it is when nothing but the state of the call changes.                *)
LEMMA FollowingStep ==
  ASSUME IInv, NEW c \in Calls, NEW u, Follows(u, call[c]), Becomes(c, u),
         call[c].pc \notin Writing, UNCHANGED <<config, file, kills, mishaps>>
  PROVE  IInv'
<1>1. mishaps \subseteq MishapKinds
  BY DEF IInv, MishapKinds
<1>2. mishaps' = {} => mishaps = {} /\ u.download # "empty"
  BY DEF IInv, FileSound, Follows
<1> QED
  BY <1>1, <1>2, QuietStep DEF Follows

LEMMA CallIsGood ==
  ASSUME IInv, NEW c \in Calls
  PROVE  /\ call[c] \in CallRecord /\ Good(call[c])
         /\ call[c].pc # "idle" => Served(call[c])
BY DEF IInv, Good

LEMMA RouteToVendorKeeps ==
  ASSUME IInv, NEW c \in Calls, RouteToVendor(c)
  PROVE  IInv'
<1> DEFINE r == call[c]
           chain == FallbackVendors(config, r.method)
           u == [r EXCEPT !.pc = "route", !.chain = chain]
<1>1. r \in CallRecord /\ Good(r) /\ r.pc = "idle"
  BY CallIsGood DEF RouteToVendor
<1>2. r.method \in Methods /\ config \in Configs
  BY <1>1 DEF CallRecord, IInv
<1>3. chain \in Seq(Names) /\ \E i \in 1..Len(chain) : chain[i] = "yfinance"
  BY <1>2, YahooInChain
<1> HIDE DEF chain
<1>4. /\ u \in CallRecord
      /\ u.pc = "route" /\ u.chain = chain /\ u.at = r.at /\ u.day = r.day /\ u.date = r.date
      /\ u.queries = r.queries /\ u.download = r.download
  BY <1>1, <1>3 DEF CallRecord, Places
<1>5. r.at = 1 /\ r.day = r.date /\ r.queries = 0
  BY <1>1 DEF Good
<1>6. r.date \in Int /\ r.date - LookBackDays <= r.date
  <2>1. r.date \in 0..Today
    BY <1>1 DEF CallRecord
  <2> QED
    BY <2>1, RoutingAssumption
<1>7. Len(chain) \in Nat
  BY <1>3, LenProperties
<1>8. Becomes(c, u) /\ UNCHANGED <<config, file, kills, mishaps>>
  BY DEF RouteToVendor, chain
<1> HIDE DEF u
<1>9. YahooAhead(u)
  BY <1>3, <1>4, <1>5, <1>7 DEF YahooAhead
<1>10. Served(u)
  BY <1>4, <1>5, <1>6, <1>9 DEF Served
<1>11. Good(u)
  BY <1>4, <1>5, <1>10 DEF Good, Loading, Writing
<1>12. Follows(u, r)
  BY <1>4, <1>11 DEF Follows, Writing
<1>13. r.pc \notin Writing
  BY <1>1 DEF Writing
<1> QED
  BY <1>8, <1>12, <1>13, FollowingStep

LEMMA SkipUnknownVendorKeeps ==
  ASSUME IInv, NEW c \in Calls, SkipUnknownVendor(c)
  PROVE  IInv'
<1>1. call[c].pc = "route" /\ Vendor(call[c]) # "yfinance"
  BY DEF SkipUnknownVendor, Vendors
<1>2. Follows(NextVendor(call[c]), call[c])
  BY <1>1, CallIsGood, NextVendorFollows
<1> QED
  BY <1>1, <1>2, FollowingStep DEF SkipUnknownVendor, Writing

LEMMA AskAlphaVantageKeeps ==
  ASSUME IInv, NEW c \in Calls, AskAlphaVantage(c)
  PROVE  IInv'
<1> DEFINE r == call[c]
<1>1. r.pc = "route" /\ Vendor(r) = "alpha_vantage"
  BY DEF AskAlphaVantage
<1>2. r \in CallRecord /\ Good(r) /\ Served(r)
  BY <1>1, CallIsGood
<1>3. r.method \in Methods /\ r.input \in Inputs
  BY <1>2 DEF CallRecord
<1>4. PICK http \in HttpAnswers : \E outcome \in AlphaVantage(r.method, r.input, http) :
        Becomes(c, IF outcome = "AlphaVantageRateLimitError"
                   THEN NextVendor(r) ELSE Finished(r, outcome))
  BY DEF AskAlphaVantage
<1>5. PICK outcome \in AlphaVantage(r.method, r.input, http) :
        Becomes(c, IF outcome = "AlphaVantageRateLimitError"
                   THEN NextVendor(r) ELSE Finished(r, outcome))
  BY <1>4
<1>6. /\ outcome \in Texts \cup Errors
      /\ r.method = "get_indicators" => outcome \in Texts \cup {"ValueError"}
  BY <1>3, AlphaVantageOutcomes
<1>7. outcome \in Texts \/ MayFail(r) \/ (r.method = "get_indicators" /\ outcome = "ValueError")
  BY <1>1, <1>6 DEF MayFail
<1>8. Follows(Finished(r, outcome), r)
  BY <1>2, <1>6, <1>7, FinishedFollows
<1>9. Follows(NextVendor(r), r)
  BY <1>1, <1>2, NextVendorFollows
<1>10. UNCHANGED <<config, file, kills, mishaps>> /\ r.pc \notin Writing
  BY <1>1 DEF AskAlphaVantage, Writing
<1>11. CASE outcome = "AlphaVantageRateLimitError"
  BY <1>5, <1>9, <1>10, <1>11, FollowingStep
<1>12. CASE outcome # "AlphaVantageRateLimitError"
  BY <1>5, <1>8, <1>10, <1>12, FollowingStep
<1> QED
  BY <1>11, <1>12

LEMMA AskYahooKeeps ==
  ASSUME IInv, NEW c \in Calls, AskYahoo(c)
  PROVE  IInv'
<1> DEFINE r == call[c]
           place == IF r.method = "get_indicators" THEN "look" ELSE "ask"
           u == [r EXCEPT !.pc = place]
<1>1. r.pc = "route" /\ Vendor(r) = "yfinance"
  BY DEF AskYahoo
<1>2. r \in CallRecord /\ Good(r) /\ Served(r) /\ r.queries = 0
  BY <1>1, CallIsGood DEF Good
<1>3. UNCHANGED <<config, file, kills, mishaps>> /\ r.pc \notin Writing
  BY <1>1 DEF AskYahoo, Writing
<1>4. CASE r.input = "bad" /\ r.method \in {"get_stock_data", "get_indicators"}
  <2>1. Becomes(c, Finished(r, "ValueError"))
    BY <1>4 DEF AskYahoo
  <2>2. "ValueError" \in Texts \cup Errors
    BY DEF Errors
  <2>3. MayFail(r) \/ r.method = "get_indicators"
    BY <1>4 DEF MayFail
  <2>4. Follows(Finished(r, "ValueError"), r)
    BY <1>2, <2>2, <2>3, FinishedFollows
  <2> QED
    BY <1>3, <2>1, <2>4, FollowingStep
<1>5. CASE ~(r.input = "bad" /\ r.method \in {"get_stock_data", "get_indicators"})
  <2>1. Becomes(c, u)
    BY <1>5 DEF AskYahoo
  <2>2. place \in Places
    BY DEF Places, Loading
  <2> HIDE DEF place
  <2>3. /\ Alike(u, r) /\ u.day = r.day /\ u.queries = 0 /\ u.download = r.download
        /\ u.pc = place
    BY <1>2, <2>2 DEF Alike, CallRecord
  <2> HIDE DEF u
  <2>4. Served(u) /\ Vendor(u) = "yfinance"
    BY <1>1, <1>2, <2>3 DEF Served, YahooAhead, Alike, Vendor
  <2>5. 0 < SearchQueries(u.method)
    BY DEF SearchQueries
  <2>6. Good(u) /\ u.pc \notin Writing
    BY <2>3, <2>4, <2>5 DEF Good, Alike, Loading, Writing, place
  <2>7. Follows(u, r)
    BY <2>3, <2>6 DEF Follows
  <2> QED
    BY <1>3, <2>1, <2>7, FollowingStep
<1> QED
  BY <1>4, <1>5

(* One more failed attempt, in either place where there are attempts.      *)
LEMMA RateLimitedFollows ==
  ASSUME NEW r, Good(r), r.pc \in {"ask", "download"}, Retries(r)
  PROVE  Follows(RateLimited(r), r)
<1> DEFINE u == RateLimited(r)
<1>1. r \in CallRecord /\ Served(r)
  BY DEF Good
<1>2. r.tries + 1 \in 0..MaxRetries
  <2>1. r.tries \in 0..MaxRetries
    BY <1>1 DEF CallRecord
  <2> QED
    BY <2>1, RoutingAssumption DEF Retries
<1>3. u = [r EXCEPT !.tries = r.tries + 1]
  BY DEF RateLimited
<1>4. /\ Alike(u, r) /\ u.pc = r.pc /\ u.day = r.day /\ u.queries = r.queries
      /\ u.download = r.download
  BY <1>1, <1>2, <1>3 DEF Alike, CallRecord
<1> HIDE DEF u
<1>5. Served(u) /\ Vendor(u) = Vendor(r)
  BY <1>1, <1>4 DEF Served, YahooAhead, Alike, Vendor
<1>6. CASE r.pc = "ask"
  <2>1. /\ r.method # "get_indicators" /\ Vendor(r) = "yfinance"
        /\ r.queries < SearchQueries(r.method)
    BY <1>6 DEF Good
  <2>2. Good(u) /\ u.pc \notin Writing
    BY <1>4, <1>5, <1>6, <2>1 DEF Good, Alike, Loading, Writing
  <2> QED
    BY <1>4, <2>2 DEF Follows, u
<1>7. CASE r.pc = "download"
  <2>1. r.method = "get_indicators"
    BY <1>7 DEF Good, Loading
  <2>2. Good(u) /\ u.pc \notin Writing
    BY <1>4, <1>5, <1>7, <2>1 DEF Good, Alike, Loading, Writing
  <2> QED
    BY <1>4, <2>2 DEF Follows, u
<1> QED
  BY <1>6, <1>7

LEMMA YahooRequestKeeps ==
  ASSUME IInv, NEW c \in Calls, YahooRequest(c)
  PROVE  IInv'
<1> DEFINE r == call[c]
           u == [r EXCEPT !.tries = 0, !.queries = @ + 1]
<1>1. r.pc = "ask" /\ r.pc \notin Writing /\ UNCHANGED <<config, file, kills, mishaps>>
  BY DEF YahooRequest, Writing
<1>2. r \in CallRecord /\ Good(r) /\ Served(r)
  BY <1>1, CallIsGood
<1>3. /\ r.method # "get_indicators" /\ Vendor(r) = "yfinance"
      /\ r.queries < SearchQueries(r.method)
  BY <1>1, <1>2 DEF Good
<1>4. CASE Retries(r) /\ Becomes(c, RateLimited(r))
  <2>1. Follows(RateLimited(r), r)
    BY <1>1, <1>2, <1>4, RateLimitedFollows
  <2> QED
    BY <1>1, <1>4, <2>1, FollowingStep
<1>5. ASSUME NEW answer \in YahooAnswers, NEW outcome \in YFinance(r.method, r.input, answer),
             \/ Becomes(c, Finished(u, outcome))
             \/ u.queries < SearchQueries(u.method) /\ Becomes(c, u)
      PROVE  IInv'
  <2>1. r.queries + 1 \in 0..4
    <3>1. r.queries \in 0..4 /\ SearchQueries(r.method) \in {1, 4}
      BY <1>2 DEF CallRecord, SearchQueries
    <3> QED
      BY <3>1, <1>3
  <2>2. u = [r EXCEPT !.tries = 0, !.queries = r.queries + 1]
    OBVIOUS
  <2>3. 0 \in 0..MaxRetries
    BY RoutingAssumption
  <2>4. /\ Alike(u, r) /\ u.pc = r.pc /\ u.day = r.day /\ u.download = r.download
        /\ u.input = r.input
    BY <1>2, <2>1, <2>2, <2>3 DEF Alike, CallRecord
  <2>5. Served(u) /\ Vendor(u) = Vendor(r)
    BY <1>2, <2>4 DEF Served, YahooAhead, Alike, Vendor
  <2>6. u.method = r.method /\ u.method \in Methods /\ u.input \in Inputs
    BY <2>4 DEF Alike, CallRecord
  <2>7. CASE Becomes(c, Finished(u, outcome))
    <3> HIDE DEF u
    <3>1. /\ outcome \in Texts \cup Errors
          /\ outcome \notin Texts => u.method = "get_stock_data"
      BY <1>3, <1>5, <2>4, <2>6, YahooOutcomes
    <3>2. Follows(Finished(u, outcome), u)
      BY <2>5, <3>1, FinishedFollows DEF MayFail
    <3>3. Follows(Finished(u, outcome), r)
      BY <2>4, <3>2 DEF Follows
    <3> QED
      BY <1>1, <2>7, <3>3, FollowingStep
  <2>8. CASE u.queries < SearchQueries(u.method) /\ Becomes(c, u)
    <3> HIDE DEF u
    <3>1. Good(u) /\ u.pc \notin Writing
      BY <1>1, <1>3, <2>4, <2>5, <2>6, <2>8 DEF Good, Alike, Loading, Writing
    <3>2. Follows(u, r)
      BY <2>4, <3>1 DEF Follows
    <3> QED
      BY <1>1, <2>8, <3>2, FollowingStep
  <2> QED
    BY <1>5, <2>7, <2>8
<1> QED
  BY <1>4, <1>5 DEF YahooRequest

LEMMA LookForFileKeeps ==
  ASSUME IInv, NEW c \in Calls, LookForFile(c)
  PROVE  IInv'
<1> DEFINE r == call[c]
           place == IF file = NoFile THEN "download" ELSE "read"
           u == [r EXCEPT !.pc = place]
<1>1. r.pc = "look" /\ r.pc \notin Writing /\ UNCHANGED <<config, file, kills, mishaps>>
  BY DEF LookForFile, Writing
<1>2. r \in CallRecord /\ Good(r) /\ Served(r) /\ r.method = "get_indicators"
  BY <1>1, CallIsGood DEF Good, Loading
<1>3. CASE r.input = "unsafe ticker"
  <2>1. Follows(Failed(r), r)
    BY <1>2, FailedFollows
  <2> QED
    BY <1>1, <1>3, <2>1, FollowingStep DEF LookForFile
<1>4. CASE r.input # "unsafe ticker"
  <2>1. Becomes(c, u)
    BY <1>4 DEF LookForFile
  <2>2. place \in {"download", "read"}
    OBVIOUS
  <2> HIDE DEF place
  <2>3. Alike(u, r) /\ u.day = r.day /\ u.date = r.date /\ u.pc = place /\ u.download = r.download
    BY <1>2, <2>2 DEF Alike, CallRecord, Places, Loading
  <2> HIDE DEF u
  <2>4. Good(u)
    BY <1>2, <2>2, <2>3, AlikeFollows DEF Served
  <2>5. Follows(u, r)
    BY <2>2, <2>3, <2>4 DEF Follows, Writing
  <2> QED
    BY <1>1, <2>1, <2>5, FollowingStep
<1> QED
  BY <1>3, <1>4

LEMMA ReadFileKeeps ==
  ASSUME IInv, NEW c \in Calls, ReadFile(c)
  PROVE  IInv'
<1> DEFINE r == call[c]
           disturbed == r.disturbed \/ OthersWriting(c)
           u == [r EXCEPT !.disturbed = disturbed]
<1>1. r.pc = "read" /\ r.pc \notin Writing /\ UNCHANGED <<config, file, kills, mishaps>>
  BY DEF ReadFile, Writing
<1>2. r \in CallRecord /\ Good(r) /\ Served(r) /\ r.method = "get_indicators"
  BY <1>1, CallIsGood DEF Good, Loading
<1>3. \/ Becomes(c, Failed(u))
      \/ \E table \in RowsOf(file) : \E v \in Used(u, table) : Becomes(c, v)
  BY DEF ReadFile
<1>4. disturbed \in BOOLEAN
  BY DEF OthersWriting
<1> HIDE DEF disturbed
<1>5. Alike(u, r) /\ u.day = r.day /\ u.date = r.date /\ u.download = r.download
  BY <1>2, <1>4 DEF Alike, CallRecord
<1> HIDE DEF u
<1>6. Served(u) /\ u.method = "get_indicators"
  BY <1>2, <1>5 DEF Served, YahooAhead, Alike
<1>7. \A v : Follows(v, u) => Follows(v, r)
  BY <1>5 DEF Follows
<1>8. CASE Becomes(c, Failed(u))
  BY <1>1, <1>6, <1>7, <1>8, FailedFollows, FollowingStep
<1>9. ASSUME NEW table \in RowsOf(file), NEW v \in Used(u, table), Becomes(c, v)
      PROVE  IInv'
  BY <1>1, <1>6, <1>7, <1>9, UsedFollows, FollowingStep
<1> QED
  BY <1>3, <1>8, <1>9

(* The call opens the file next, with a download in hand.                  *)
LEMMA DownloadKeeps ==
  ASSUME IInv, NEW c \in Calls, Download(c)
  PROVE  IInv'
<1> DEFINE r == call[c]
<1>1. r.pc = "download" /\ r.pc \notin Writing /\ UNCHANGED <<config, file, kills>>
  BY DEF Download, Writing
<1>2. r \in CallRecord /\ Good(r) /\ Served(r) /\ r.method = "get_indicators"
  BY <1>1, CallIsGood DEF Good, Loading
<1>3. CASE Retries(r) /\ Becomes(c, RateLimited(r)) /\ UNCHANGED mishaps
  BY <1>1, <1>2, <1>3, RateLimitedFollows, FollowingStep
<1>4. CASE Becomes(c, Failed(r)) /\ UNCHANGED mishaps
  BY <1>1, <1>2, <1>4, FailedFollows, FollowingStep
<1>5. ASSUME NEW data \in {"full", "empty"},
             Becomes(c, [r EXCEPT !.pc = "open", !.tries = 0, !.download = data]),
             mishaps' = IF data = "empty" THEN mishaps \cup {"empty download"} ELSE mishaps
      PROVE  IInv'
  <2> DEFINE u == [r EXCEPT !.pc = "open", !.tries = 0, !.download = data]
  <2>1. 0 \in 0..MaxRetries
    BY RoutingAssumption
  <2>2. Alike(u, r) /\ u.day = r.day /\ u.date = r.date /\ u.pc = "open" /\ u.download = data
    BY <1>2, <2>1 DEF Alike, CallRecord, Places, Loading
  <2>3. Becomes(c, u)
    BY <1>5
  <2> HIDE DEF u
  <2>4. Good(u) /\ u.pc \notin Writing
    BY <1>2, <2>2, AlikeFollows DEF Served, Writing
  <2>5. /\ mishaps' \subseteq MishapKinds
        /\ mishaps' = {} => mishaps = {} /\ u.download # "empty"
    BY <1>5, <2>2 DEF IInv, MishapKinds
  <2> QED
    BY <1>1, <2>3, <2>4, <2>5, QuietStep
<1> QED
  BY <1>3, <1>4, <1>5 DEF Download

(* A thread that opens the file will write all of it.                      *)
LEMMA OpenFileKeeps ==
  ASSUME IInv, NEW c \in Calls, OpenFile(c)
  PROVE  IInv'
<1> DEFINE r == call[c]
           u == [r EXCEPT !.pc = "write"]
<1>1. r.pc = "open" /\ file' = {} /\ Becomes(c, u) /\ UNCHANGED <<config, kills, mishaps>>
  BY DEF OpenFile
<1>2. r \in CallRecord /\ Good(r) /\ Served(r) /\ r.method = "get_indicators" /\ r.download # ""
  BY <1>1, CallIsGood DEF Good, Loading
<1>3. Alike(u, r) /\ u.day = r.day /\ u.pc = "write" /\ u.download = r.download
  BY <1>2 DEF Alike, CallRecord, Places, Loading
<1> HIDE DEF u
<1>4. Served(u)
  BY <1>2, <1>3 DEF Served, YahooAhead, Alike
<1>5. Good(u)
  BY <1>2, <1>3, <1>4 DEF Good, Alike, Loading, Writing
<1>6. CallsGood /\ FileSound /\ mishaps' \subseteq MishapKinds
  BY <1>1, InvParts DEF CallsGood
<1>7. CallsGood' /\ call'[c] = u /\ \A d \in Calls \ {c} : call'[d] = call[d]
  BY <1>1, <1>5, <1>6, Became
<1>8. file' \in Files /\ file' # NoFile
  BY <1>1 DEF Files, NoFile
<1>9. mishaps' = {} => \A d \in Calls : call'[d].download # "empty"
  BY <1>1, <1>3, <1>6, <1>7 DEF FileSound
<1>10. FileSound'
  BY <1>3, <1>7, <1>8, <1>9 DEF FileSound
<1> QED
  BY <1>7, <1>8, <1>10, InvParts

LEMMA WriteFirstPartKeeps ==
  ASSUME IInv, NEW c \in Calls, WriteFirstPart(c)
  PROVE  IInv'
<1> DEFINE r == call[c]
           u == [r EXCEPT !.pc = "rest"]
<1>1. /\ r.pc = "write" /\ file' = file \cup FirstPart(r.download)
      /\ Becomes(c, u) /\ UNCHANGED <<config, kills, mishaps>>
  BY DEF WriteFirstPart
<1>2. r \in CallRecord /\ Good(r) /\ Served(r) /\ r.method = "get_indicators" /\ r.download # ""
  BY <1>1, CallIsGood DEF Good, Loading, Writing
<1>3. Alike(u, r) /\ u.day = r.day /\ u.pc = "rest" /\ u.download = r.download
  BY <1>2 DEF Alike, CallRecord, Places, Loading
<1> HIDE DEF u
<1>4. Served(u)
  BY <1>2, <1>3 DEF Served, YahooAhead, Alike
<1>5. Good(u)
  BY <1>2, <1>3, <1>4 DEF Good, Alike, Loading, Writing
<1>6. CallsGood /\ file \in Files /\ FileSound /\ mishaps' \subseteq MishapKinds
  BY <1>1, InvParts DEF CallsGood
<1>7. CallsGood' /\ call'[c] = u /\ \A d \in Calls \ {c} : call'[d] = call[d]
  BY <1>1, <1>5, <1>6, Became
<1>8. FirstPart(r.download) \subseteq Parts /\ FirstPart(r.download) # {}
  BY DEF FirstPart, Parts, Complete
<1>9. file \in SUBSET Parts
  <2>1. file # NoFile
    BY <1>1, <1>6 DEF FileSound, Writing
  <2> QED
    BY <1>6, <2>1 DEF Files
<1>10. file' \in Files /\ file' # NoFile
  BY <1>1, <1>8, <1>9 DEF Files, NoFile, Parts, Complete
<1>11. ASSUME mishaps' = {}
       PROVE  /\ \A d \in Calls : call'[d].download # "empty"
              /\ "header" \in file' /\ "old" \in file'
  <2>1. \A d \in Calls : call[d].download # "empty"
    BY <1>1, <1>6, <1>11 DEF FileSound
  <2>2. FirstPart(r.download) = {"header", "old"} \cup IF "recent" \in file THEN {} ELSE {"cut row"}
    BY <2>1 DEF FirstPart
  <2> QED
    BY <1>1, <1>3, <1>7, <2>1, <2>2
<1>12. FileSound'
  BY <1>3, <1>7, <1>10, <1>11 DEF FileSound
<1> QED
  BY <1>7, <1>10, <1>12, InvParts

(* The file is complete now, unless another thread is still to write.      *)
LEMMA WriteRestKeeps ==
  ASSUME IInv, NEW c \in Calls, WriteRest(c)
  PROVE  IInv'
<1> DEFINE r == call[c]
           v == [r EXCEPT !.download = ""]
<1>1. /\ r.pc = "rest" /\ UNCHANGED <<config, kills, mishaps>>
      /\ file' = IF r.download = "empty" THEN file ELSE (file \ {"cut row"}) \cup {"recent"}
  BY DEF WriteRest
<1>2. r \in CallRecord /\ Good(r) /\ Served(r) /\ r.method = "get_indicators"
  BY <1>1, CallIsGood DEF Good, Loading, Writing
<1>3. PICK table : \E u \in Used(v, table) : Becomes(c, u)
  BY DEF WriteRest
<1>4. PICK u \in Used(v, table) : Becomes(c, u)
  BY <1>3
<1>5. Alike(v, r) /\ v.day = r.day /\ v.download = ""
  BY <1>2 DEF Alike, CallRecord
<1> HIDE DEF v
<1>6. Served(v) /\ v.method = "get_indicators"
  BY <1>2, <1>5 DEF Served, YahooAhead, Alike
<1>7. Good(u) /\ u.pc \notin Writing /\ u.download = ""
  BY <1>4, <1>5, <1>6, UsedFollows DEF Follows
<1>8. CallsGood /\ file \in Files /\ FileSound /\ mishaps' \subseteq MishapKinds
  BY <1>1, InvParts DEF CallsGood
<1>9. CallsGood' /\ call'[c] = u /\ \A d \in Calls \ {c} : call'[d] = call[d]
  BY <1>1, <1>4, <1>7, <1>8, Became
<1>10. file # NoFile
  BY <1>1, <1>8 DEF FileSound, Writing
<1>11. file' \in Files /\ file' # NoFile
  BY <1>1, <1>8, <1>10 DEF Files, NoFile, Parts, Complete
<1>12. ASSUME mishaps' = {}
       PROVE  /\ \A d \in Calls : call'[d].download # "empty"
              /\ \/ \E w \in Calls : call'[w].pc = "write"
                 \/ /\ "header" \in file' /\ "old" \in file'
                    /\ "recent" \in file' /\ "cut row" \notin file'
  <2>1. /\ \A d \in Calls : call[d].download # "empty"
        /\ \/ \E w \in Calls : call[w].pc = "write"
           \/ "header" \in file /\ "old" \in file
    BY <1>1, <1>8, <1>10, <1>12 DEF FileSound
  <2>2. \A d \in Calls : call'[d].download # "empty"
    BY <1>7, <1>9, <2>1
  <2>3. CASE \E w \in Calls : call[w].pc = "write"
    BY <1>1, <1>9, <2>2, <2>3
  <2>4. CASE "header" \in file /\ "old" \in file
    BY <1>1, <2>1, <2>2, <2>4
  <2> QED
    BY <2>1, <2>3, <2>4
<1>13. FileSound'
  BY <1>11, <1>12 DEF FileSound
<1> QED
  BY <1>9, <1>11, <1>13, InvParts

LEMMA WriteFailsKeeps ==
  ASSUME IInv, NEW c \in Calls, WriteFails(c)
  PROVE  IInv'
<1> DEFINE r == call[c]
           v == [r EXCEPT !.download = ""]
           u == Failed(v)
<1>1. /\ r.pc \in {"open"} \cup Writing /\ UNCHANGED <<config, file, kills>>
      /\ mishaps' = IF r.pc = "open" THEN mishaps ELSE mishaps \cup {"write cut off"}
      /\ Becomes(c, u)
  BY DEF WriteFails
<1>2. r \in CallRecord /\ Good(r) /\ Served(r) /\ r.method = "get_indicators"
  BY <1>1, CallIsGood DEF Good, Loading, Writing
<1>3. Alike(v, r) /\ v.day = r.day /\ v.download = ""
  BY <1>2 DEF Alike, CallRecord
<1> HIDE DEF v
<1>4. Served(v) /\ v.method = "get_indicators"
  BY <1>2, <1>3 DEF Served, YahooAhead, Alike
<1>5. Good(u) /\ u.pc \notin Writing /\ u.download = ""
  BY <1>3, <1>4, FailedFollows DEF Follows
<1> HIDE DEF u
<1>6. CallsGood /\ file \in Files /\ FileSound /\ mishaps' \subseteq MishapKinds
  BY <1>1, InvParts DEF CallsGood, MishapKinds
<1>7. CASE r.pc = "open"
  <2>1. r.pc \notin Writing /\ u.download # "empty" /\ mishaps' = mishaps
    BY <1>1, <1>5, <1>7 DEF Writing
  <2> QED
    BY <1>1, <1>5, <1>6, <2>1, QuietStep
<1>8. CASE r.pc \in Writing
  <2>1. CallsGood' /\ call'[c] = u /\ \A d \in Calls \ {c} : call'[d] = call[d]
    BY <1>1, <1>5, <1>6, Became
  <2>2. mishaps' # {} /\ file' # NoFile
    BY <1>1, <1>6, <1>8 DEF FileSound, Writing
  <2>3. FileSound'
    BY <2>2 DEF FileSound
  <2> QED
    BY <1>1, <1>6, <2>1, <2>3, InvParts
<1> QED
  BY <1>1, <1>7, <1>8

LEMMA SetConfigKeeps ==
  ASSUME IInv, SetConfig
  PROVE  IInv'
<1>1. config' \in Configs /\ UNCHANGED <<file, call, kills, mishaps>>
  BY DEF SetConfig
<1>2. CallsGood /\ file \in Files /\ FileSound
  BY InvParts
<1>3. CallsGood'
  BY <1>1, <1>2 DEF CallsGood, Good, Served, YahooAhead, MayFail, Vendor
<1>4. FileSound'
  BY <1>1, <1>2 DEF FileSound
<1> QED
  BY <1>1, <1>2, <1>3, <1>4, InvParts

(* A call that has not begun.                                              *)
LEMMA IdleIsGood ==
  ASSUME NEW q, q.method \in Methods, q.input \in Inputs, q.date \in 0..Today
  PROVE  Good(Idle(q)) /\ Idle(q).pc = "idle" /\ Idle(q).download = ""
<1> DEFINE u == Idle(q)
           nobody == <<>>
           nothing == [d \in Days |-> ""]
<1>1. q.date \in Days
  BY RoutingAssumption DEF Days
<1>2. 0 \in 0..MaxRetries
  BY RoutingAssumption
<1>3. nothing \in [Days -> Values]
  BY DEF Values
<1>4. nobody \in Seq(Names)
  OBVIOUS
<1>5. u = [pc |-> "idle", method |-> q.method, input |-> q.input, date |-> q.date,
           chain |-> nobody, at |-> 1, queries |-> 0, tries |-> 0,
           bulk |-> TRUE, day |-> q.date, download |-> "",
           values |-> nothing, answer |-> "", disturbed |-> FALSE]
  BY DEF Idle
<1> HIDE DEF u, nobody, nothing
<1>6. 1 \in Nat /\ 0 \in 0..4 /\ "idle" \in Places
  BY DEF Places
<1>7. /\ u \in CallRecord
      /\ u.pc = "idle" /\ u.at = 1 /\ u.day = u.date /\ u.queries = 0 /\ u.download = ""
  BY <1>1, <1>2, <1>3, <1>4, <1>5, <1>6 DEF CallRecord
<1>8. Good(u)
  BY <1>7 DEF Good, Loading, Writing
<1> QED
  BY <1>7, <1>8 DEF u

LEMMA KillKeeps ==
  ASSUME IInv, Kill
  PROVE  IInv'
<1>1. /\ kills < MaxKills /\ kills' = kills + 1 /\ UNCHANGED <<config, file>>
      /\ call' = [c \in Calls |-> Idle(call[c])]
      /\ mishaps' = IF \E c \in Calls : call[c].pc \in Writing
                    THEN mishaps \cup {"write cut off"} ELSE mishaps
  BY DEF Kill
<1>2. CallsGood /\ file \in Files /\ FileSound
  BY InvParts
<1>3. \A c \in Calls : Good(call'[c]) /\ call'[c].pc = "idle" /\ call'[c].download = ""
  <2>1. \A c \in Calls : call[c].method \in Methods /\ call[c].input \in Inputs
                         /\ call[c].date \in 0..Today
    BY CallIsGood DEF CallRecord
  <2> QED
    BY <1>1, <2>1, IdleIsGood
<1>4. call' \in [Calls -> CallRecord]
  BY <1>1, <1>3 DEF Good
<1>5. \A c \in Calls : Good(call[c])'
  BY <1>3 DEF Good, Served, YahooAhead, MayFail, Vendor
<1>6. kills' \in 0..MaxKills
  <2>1. kills \in 0..MaxKills
    BY <1>2 DEF CallsGood
  <2>2. MaxKills \in Nat
    BY RoutingAssumption
  <2>3. kills < MaxKills /\ kills' = kills + 1
    BY DEF Kill
  <2> QED
    BY <2>1, <2>2, <2>3
<1>7. CallsGood'
  BY <1>1, <1>2, <1>4, <1>5, <1>6 DEF CallsGood, MishapKinds
<1>8. ASSUME mishaps' = {}
      PROVE  file' = NoFile \/ ("header" \in file' /\ "old" \in file' /\
                                "recent" \in file' /\ "cut row" \notin file')
  BY <1>1, <1>2, <1>8 DEF FileSound, Writing
<1>9. FileSound'
  BY <1>3, <1>8 DEF FileSound, Writing
<1> QED
  BY <1>1, <1>2, <1>7, <1>9, InvParts

-----------------------------------------------------------------------------
(* The invariant is inductive.                                             *)
LEMMA InitGood == Init => IInv
<1> SUFFICES ASSUME Init PROVE IInv
  OBVIOUS
<1>1. PICK q \in [Calls -> UNION {Requests[c] : c \in Calls}] :
        /\ \A c \in Calls : q[c] \in Requests[c]
        /\ call = [c \in Calls |-> Idle(q[c])]
  BY DEF Init
<1>2. \A c \in Calls : q[c] \in [method : Methods, input : Inputs, date : 0..Today]
  BY <1>1, RoutingAssumption
<1>3. \A c \in Calls : Good(call[c]) /\ call[c].pc = "idle" /\ call[c].download = ""
  BY <1>1, <1>2, IdleIsGood
<1>4. call \in [Calls -> CallRecord]
  BY <1>1, <1>3 DEF Good
<1>5. CallsGood
  <2>1. 0 \in 0..MaxKills
    BY RoutingAssumption
  <2> QED
    BY <1>3, <1>4, <2>1 DEF Init, CallsGood
<1>6. file \in Files /\ FileSound
  BY <1>3 DEF Init, FileSound, Files, Writing
<1> QED
  BY <1>5, <1>6, InvParts

LEMMA StepKeeps ==
  ASSUME IInv, NEW c \in Calls, Step(c)
  PROVE  IInv'
<1>1. CASE RouteToVendor(c)
  BY <1>1, RouteToVendorKeeps
<1>2. CASE SkipUnknownVendor(c)
  BY <1>2, SkipUnknownVendorKeeps
<1>3. CASE AskAlphaVantage(c)
  BY <1>3, AskAlphaVantageKeeps
<1>4. CASE AskYahoo(c)
  BY <1>4, AskYahooKeeps
<1>5. CASE YahooRequest(c)
  BY <1>5, YahooRequestKeeps
<1>6. CASE LookForFile(c)
  BY <1>6, LookForFileKeeps
<1>7. CASE ReadFile(c)
  BY <1>7, ReadFileKeeps
<1>8. CASE Download(c)
  BY <1>8, DownloadKeeps
<1>9. CASE OpenFile(c)
  BY <1>9, OpenFileKeeps
<1>10. CASE WriteFirstPart(c)
  BY <1>10, WriteFirstPartKeeps
<1>11. CASE WriteRest(c)
  BY <1>11, WriteRestKeeps
<1>12. CASE WriteFails(c)
  BY <1>12, WriteFailsKeeps
<1> QED
  BY <1>1, <1>2, <1>3, <1>4, <1>5, <1>6, <1>7, <1>8, <1>9, <1>10, <1>11, <1>12 DEF Step

LEMMA NextKeeps == IInv /\ [Next]_vars => IInv'
<1> SUFFICES ASSUME IInv, [Next]_vars PROVE IInv'
  OBVIOUS
<1>1. CASE \E c \in Calls : Step(c)
  BY <1>1, StepKeeps
<1>2. CASE SetConfig
  BY <1>2, SetConfigKeeps
<1>3. CASE Kill
  BY <1>3, KillKeeps
<1>4. CASE UNCHANGED vars
  <2>1. UNCHANGED <<config, file, call, kills, mishaps>>
    BY <1>4 DEF vars
  <2>2. CallsGood /\ file \in Files /\ FileSound
    BY InvParts
  <2>3. CallsGood'
    BY <2>1, <2>2 DEF CallsGood, Good, Served, YahooAhead, MayFail, Vendor
  <2>4. FileSound'
    BY <2>1, <2>2 DEF FileSound
  <2> QED
    BY <2>1, <2>2, <2>3, <2>4, InvParts
<1> QED
  BY <1>1, <1>2, <1>3, <1>4 DEF Next

LEMMA Invariant == Spec => []IInv
BY InitGood, NextKeeps, PTL DEF Spec

-----------------------------------------------------------------------------
(* Every variable keeps its type; so the attempts of yf_retry never exceed *)
(* their number, nor the searches theirs, for any number of threads.       *)
THEOREM TypeCorrect == Spec => []TypeOK
<1>1. IInv => TypeOK
  BY DEF IInv, TypeOK
<1> QED
  BY <1>1, Invariant, PTL

(* route_to_vendor never runs out of vendors, whatever a configuration     *)
(* names, and although another graph changes it while calls are routed.    *)
THEOREM AlwaysSomeVendor == Spec => []SomeVendorAnswers
<1>1. IInv => SomeVendorAnswers
  BY DEF IInv, Good, SomeVendorAnswers
<1> QED
  BY <1>1, Invariant, PTL

(* Only prices, and what Alpha Vantage is asked for, can fail a tool; the  *)
(* tool of the indicators never fails.                                     *)
THEOREM ToolsNeverSilent == Spec => []ToolsAnswer
<1>1. IInv => ToolsAnswer
  BY DEF IInv, Good, MayFail, ToolsAnswer
<1> QED
  BY <1>1, Invariant, PTL

(* Any number of threads that write the price file at the same time leave  *)
(* it complete once the last is done, when no download was empty and no    *)
(* write was cut off.                                                      *)
THEOREM FileSettles == Spec => []CacheSettles
<1>1. IInv => CacheSettles
  <2> SUFFICES ASSUME IInv, mishaps = {}, \A c \in Calls : call[c].pc \notin Writing
               PROVE  file \in {NoFile, Complete}
    BY DEF CacheSettles
  <2>1. file \in Files /\ FileSound
    BY InvParts
  <2>2. file = NoFile \/ ("header" \in file /\ "old" \in file /\
                          "recent" \in file /\ "cut row" \notin file)
    BY <2>1 DEF FileSound, Writing
  <2> QED
    BY <2>1, <2>2 DEF Files, Parts, Complete
<1> QED
  BY <1>1, Invariant, PTL

-----------------------------------------------------------------------------
(* What the model is told of the days.                                     *)
(*                                                                         *)
(* A value is computed of a table that is whole, unless something has      *)
(* happened to the file; and all days at once only while none has been     *)
(* computed alone.                                                         *)
Truth(d) == IF d \in TradingDays THEN "right" ELSE "not a trading day"

ValuesSound(r) == \A d \in Window(r) : r.values[d] \in {"", Truth(d)}

DayKnown(r) == r.bulk => r.day = r.date

Explained ==
  \A c \in Calls :
    /\ DayKnown(call[c])
    /\ call[c].pc = "read" => file # NoFile
    /\ mishaps = {} /\ ~call[c].disturbed => ValuesSound(call[c])

Whole == [right |-> TradingDays, false |-> {}]

LEMMA WindowInDays == ASSUME NEW r, r.date \in 0..Today PROVE Window(r) \subseteq Days
<1> DEFINE date == r.date
<1>1. date \in 0..Today
  OBVIOUS
<1> HIDE DEF date
<1>2. (date - LookBackDays)..date \subseteq (0 - LookBackDays)..Today
  BY <1>1, RoutingAssumption
<1> QED
  BY <1>2 DEF date, Window, Days

LEMMA WholeTable == RowsOf(Complete) = {Whole}
<1>1. OldDays \cup (TradingDays \ OldDays) = TradingDays
  BY RoutingAssumption
<1>2. "old" \in Complete /\ "recent" \in Complete /\ "cut row" \notin Complete
  BY DEF Complete
<1> QED
  BY <1>1, <1>2 DEF RowsOf, Whole, RecentDays

LEMMA ValueOfWhole ==
  ASSUME NEW day \in Int, NEW d \in Int, d <= day
  PROVE  IndicatorValue(RowsUpTo(Whole, day), d) = Truth(d)
<1> DEFINE rows == RowsUpTo(Whole, day)
<1>1. rows.right = {e \in TradingDays : e <= day} /\ rows.false = {}
  BY DEF RowsUpTo, Whole
<1>2. \A e \in TradingDays : e \in Int
  BY RoutingAssumption
<1>3. \A e \in TradingDays : e <= d => e \in rows.right
  BY <1>1, <1>2
<1>4. d \in rows.right \cup rows.false <=> d \in TradingDays
  BY <1>1
<1> HIDE DEF rows
<1>5. IndicatorValue(rows, d) = Truth(d)
  BY <1>1, <1>3, <1>4 DEF IndicatorValue, Truth
<1> QED
  BY <1>5 DEF rows

(* u says of the days what r says, or less.                                *)
Like(u, r) ==
  /\ u.date = r.date
  /\ u.bulk => r.bulk /\ u.day = r.day
  /\ u.disturbed = r.disturbed
  /\ u.pc = "read" => r.pc = "read"
  /\ \A d \in Window(r) : u.values[d] \in {"", r.values[d]}

LEMMA LikeKnown ==
  ASSUME NEW u, NEW r, Like(u, r), DayKnown(r)
  PROVE  /\ DayKnown(u) /\ u.disturbed = r.disturbed
         /\ u.pc = "read" => r.pc = "read"
         /\ ValuesSound(r) => ValuesSound(u)
<1>1. DayKnown(u) /\ u.disturbed = r.disturbed /\ (u.pc = "read" => r.pc = "read")
  BY DEF Like, DayKnown
<1>2. ASSUME ValuesSound(r) PROVE ValuesSound(u)
  <2>1. Window(u) = Window(r)
    BY DEF Like, Window
  <2>2. \A d \in Window(r) : u.values[d] \in {"", r.values[d]} /\ r.values[d] \in {"", Truth(d)}
    BY <1>2 DEF Like, ValuesSound
  <2> QED
    BY <2>1, <2>2 DEF ValuesSound
<1> QED
  BY <1>1, <1>2

LEMMA NextDayLike ==
  ASSUME NEW r \in CallRecord
  PROVE  /\ NextDay(r).date = r.date /\ NextDay(r).bulk = r.bulk
         /\ NextDay(r).bulk => NextDay(r).day = r.day
         /\ NextDay(r).disturbed = r.disturbed /\ NextDay(r).values = r.values
         /\ NextDay(r).pc # "read"
BY DEF NextDay, CallRecord

LEMMA FailedLike ==
  ASSUME NEW r \in CallRecord
  PROVE  Like(Failed(r), r) /\ Failed(r).pc # "read"
<1>1. CASE r.bulk
  <2> DEFINE u == [r EXCEPT !.pc = "look", !.bulk = FALSE, !.tries = 0]
  <2>1. /\ u.date = r.date /\ u.bulk = FALSE /\ u.disturbed = r.disturbed
        /\ u.values = r.values /\ u.pc = "look"
    BY DEF CallRecord
  <2> HIDE DEF u
  <2>2. Like(u, r) /\ u.pc # "read"
    BY <2>1 DEF Like
  <2>3. Failed(r) = u
    BY <1>1 DEF Failed, u
  <2> QED
    BY <2>2, <2>3
<1>2. CASE ~r.bulk
  <2> DEFINE values == [r.values EXCEPT ![r.day] = ""]
             v == [r EXCEPT !.values = values, !.tries = 0]
             u == NextDay(v)
  <2>1. r.values \in [Days -> Values] /\ r.date \in 0..Today
    BY DEF CallRecord
  <2>2. values \in [Days -> Values] /\ \A d \in Days : values[d] \in {"", r.values[d]}
    BY <2>1 DEF Values
  <2> HIDE DEF values
  <2>3. 0 \in 0..MaxRetries
    BY RoutingAssumption
  <2>4. /\ v \in CallRecord /\ v.date = r.date /\ v.bulk = r.bulk /\ v.disturbed = r.disturbed
        /\ v.values = values
    BY <2>2, <2>3 DEF CallRecord
  <2>5. Failed(r) = u
    BY <1>2 DEF Failed, values
  <2> HIDE DEF v
  <2>6. /\ u.date = r.date /\ u.bulk = r.bulk /\ u.disturbed = r.disturbed
        /\ u.values = values /\ u.pc # "read"
    BY <2>4, NextDayLike
  <2>7. Window(r) \subseteq Days
    BY <2>1, RoutingAssumption DEF Window, Days
  <2> HIDE DEF u
  <2>8. Like(u, r)
    BY <1>2, <2>2, <2>6, <2>7 DEF Like
  <2> QED
    BY <2>5, <2>6, <2>8
<1> QED
  BY <1>1, <1>2

(* What is computed of a table, and what of a whole one.                   *)
LEMMA ComputedKnown ==
  ASSUME NEW r \in CallRecord, Served(r), DayKnown(r), NEW table
  PROVE  /\ DayKnown(Computed(r, table)) /\ Computed(r, table).pc # "read"
         /\ Computed(r, table).disturbed = r.disturbed
         /\ table = Whole /\ ValuesSound(r) => ValuesSound(Computed(r, table))
<1> DEFINE rows == RowsUpTo(table, r.day)
           values == [d \in Days |-> IF d \in Window(r) /\ (r.bulk \/ d = r.day)
                                     THEN IndicatorValue(rows, d) ELSE r.values[d]]
           v == [r EXCEPT !.values = values]
           u == NextDay(v)
<1>1. /\ r.values \in [Days -> Values] /\ r.date \in 0..Today /\ r.day \in Days
      /\ r.day <= r.date
  BY DEF CallRecord, Served
<1>2. values \in [Days -> Values]
  <2>1. \A rs, d : IndicatorValue(rs, d) \in Values
    BY DEF IndicatorValue, Values
  <2> HIDE DEF rows
  <2> QED
    BY <1>1, <2>1
<1>3. Window(r) \subseteq Days /\ \A d \in Window(r) : d \in Int /\ d <= r.date
  BY <1>1, RoutingAssumption DEF Window, Days
<1>4. \A d \in Window(r) :
        values[d] = IF r.bulk \/ d = r.day THEN IndicatorValue(rows, d) ELSE r.values[d]
  BY <1>3
<1>5. Computed(r, table) = u
  BY DEF Computed
<1> HIDE DEF values
<1>6. /\ v \in CallRecord /\ v.date = r.date /\ v.bulk = r.bulk /\ v.disturbed = r.disturbed
      /\ v.values = values /\ v.day = r.day
  BY <1>2 DEF CallRecord
<1> HIDE DEF v
<1>7. /\ u.date = r.date /\ u.bulk = r.bulk /\ (u.bulk => u.day = r.day)
      /\ u.disturbed = r.disturbed /\ u.values = values /\ u.pc # "read"
  BY <1>6, NextDayLike
<1> HIDE DEF u
<1>8. DayKnown(u)
  BY <1>7 DEF DayKnown
<1>9. ASSUME table = Whole, ValuesSound(r) PROVE ValuesSound(u)
  <2> SUFFICES ASSUME NEW d \in Window(r) PROVE u.values[d] \in {"", Truth(d)}
    BY <1>7 DEF ValuesSound, Window
  <2>1. CASE r.bulk \/ d = r.day
    <3>1. d \in Int /\ r.day \in Int /\ d <= r.day
      <4>1. r.day \in Int
        BY <1>1, RoutingAssumption DEF Days
      <4>2. r.bulk => r.day = r.date
        BY DEF DayKnown
      <4> QED
        BY <1>3, <2>1, <4>1, <4>2
    <3>2. IndicatorValue(rows, d) = Truth(d)
      BY <1>9, <3>1, ValueOfWhole
    <3> QED
      BY <1>4, <1>7, <2>1, <3>2
  <2>2. CASE ~(r.bulk \/ d = r.day)
    <3>1. u.values[d] = r.values[d]
      BY <1>4, <1>7, <2>2
    <3> QED
      BY <1>9, <3>1 DEF ValuesSound
  <2> QED
    BY <2>1, <2>2
<1> QED
  BY <1>5, <1>7, <1>8, <1>9

LEMMA UsedKnown ==
  ASSUME NEW r \in CallRecord, Served(r), DayKnown(r), NEW table, NEW u \in Used(r, table)
  PROVE  /\ DayKnown(u) /\ u.pc # "read" /\ u.disturbed = r.disturbed
         /\ table = Whole /\ ValuesSound(r) => ValuesSound(u)
<1>1. CASE u = Computed(r, table)
  BY <1>1, ComputedKnown
<1>2. CASE u = Failed(r)
  BY <1>2, FailedLike, LikeKnown
<1> QED
  BY <1>1, <1>2 DEF Used

(* Once there is a file there always is one. *)
LEMMA FileStays ==
  ASSUME IInv, NEW c \in Calls, Step(c)
  PROVE  file # NoFile => file' # NoFile
<1>1. CASE OpenFile(c)
  <2>1. file' = {}
    BY <1>1 DEF OpenFile
  <2> QED
    BY <2>1 DEF NoFile
<1>2. CASE WriteFirstPart(c) \/ WriteRest(c)
  <2> SUFFICES ASSUME file # NoFile PROVE file' # NoFile
    OBVIOUS
  <2>1. file \in SUBSET Parts
    BY DEF IInv, Files
  <2>2. \A data : FirstPart(data) \subseteq Parts
    BY DEF FirstPart, Parts, Complete
  <2>3. "recent" \in Parts /\ "no file" \notin Parts
    BY DEF Parts, Complete
  <2>4. file' \subseteq Parts
    BY <1>2, <2>1, <2>2, <2>3 DEF WriteFirstPart, WriteRest
  <2> QED
    BY <2>3, <2>4 DEF NoFile
<1>3. CASE ~OpenFile(c) /\ ~WriteFirstPart(c) /\ ~WriteRest(c)
  BY <1>3 DEF Step, RouteToVendor, SkipUnknownVendor, AskAlphaVantage, AskYahoo, YahooRequest,
     LookForFile, ReadFile, Download, WriteFails
<1> QED
  BY <1>1, <1>2, <1>3

LEMMA Explains ==
  ASSUME IInv, Explained, NEW c \in Calls, Step(c), NEW u, Becomes(c, u),
         mishaps' = {} => mishaps = {},
         DayKnown(u), u.pc = "read" => file' # NoFile,
         mishaps = {} /\ ~u.disturbed => ValuesSound(u)
  PROVE  Explained'
<1>1. /\ call'[c] = u
      /\ \A d \in Calls \ {c} : call'[d] = call[d]
  BY DEF IInv, Becomes
<1>2. ASSUME NEW d \in Calls
      PROVE  /\ DayKnown(call'[d])
             /\ call'[d].pc = "read" => file' # NoFile
             /\ mishaps' = {} /\ ~call'[d].disturbed => ValuesSound(call'[d])
  <2>1. CASE d = c
    BY <1>1, <2>1
  <2>2. CASE d # c
    <3>1. call'[d] = call[d]
      BY <1>1, <2>2
    <3> QED
      BY <3>1, FileStays DEF Explained
  <2> QED
    BY <2>1, <2>2
<1>3. \A d \in Calls : /\ DayKnown(call[d])' <=> DayKnown(call'[d])
                       /\ ValuesSound(call[d])' <=> ValuesSound(call'[d])
  BY DEF DayKnown, ValuesSound, Window
<1> QED
  BY <1>2, <1>3 DEF Explained

LEMMA LikeStep ==
  ASSUME IInv, Explained, NEW c \in Calls, Step(c), NEW u, Becomes(c, u),
         Like(u, call[c]), mishaps' = {} => mishaps = {}
  PROVE  Explained'
<1>1. DayKnown(call[c])
  BY DEF Explained
<1>2. /\ DayKnown(u) /\ u.disturbed = call[c].disturbed
      /\ u.pc = "read" => call[c].pc = "read"
      /\ ValuesSound(call[c]) => ValuesSound(u)
  BY <1>1, LikeKnown
<1>3. u.pc = "read" => file' # NoFile
  BY <1>2, FileStays DEF Explained
<1> QED
  BY <1>2, <1>3, Explains DEF Explained

(* Most steps change the place and the counters of a call.                 *)
LEMMA SameIsLike ==
  ASSUME NEW u, NEW r, u.date = r.date, u.bulk = r.bulk, u.day = r.day,
         u.disturbed = r.disturbed, u.values = r.values, u.pc = "read" => r.pc = "read"
  PROVE  Like(u, r)
BY DEF Like

LEMMA FinishedLike ==
  ASSUME NEW r \in CallRecord, NEW outcome PROVE Like(Finished(r, outcome), r)
<1> DEFINE u == Finished(r, outcome)
<1>1. /\ u.date = r.date /\ u.bulk = r.bulk /\ u.day = r.day /\ u.disturbed = r.disturbed
      /\ u.values = r.values /\ u.pc # "read"
  BY DEF Finished, CallRecord
<1> QED
  BY <1>1, SameIsLike

LEMMA NextVendorLike == ASSUME NEW r \in CallRecord PROVE Like(NextVendor(r), r)
<1> DEFINE u == NextVendor(r)
<1>1. /\ u.date = r.date /\ u.bulk = r.bulk /\ u.day = r.day /\ u.disturbed = r.disturbed
      /\ u.values = r.values /\ (u.pc = "read" => r.pc = "read")
  BY DEF NextVendor, CallRecord
<1> HIDE DEF u
<1>2. Like(u, r)
  BY <1>1, SameIsLike
<1> QED
  BY <1>2 DEF u

LEMMA RateLimitedLike == ASSUME NEW r \in CallRecord PROVE Like(RateLimited(r), r)
<1> DEFINE u == RateLimited(r)
<1>1. /\ u.date = r.date /\ u.bulk = r.bulk /\ u.day = r.day /\ u.disturbed = r.disturbed
      /\ u.values = r.values /\ u.pc = r.pc
  BY DEF RateLimited, CallRecord
<1> QED
  BY <1>1, SameIsLike

LEMMA RoutingExplained ==
  ASSUME IInv, Explained, NEW c \in Calls,
         RouteToVendor(c) \/ SkipUnknownVendor(c) \/ AskAlphaVantage(c) \/ AskYahoo(c)
  PROVE  Explained'
<1> DEFINE r == call[c]
<1>1. r \in CallRecord /\ Step(c)
  BY DEF IInv, Step
<1>2. UNCHANGED mishaps
  BY DEF RouteToVendor, SkipUnknownVendor, AskAlphaVantage, AskYahoo
<1>3. CASE RouteToVendor(c)
  <2> DEFINE chain == FallbackVendors(config, r.method)
             u == [r EXCEPT !.pc = "route", !.chain = chain]
  <2>1. Becomes(c, u)
    BY <1>3 DEF RouteToVendor
  <2> HIDE DEF chain
  <2>2. /\ u.date = r.date /\ u.bulk = r.bulk /\ u.day = r.day /\ u.disturbed = r.disturbed
        /\ u.values = r.values /\ u.pc = "route"
    BY <1>1 DEF CallRecord
  <2> HIDE DEF u
  <2> QED
    BY <1>1, <1>2, <2>1, <2>2, SameIsLike, LikeStep
<1>4. CASE SkipUnknownVendor(c)
  BY <1>1, <1>2, <1>4, NextVendorLike, LikeStep DEF SkipUnknownVendor
<1>5. CASE AskAlphaVantage(c)
  <2>1. PICK outcome : Becomes(c, IF outcome = "AlphaVantageRateLimitError"
                                  THEN NextVendor(r) ELSE Finished(r, outcome))
    BY <1>5 DEF AskAlphaVantage
  <2> DEFINE u == IF outcome = "AlphaVantageRateLimitError"
                  THEN NextVendor(r) ELSE Finished(r, outcome)
  <2>2. Like(u, r)
    BY <1>1, NextVendorLike, FinishedLike
  <2> QED
    BY <1>1, <1>2, <2>1, <2>2, LikeStep
<1>6. CASE AskYahoo(c)
  <2> DEFINE place == IF r.method = "get_indicators" THEN "look" ELSE "ask"
             u == [r EXCEPT !.pc = place]
  <2>1. Becomes(c, Finished(r, "ValueError")) \/ Becomes(c, u)
    BY <1>6 DEF AskYahoo
  <2>2. place # "read"
    OBVIOUS
  <2> HIDE DEF place
  <2>3. /\ u.date = r.date /\ u.bulk = r.bulk /\ u.day = r.day /\ u.disturbed = r.disturbed
        /\ u.values = r.values /\ u.pc # "read"
    BY <1>1, <2>2 DEF CallRecord
  <2>4. Like(u, r)
    BY <2>3, SameIsLike
  <2> HIDE DEF u
  <2>5. CASE Becomes(c, u)
    BY <1>1, <1>2, <2>4, <2>5, LikeStep
  <2>6. CASE Becomes(c, Finished(r, "ValueError"))
    BY <1>1, <1>2, <2>6, FinishedLike, LikeStep
  <2> QED
    BY <2>1, <2>5, <2>6
<1> QED
  BY <1>3, <1>4, <1>5, <1>6

LEMMA YahooRequestExplained ==
  ASSUME IInv, Explained, NEW c \in Calls, YahooRequest(c) PROVE Explained'
<1> DEFINE r == call[c]
           v == [r EXCEPT !.tries = 0, !.queries = @ + 1]
<1>1. r \in CallRecord /\ Good(r) /\ Step(c) /\ UNCHANGED mishaps /\ r.pc = "ask"
  BY DEF IInv, Step, YahooRequest
<1>2. \/ Becomes(c, RateLimited(r))
      \/ \E outcome : Becomes(c, Finished(v, outcome))
      \/ Becomes(c, v)
  BY DEF YahooRequest
<1>3. /\ v.date = r.date /\ v.bulk = r.bulk /\ v.day = r.day /\ v.disturbed = r.disturbed
      /\ v.values = r.values /\ v.pc = r.pc
  BY <1>1 DEF CallRecord
<1>4. \A outcome : LET u == Finished(v, outcome)
                   IN  /\ u.date = v.date /\ u.bulk = v.bulk /\ u.day = v.day
                       /\ u.disturbed = v.disturbed /\ u.values = v.values /\ u.pc # "read"
  BY <1>1 DEF Finished, CallRecord
<1> HIDE DEF v
<1>5. Like(v, r) /\ \A outcome : Like(Finished(v, outcome), r)
  BY <1>3, <1>4, SameIsLike
<1> QED
  BY <1>1, <1>2, <1>5, RateLimitedLike, LikeStep

LEMMA LookForFileExplained ==
  ASSUME IInv, Explained, NEW c \in Calls, LookForFile(c) PROVE Explained'
<1> DEFINE r == call[c]
           place == IF file = NoFile THEN "download" ELSE "read"
           u == [r EXCEPT !.pc = place]
<1>1. r \in CallRecord /\ Step(c) /\ UNCHANGED <<file, mishaps>>
  BY DEF IInv, Step, LookForFile
<1>2. Becomes(c, Failed(r)) \/ Becomes(c, u)
  BY DEF LookForFile
<1>3. place = "read" => file' # NoFile
  BY <1>1
<1> HIDE DEF place
<1>4. /\ u.date = r.date /\ u.bulk = r.bulk /\ u.day = r.day /\ u.disturbed = r.disturbed
      /\ u.values = r.values /\ u.pc = place
  BY <1>1 DEF CallRecord
<1> HIDE DEF u
<1>5. DayKnown(r) /\ (mishaps = {} /\ ~r.disturbed => ValuesSound(r))
  BY DEF Explained
<1>6. DayKnown(u) /\ (ValuesSound(r) => ValuesSound(u))
  BY <1>4, <1>5 DEF DayKnown, ValuesSound, Window
<1>7. CASE Becomes(c, u)
  BY <1>1, <1>3, <1>4, <1>5, <1>6, <1>7, Explains
<1>8. CASE Becomes(c, Failed(r))
  BY <1>1, <1>8, FailedLike, LikeStep
<1> QED
  BY <1>2, <1>7, <1>8

(* A call that reads the file undisturbed reads the whole table.           *)
LEMMA ReadFileExplained ==
  ASSUME IInv, Explained, NEW c \in Calls, ReadFile(c) PROVE Explained'
<1> DEFINE r == call[c]
           disturbed == r.disturbed \/ OthersWriting(c)
           v == [r EXCEPT !.disturbed = disturbed]
<1>1. /\ r \in CallRecord /\ Good(r) /\ Step(c) /\ UNCHANGED <<file, mishaps>>
      /\ r.pc = "read"
  BY DEF IInv, Step, ReadFile
<1>2. IF "header" \notin file THEN Becomes(c, Failed(v))
      ELSE \E table \in RowsOf(file) : \E u \in Used(v, table) : Becomes(c, u)
  BY DEF ReadFile
<1>3. disturbed \in BOOLEAN /\ (~disturbed => ~r.disturbed /\ ~OthersWriting(c))
  BY <1>1 DEF CallRecord, OthersWriting
<1>4. Served(r)
  BY <1>1 DEF Good
<1> HIDE DEF disturbed
<1>5. /\ v.date = r.date /\ v.bulk = r.bulk /\ v.day = r.day /\ v.disturbed = disturbed
      /\ v.values = r.values /\ v.pc = r.pc /\ v \in CallRecord
      /\ v.method = r.method /\ v.input = r.input /\ v.chain = r.chain /\ v.at = r.at
  BY <1>1, <1>3 DEF CallRecord
<1>6. Served(v)
  BY <1>4, <1>5 DEF Served, YahooAhead
<1> HIDE DEF v
<1>7. DayKnown(v) /\ (mishaps = {} /\ ~v.disturbed => ValuesSound(v))
  BY <1>3, <1>5 DEF Explained, DayKnown, ValuesSound, Window
<1>8. ASSUME mishaps = {}, ~v.disturbed PROVE file = Complete
  <2>1. \A w \in Calls : call[w].pc \notin Writing
    BY <1>1, <1>3, <1>5, <1>8 DEF OthersWriting, Writing
  <2>2. file # NoFile
    BY <1>1 DEF Explained
  <2>3. file \in Files /\ FileSound
    BY InvParts
  <2>4. "header" \in file /\ "old" \in file /\ "recent" \in file /\ "cut row" \notin file
    BY <1>8, <2>1, <2>2, <2>3 DEF FileSound, Writing
  <2> QED
    BY <2>2, <2>3, <2>4 DEF Files, Parts, Complete
<1>9. ASSUME NEW u, Becomes(c, u), DayKnown(u), u.pc # "read", u.disturbed = v.disturbed,
             mishaps = {} /\ ~v.disturbed => ValuesSound(u)
      PROVE  Explained'
  BY <1>1, <1>9, Explains
<1>10. CASE "header" \notin file
  <2> DEFINE u == Failed(v)
  <2>1. Like(u, v) /\ u.pc # "read"
    BY <1>5, FailedLike
  <2>2. Becomes(c, u)
    BY <1>2, <1>10
  <2> HIDE DEF u
  <2> QED
    BY <1>7, <1>9, <2>1, <2>2, LikeKnown
<1>11. CASE "header" \in file
  <2>1. PICK table \in RowsOf(file) : \E u \in Used(v, table) : Becomes(c, u)
    BY <1>2, <1>11
  <2>2. PICK u \in Used(v, table) : Becomes(c, u)
    BY <2>1
  <2>3. mishaps = {} /\ ~v.disturbed => table = Whole
    BY <1>8, <2>1, WholeTable
  <2>4. /\ DayKnown(u) /\ u.pc # "read" /\ u.disturbed = v.disturbed
        /\ table = Whole /\ ValuesSound(v) => ValuesSound(u)
    BY <1>5, <1>6, <1>7, UsedKnown
  <2> QED
    BY <1>7, <1>9, <2>2, <2>3, <2>4
<1> QED
  BY <1>10, <1>11

LEMMA DownloadExplained ==
  ASSUME IInv, Explained, NEW c \in Calls, Download(c) PROVE Explained'
<1> DEFINE r == call[c]
<1>1. r \in CallRecord /\ Step(c) /\ (mishaps' = {} => mishaps = {})
  BY DEF IInv, Step, Download
<1>2. \/ Becomes(c, RateLimited(r))
      \/ Becomes(c, Failed(r))
      \/ \E data : Becomes(c, [r EXCEPT !.pc = "open", !.tries = 0, !.download = data])
  BY DEF Download
<1>3. ASSUME NEW data, Becomes(c, [r EXCEPT !.pc = "open", !.tries = 0, !.download = data])
      PROVE  Explained'
  <2> DEFINE u == [r EXCEPT !.pc = "open", !.tries = 0, !.download = data]
  <2>1. /\ u.date = r.date /\ u.bulk = r.bulk /\ u.day = r.day /\ u.disturbed = r.disturbed
        /\ u.values = r.values /\ u.pc = "open"
    BY <1>1 DEF CallRecord
  <2>2. Becomes(c, u)
    BY <1>3
  <2> HIDE DEF u
  <2> QED
    BY <1>1, <2>1, <2>2, SameIsLike, LikeStep
<1> QED
  BY <1>1, <1>2, <1>3, RateLimitedLike, FailedLike, LikeStep

LEMMA OpenedExplained ==
  ASSUME IInv, Explained, NEW c \in Calls, OpenFile(c) \/ WriteFirstPart(c)
  PROVE  Explained'
<1> DEFINE r == call[c]
<1>1. r \in CallRecord /\ Step(c) /\ UNCHANGED mishaps
  BY DEF IInv, Step, OpenFile, WriteFirstPart
<1>2. PICK place \in {"write", "rest"} : Becomes(c, [r EXCEPT !.pc = place])
  BY DEF OpenFile, WriteFirstPart
<1> DEFINE u == [r EXCEPT !.pc = place]
<1>3. /\ u.date = r.date /\ u.bulk = r.bulk /\ u.day = r.day /\ u.disturbed = r.disturbed
      /\ u.values = r.values /\ u.pc = place
  BY <1>1 DEF CallRecord
<1>4. Becomes(c, u)
  BY <1>2
<1> HIDE DEF u
<1> QED
  BY <1>1, <1>2, <1>3, <1>4, SameIsLike, LikeStep

(* What a call has downloaded it goes on with, whatever is in the file.    *)
LEMMA WriteRestExplained ==
  ASSUME IInv, Explained, NEW c \in Calls, WriteRest(c) PROVE Explained'
<1> DEFINE r == call[c]
           v == [r EXCEPT !.download = ""]
           parts == IF r.download = "empty" THEN {"header"} ELSE Complete
<1>1. /\ r \in CallRecord /\ Good(r) /\ Step(c) /\ UNCHANGED mishaps
      /\ r.pc = "rest"
  BY DEF IInv, Step, WriteRest
<1>2. PICK table \in RowsOf(parts) : \E u \in Used(v, table) : Becomes(c, u)
  BY DEF WriteRest
<1>3. Served(r)
  BY <1>1 DEF Good
<1>4. /\ v.date = r.date /\ v.bulk = r.bulk /\ v.day = r.day /\ v.disturbed = r.disturbed
      /\ v.values = r.values /\ v.pc = r.pc /\ v \in CallRecord
      /\ v.method = r.method /\ v.input = r.input /\ v.chain = r.chain /\ v.at = r.at
  BY <1>1 DEF CallRecord
<1>5. PICK u \in Used(v, table) : Becomes(c, u)
  BY <1>2
<1> HIDE DEF v
<1>6. Served(v)
  BY <1>3, <1>4 DEF Served, YahooAhead
<1>7. DayKnown(v) /\ (mishaps = {} /\ ~v.disturbed => ValuesSound(v))
  BY <1>4 DEF Explained, DayKnown, ValuesSound, Window
<1>8. mishaps = {} => table = Whole
  <2>1. mishaps = {} => r.download # "empty"
    BY InvParts DEF FileSound
  <2> QED
    BY <1>2, <2>1, WholeTable
<1>9. /\ DayKnown(u) /\ u.pc # "read" /\ u.disturbed = v.disturbed
      /\ table = Whole /\ ValuesSound(v) => ValuesSound(u)
  BY <1>4, <1>6, <1>7, UsedKnown
<1> QED
  BY <1>1, <1>5, <1>7, <1>8, <1>9, Explains

LEMMA WriteFailsExplained ==
  ASSUME IInv, Explained, NEW c \in Calls, WriteFails(c) PROVE Explained'
<1> DEFINE r == call[c]
           v == [r EXCEPT !.download = ""]
           u == Failed(v)
<1>1. r \in CallRecord /\ Step(c) /\ (mishaps' = {} => mishaps = {}) /\ Becomes(c, u)
  BY DEF IInv, Step, WriteFails
<1>2. /\ v.date = r.date /\ v.bulk = r.bulk /\ v.day = r.day /\ v.disturbed = r.disturbed
      /\ v.values = r.values /\ v \in CallRecord
  BY <1>1 DEF CallRecord
<1>3. Like(u, v) /\ u.pc # "read"
  BY <1>2, FailedLike
<1> HIDE DEF u, v
<1>4. Like(u, r)
  BY <1>2, <1>3 DEF Like, Window
<1> QED
  BY <1>1, <1>4, LikeStep

(* After a kill nothing has been read and no day computed.                 *)
LEMMA KillExplained == ASSUME IInv, Explained, Kill PROVE Explained'
<1>1. ASSUME NEW c \in Calls
      PROVE  LET r == call'[c]
             IN  DayKnown(r) /\ r.pc = "idle" /\ ValuesSound(r)
  <2> DEFINE u == Idle(call[c])
  <2>1. call[c] \in CallRecord /\ call'[c] = u
    BY DEF IInv, Kill
  <2>2. u.pc = "idle" /\ u.day = u.date /\ u.values = [d \in Days |-> ""] /\ u.date \in 0..Today
    BY <2>1 DEF Idle, CallRecord
  <2> HIDE DEF u
  <2>3. Window(u) \subseteq Days
    BY <2>2, WindowInDays
  <2> QED
    BY <2>1, <2>2, <2>3 DEF DayKnown, ValuesSound
<1>2. \A c \in Calls : /\ DayKnown(call[c])' <=> DayKnown(call'[c])
                       /\ ValuesSound(call[c])' <=> ValuesSound(call'[c])
  BY DEF DayKnown, ValuesSound, Window
<1> QED
  BY <1>1, <1>2 DEF Explained

LEMMA InitExplained == Init => Explained
<1> SUFFICES ASSUME Init, NEW c \in Calls
             PROVE  DayKnown(call[c]) /\ call[c].pc # "read" /\ ValuesSound(call[c])
  BY DEF Explained
<1>1. PICK q : call[c] = Idle(q) /\ q.date \in 0..Today
  BY RoutingAssumption DEF Init
<1> DEFINE u == Idle(q)
<1>2. u.pc = "idle" /\ u.day = u.date /\ u.values = [d \in Days |-> ""] /\ u.date \in 0..Today
  BY <1>1 DEF Idle
<1>3. call[c] = u
  BY <1>1
<1> HIDE DEF u
<1>4. Window(u) \subseteq Days
  BY <1>2, WindowInDays
<1> QED
  BY <1>2, <1>3, <1>4 DEF DayKnown, ValuesSound

LEMMA NextExplained == IInv /\ Explained /\ [Next]_vars => Explained'
<1> SUFFICES ASSUME IInv, Explained, [Next]_vars PROVE Explained'
  OBVIOUS
<1>1. ASSUME NEW c \in Calls, Step(c) PROVE Explained'
  BY <1>1, RoutingExplained, YahooRequestExplained, LookForFileExplained, ReadFileExplained,
     DownloadExplained, OpenedExplained, WriteRestExplained, WriteFailsExplained DEF Step
<1>2. CASE UNCHANGED <<file, call, mishaps>>
  BY <1>2 DEF Explained, DayKnown, ValuesSound, Window
<1>3. CASE Kill
  BY <1>3, KillExplained
<1> QED
  BY <1>1, <1>2, <1>3 DEF Next, SetConfig, vars

(* Whatever the threads do to the file at the same time, a day without     *)
(* prices is told to the model as such, a price as what it is, and nothing *)
(* else is told of either, for any calendar, any number of calls and any   *)
(* configuration, unless the file was read while another thread wrote it,  *)
(* or a write of it was cut off or had nothing to write.                   *)
THEOREM GapsAreExplained == Spec => []GapsExplained
<1>1. Explained => GapsExplained
  BY DEF Explained, ValuesSound, Truth, GapsExplained
<1>2. Spec => []Explained
  BY Invariant, InitExplained, NextExplained, PTL DEF Spec
<1> QED
  BY <1>1, <1>2, PTL
=============================================================================
