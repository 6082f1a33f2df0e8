----------------------------- MODULE SearchBox -----------------------------
(***************************************************************************)
(* The search on the start page (components/SearchBar.js, routes/Home.js). *)
(* Every change of the field asks for suggestions, every submission and    *)
(* every click on a suggestion for results; answers set what is shown in    *)
(* the order in which they come.  A service that finds nothing, or fails,   *)
(* is replaced by a search in the products the page was rendered with.      *)
(*                                                                         *)
(* Suggestions and results are named by the keyword they answer.           *)
(***************************************************************************)
EXTENDS Integers

CONSTANTS Keywords,     \* what may be typed
          Found,        \* keywords for which something is found
          NothingTyped, \* the empty field
          NoResults,    \* searchResults null
          MaxTyped      \* bound: changes of the field, submissions and clicks

ASSUME KeywordsAssumption == Found \subseteq Keywords /\ {NothingTyped, NoResults} \cap Keywords = {}
ASSUME TypingAssumption == MaxTyped \in Nat

VARIABLES
  sbKeyword,      \* keyword
  sbSuggestions,  \* suggestions: the keyword they answer, or none
  sbShown,        \* showSuggestions
  sbResults,      \* Home's searchResults: the keyword they answer, or null
  sbCalls,        \* calls of GET /search/suggest and GET /search under way
  sbTyped,        \* how often the user acted
  sbWanted,       \* history: what was searched last
  sbRaced         \* history: did calls overlap, or the user act while one was under way

sbVars == <<sbKeyword, sbSuggestions, sbShown, sbResults, sbCalls, sbTyped, sbWanted, sbRaced>>

SearchBoxInit ==
  /\ sbKeyword = NothingTyped /\ sbSuggestions = NothingTyped /\ sbShown = FALSE
  /\ sbResults = NoResults /\ sbWanted = NoResults
  /\ sbCalls = {} /\ sbTyped = 0 /\ sbRaced = FALSE

(* A user's action, and what it asks for. *)
UserActs(calls) ==
  /\ sbTyped < MaxTyped
  /\ sbTyped' = sbTyped + 1
  /\ sbCalls' = sbCalls \cup calls
  /\ sbRaced' = (sbRaced \/ sbCalls # {})

Call(path, keyword) == [path |-> path, keyword |-> keyword, at |-> sbTyped]

(* handleChange, up to its call. *)
HandleChange(value) ==
  /\ value # sbKeyword
  /\ sbKeyword' = value
  /\ IF value # NothingTyped
     THEN UserActs({Call("suggest", value)}) /\ UNCHANGED <<sbSuggestions, sbShown>>
     ELSE UserActs({}) /\ sbSuggestions' = NothingTyped /\ sbShown' = FALSE
  /\ UNCHANGED <<sbResults, sbWanted>>

(* What is found in the index, or in the products of the page. *)
LocalSearch(keyword) == IF keyword \in Found THEN keyword ELSE NothingTyped

(* Its answer, or its failure: then nothing found is not shown. *)
SuggestAnswered(call) ==
  /\ call.path = "suggest"
  /\ sbSuggestions' = LocalSearch(call.keyword)
  /\ \/ sbShown' = TRUE
     \/ sbShown' = (sbSuggestions' # NothingTyped)
  /\ sbCalls' = sbCalls \ {call}
  /\ UNCHANGED <<sbKeyword, sbResults, sbTyped, sbWanted, sbRaced>>

(* handleSearch, up to its call. *)
HandleSearch ==
  /\ sbKeyword # NothingTyped
  /\ UserActs({Call("search", sbKeyword)})
  /\ sbWanted' = sbKeyword
  /\ UNCHANGED <<sbKeyword, sbSuggestions, sbShown, sbResults>>

(* handleSuggestionClick, up to its call: the title may be another keyword. *)
HandleSuggestionClick(title) ==
  /\ sbShown /\ sbSuggestions # NothingTyped
  /\ UserActs({Call("click", title)})
  /\ sbKeyword' = title /\ sbShown' = FALSE /\ sbWanted' = title
  /\ UNCHANGED <<sbSuggestions, sbResults>>

(* handleSearchResults; a submission also hides the suggestions, whatever they are by then. *)
SearchAnswered(call) ==
  /\ call.path \in {"search", "click"}
  /\ sbResults' = call.keyword
  /\ sbShown' = IF call.path = "search" THEN FALSE ELSE sbShown
  /\ sbCalls' = sbCalls \ {call}
  /\ UNCHANGED <<sbKeyword, sbSuggestions, sbTyped, sbWanted, sbRaced>>

(* The button beside the results. *)
ClearSearch ==
  /\ sbResults # NoResults
  /\ UserActs({})
  /\ sbResults' = NoResults /\ sbWanted' = NoResults
  /\ UNCHANGED <<sbKeyword, sbSuggestions, sbShown>>

(* onFocus shows what there is, onBlur hides it, 200 ms later. *)
FocusOrBlur ==
  /\ \/ ~sbShown /\ sbSuggestions # NothingTyped /\ sbShown' = TRUE
     \/ sbShown /\ sbShown' = FALSE
  /\ UNCHANGED <<sbKeyword, sbSuggestions, sbResults, sbCalls, sbTyped, sbWanted, sbRaced>>

(* The form and its list. *)
SearchForm ==
  \/ \E value \in Keywords \cup {NothingTyped} : HandleChange(value)
  \/ HandleSearch
  \/ \E title \in Keywords : HandleSuggestionClick(title)
  \/ FocusOrBlur

SearchCallAnswered == \E call \in sbCalls : SuggestAnswered(call) \/ SearchAnswered(call)

SearchBoxNext == SearchForm \/ ClearSearch \/ SearchCallAnswered

(* A call is answered, or it fails. *)
SearchBoxFairness == WF_sbVars(SearchCallAnswered)

SearchBoxSpec == SearchBoxInit /\ [][SearchBoxNext]_sbVars /\ SearchBoxFairness

-----------------------------------------------------------------------------
(* Properties *)

SearchBoxTypeOK ==
  /\ sbKeyword \in Keywords \cup {NothingTyped} /\ sbSuggestions \in Found \cup {NothingTyped}
  /\ sbShown \in BOOLEAN
  /\ sbResults \in Keywords \cup {NoResults} /\ sbWanted \in Keywords \cup {NoResults}
  /\ sbCalls \subseteq [path : {"suggest", "search", "click"}, keyword : Keywords, at : 0..MaxTyped]
  /\ sbTyped \in 0..MaxTyped /\ sbRaced \in BOOLEAN

(* When the user pauses, every search comes to be answered, if need be from the      *)
(* products at hand.  Unless the user acted while a call was under way, the results  *)
(* are then those of the last search, or none after they were cleared, and an empty  *)
(* field has no suggestions (SearchBar.js handleChange, handleSearch).               *)
SearchSettled ==
  /\ sbCalls = {}
  /\ ~sbRaced => /\ sbResults = sbWanted
                 /\ sbKeyword = NothingTyped => ~sbShown /\ sbSuggestions = NothingTyped
SearchSettles == <>[]SearchSettled
=============================================================================
