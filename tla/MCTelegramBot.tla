--------------------------- MODULE MCTelegramBot ---------------------------
(***************************************************************************)
(* A small instance of TelegramBot: links in the forms url_helpers.py      *)
(* names, several to a posting and several postings to a number, and       *)
(* workloads that put one hazard at a time under load.                     *)
(***************************************************************************)
EXTENDS TelegramBot, TLC

CONSTANTS u1, u2, c1, c2, k1, k2, cv1, cv2, s1, s2, applied, rejected

MCUsers == {u1, u2}
MCChats == {c1, c2}
MCCodes == {k1, k2}
MCCVs == {cv1, cv2}
MCSlots == {s1, s2}
MCStatuses == {applied, rejected}
MCTitles == {"first", "second"}
Symmetry == Permutations(MCUsers) \cup Permutations(MCChats) \cup Permutations(MCCodes)
            \cup Permutations(MCSlots)

NoQuery == [k \in {} |-> ""]
Https(host, path, query) == [scheme |-> "https", host |-> host, path |-> path, query |-> query]
Site(host, path) == Https(host, path, NoQuery)

\* <<name, posting, URL>>; names that begin with one word form a family.
Table == {
  <<"ashby",        "ashby acme 1",  Site(<<"jobs", "ashbyhq", "com">>, <<"acme", "1">>)>>,
  <<"ashby apply",  "ashby acme 1",  Site(<<"jobs", "ashbyhq", "com">>, <<"acme", "1", "application">>)>>,
  <<"ashby host",   "ashby acme 1",  Site(<<"acme", "ashbyhq", "com">>, <<"1">>)>>,
  <<"ashby beta",   "ashby beta 1",  Site(<<"jobs", "ashbyhq", "com">>, <<"beta", "1">>)>>,
  <<"gh",           "gh acme 1",     Site(<<"boards", "greenhouse", "io">>, <<"acme", "jobs", "1">>)>>,
  <<"gh slash",     "gh acme 1",     Site(<<"job-boards", "greenhouse", "io">>, <<"acme", "jobs", "1", "">>)>>,
  <<"gh embed",     "gh acme 1",     Https(<<"boards", "greenhouse", "io">>, <<"embed", "job_app">>,
                                           ("for" :> "acme") @@ ("token" :> "1"))>>,
  <<"gh beta",      "gh beta 1",     Https(<<"boards", "greenhouse", "io">>, <<"embed", "job_app">>,
                                           ("for" :> "beta") @@ ("token" :> "1"))>>,
  <<"gh bare",      "gh acme 1",     Site(<<"greenhouse", "io">>, <<"jobs", "1">>)>>,
  <<"lever",        "lever acme 1",  Site(<<"jobs", "lever", "co">>, <<"acme", "1">>)>>,
  <<"lever apply",  "lever acme 1",  Site(<<"jobs", "lever", "co">>, <<"acme", "1", "apply">>)>>,
  <<"lever host",   "lever acme 1",  Site(<<"acme", "lever", "co">>, <<"1">>)>>,
  <<"lever beta",   "lever beta 1",  Site(<<"jobs", "eu", "lever", "co">>, <<"beta", "1">>)>>,
  <<"sap",          "sap acme 1",    Site(<<"acme", "jobs", "hr", "cloud", "sap">>, <<"job", "Dev", "100001-en_US">>)>>,
  <<"sap de",       "sap acme 1",    Site(<<"acme", "jobs", "hr", "cloud", "sap">>, <<"job", "Entw", "100001-de_DE">>)>>,
  <<"sap beta",     "sap beta 1",    Site(<<"beta", "jobs", "hr", "cloud", "sap">>, <<"job", "Dev", "100001-en_US">>)>>,
  <<"workday",      "workday acme 1", Site(<<"acme", "wd3", "myworkdayjobs", "com">>, <<"Site", "job", "Dev_R-1">>)>>,
  <<"workday en",   "workday acme 1", Site(<<"acme", "wd3", "myworkdayjobs", "com">>, <<"en-US", "Site", "job", "Dev_R-1">>)>>,
  <<"workday beta", "workday beta 1", Site(<<"beta", "wd3", "myworkdayjobs", "com">>, <<"Site", "job", "Dev_R-1">>)>>,
  <<"personio",     "personio acme 1", Site(<<"acme", "jobs", "personio", "de">>, <<"job", "1">>)>>,
  <<"personio beta", "personio beta 1", Site(<<"beta", "jobs", "personio", "de">>, <<"job", "1">>)>>,
  <<"smart",        "smart 1",       Site(<<"jobs", "smartrecruiters", "com">>, <<"Acme", "1-dev">>)>>,
  <<"smart www",    "smart 1",       Site(<<"www", "smartrecruiters", "com">>, <<"Acme", "1-dev">>)>>,
  <<"join",         "join acme 1",   Site(<<"join", "com">>, <<"companies", "acme", "100001-dev">>)>>,
  <<"join slug",    "join acme 1",   Site(<<"join", "com">>, <<"companies", "acme", "100001-developer">>)>>,
  <<"join beta",    "join beta 1",   Site(<<"join", "com">>, <<"companies", "beta", "100001-dev">>)>>,
  <<"team",         "team acme 1",   Site(<<"acme", "teamtailor", "com">>, <<"jobs", "1-dev">>)>>,
  <<"team apply",   "team acme 1",   Site(<<"acme", "teamtailor", "com">>, <<"jobs", "1-dev", "applications">>)>>,
  <<"icims",        "icims acme 1",  Site(<<"careers-acme", "icims", "com">>, <<"jobs", "1", "dev", "job">>)>>,
  <<"icims beta",   "icims beta 1",  Site(<<"careers-beta", "icims", "com">>, <<"jobs", "1", "dev", "job">>)>>,
  <<"linkedin",     "linkedin 1",    Site(<<"www", "linkedin", "com">>, <<"jobs", "view", "100001">>)>>,
  <<"linkedin de",  "linkedin 1",    Site(<<"de", "linkedin", "com">>, <<"jobs", "view", "100001", "">>)>>,
  <<"linkedin 2",   "linkedin 2",    Site(<<"www", "linkedin", "com">>, <<"jobs", "view", "100002">>)>>,
  <<"indeed",       "indeed 1",      Https(<<"de", "indeed", "com">>, <<"viewjob">>, "jk" :> "1")>>,
  <<"indeed vjk",   "indeed 1",      Https(<<"indeed", "de">>, <<"jobs">>, "vjk" :> "1")>>,
  <<"indeed 2",     "indeed 2",      Https(<<"de", "indeed", "com">>, <<"viewjob">>, "jk" :> "2")>>,
  <<"step",         "step 1",        Site(<<"www", "stepstone", "de">>, <<"jobs", "dev--1">>)>>,
  <<"step listing", "step 2",        Site(<<"www", "stepstone", "de">>, <<"dev--2", "apply">>)>>,
  <<"corp",         "corp acme 1",   Site(<<"talent", "acme", "co", "uk">>, <<"job", "100001">>)>>,
  <<"corp beta",    "corp beta 1",   Site(<<"talent", "beta", "com">>, <<"job", "100001">>)>>,
  <<"corp agency",  "corp hays 1",   Site(<<"www", "hays", "com">>, <<"careers">>)>> }

Families == {{"ashby", "ashby apply", "ashby host", "ashby beta"},
             {"gh", "gh slash", "gh embed", "gh beta", "gh bare"},
             {"lever", "lever apply", "lever host", "lever beta"},
             {"sap", "sap de", "sap beta"}, {"workday", "workday en", "workday beta"},
             {"personio", "personio beta", "smart", "smart www"},
             {"join", "join slug", "join beta"}, {"team", "team apply", "icims", "icims beta"},
             {"linkedin", "linkedin de", "linkedin 2"}, {"indeed", "indeed vjk", "indeed 2"},
             {"step", "step listing"}, {"corp", "corp beta", "corp agency"}}

MCLinks == {row[1] : row \in Table}
MCUrl == [l \in MCLinks |-> (CHOOSE row \in Table : row[1] = l)[3]]
MCPosting == [l \in MCLinks |-> (CHOOSE row \in Table : row[1] = l)[2]]

\* Left out, because their identity does not say whose posting it is: the form of
\* Greenhouse that names no tenant, iCIMS, whose tenant the rule drops, and corporate
\* sites, whose provider is the first label of the host, "talent" here.  The first
\* stores a posting twice, the others make one offering of two postings.
MCIdentified == MCLinks \ {"gh bare", "icims", "icims beta", "corp", "corp beta"}

MCLongNumbers == {"100001", "100002"}
MCLeadingNumber == [n \in {"100001-dev", "100001-developer", "100001-en_US", "100001-de_DE",
                           "100001", "100002", "1-dev"} |->
                       IF n = "1-dev" THEN "1" ELSE IF n = "100002" THEN n ELSE "100001"]
MCLocalized == {"100001-en_US", "100001-de_DE"}

MCFinal == {rejected}
View(category, q, ignored, sort) ==
    [category |-> category, q |-> q, ignored |-> ignored, sort |-> sort]
MCViews == {View("with-statuses", "", {}, "created_desc"),
            View("my", "", {}, "created_desc"),
            View("open", "", {}, "created_asc"),
            View("all", "given", {applied}, "created_desc")}

Load(kinds, links, requests) ==
    [kinds |-> kinds, links |-> links, requests |-> requests, stock |-> <<>>, to |-> applied, linked |-> FALSE]

Stocked(stock, kinds, links, requests) ==
    [Load(kinds, links, requests) EXCEPT !.stock = stock, !.linked = TRUE]
OnePage == <<"gh", "lever">>
TwoPages == <<"gh", "lever", "ashby">>

MCWorkloads ==
    {Load({"create", "apply"}, f, 2) : f \in Families} \cup
    {Load({"create", "proxy", "delete"}, {"gh", "gh embed"}, 4),
     Load({"apply", "delete"}, {"gh"}, 4),
     Load({"apply", "status", "update", "delete"}, {"gh"}, 3),
     Stocked(<<"gh">>, {"status", "update", "delete"}, {}, 3),
     Load({"apply", "note", "read"}, {"gh"}, 4),
     Load({"code", "link", "unlink", "myjobs", "restart"}, {}, 7),
     Load({"code", "link", "unlink", "applied", "restart"}, {"gh"}, 6),
     Load({"save", "snapshot"}, {}, 5),
     Stocked(OnePage, {"list", "web delete"}, {}, 3),
     Stocked(TwoPages, {"list", "web delete", "score", "create", "status"}, {"step"}, 2),
     Stocked(TwoPages, {"list", "score"}, {}, 3),
     Stocked(TwoPages, {"myjobs", "more", "status"}, {}, 3)}
=============================================================================
