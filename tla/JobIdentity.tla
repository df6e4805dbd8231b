----------------------------- MODULE JobIdentity -----------------------------
(***************************************************************************)
(* The canonical identity of a job URL (url_helpers.py, deduce_from_url).  *)
(* A URL is its scheme, the labels of its host, the segments of its path   *)
(* ("" where two slashes meet or the path ends in one) and its query.  An  *)
(* external id is a sequence of strings: one segment of the path, one      *)
(* value of the query, or, where neither names the posting, the hash of    *)
(* the URL without its query, which two URLs share only if they are equal. *)
(* The tables of hosts are samples of the code's, every rule with at least *)
(* one entry; letter case and foundOn are left out.                        *)
(***************************************************************************)
EXTENDS Integers, Sequences, SequencesExt

CONSTANTS LongNumbers,     \* segments of six digits or more
          LeadingNumber,   \* segments that start with a number -> that number
          Localized        \* those of them that end in a locale: 123-en_US

OtherAts == {[suffix |-> <<"teamtailor", "com">>,  provider |-> "teamtailor"],
             [suffix |-> <<"applytojob", "com">>,  provider |-> "workable"],
             [suffix |-> <<"recruitee", "com">>,   provider |-> "recruitee"],
             [suffix |-> <<"icims", "com">>,       provider |-> "icims"]}

Boards == {[suffix |-> <<"linkedin", "com">>,  provider |-> "linkedin"],
           [suffix |-> <<"indeed", "com">>,    provider |-> "indeed"],
           [suffix |-> <<"indeed", "de">>,     provider |-> "indeed"],
           [suffix |-> <<"stepstone", "de">>,  provider |-> "stepstone"]}

GenericLabels   == {"job", "jobs", "career", "careers", "karriere"}
GenericSegments == GenericLabels \cup {"apply", "position", "positions", "listing"}
Agencies == {<<"hays", "com">>}     \* they post for others
TwoLevelSuffixes == {<<"co", "uk">>, <<"com", "au">>}

-----------------------------------------------------------------------------
Host(u) == IF Head(u.host) = "www" THEN Tail(u.host) ELSE u.host

Under(u, domain) == IsSuffix(domain, Host(u))

Parts(u) == SelectSeq(u.path, LAMBDA p : p # "")

LastPart(u) == IF Parts(u) = <<>> THEN "" ELSE Last(Parts(u))

\* The segment after the first occurrence of token that is not the last one.
FirstAfter(u, token) ==
    LET at == {i \in 1 .. Len(Parts(u)) - 1 : Parts(u)[i] = token}
    IN  IF at = {} THEN "" ELSE Parts(u)[1 + CHOOSE i \in at : \A k \in at : i <= k]

Query(u, key) == IF key \in DOMAIN u.query THEN u.query[key] ELSE ""

Or(a, b) == IF a # "" THEN a ELSE b

Fallback(u) == <<"sha1", u.scheme>> \o Host(u) \o <<"/">> \o u.path

IdOr(segment, u) == IF segment # "" THEN <<segment>> ELSE Fallback(u)

Identity(provider, tenant, id, company) ==
    [provider |-> provider, tenant |-> tenant, id |-> id, company |-> company]

\* The usual result: the tenant is also the hiring company.
Tenant(provider, tenant, id) ==
    Identity(provider, IF tenant = "" THEN <<>> ELSE <<tenant>>, id, tenant)

-----------------------------------------------------------------------------
Ashby(u) ==
    LET first == Head(Host(u))
    IN  IF first = "jobs" /\ Len(Parts(u)) >= 2
        THEN Tenant("ashby", Parts(u)[1], <<Parts(u)[2]>>)
        ELSE Tenant("ashby", IF first = "ashbyhq" THEN "" ELSE first, IdOr(LastPart(u), u))

\* Mutant: the embedded form is read like the others.
MutantGreenhouse(u) ==
    LET first  == IF Parts(u) = <<>> THEN "" ELSE Head(Parts(u))
        tenant == IF first \in {"jobs", "job", "embed"} THEN "" ELSE first
    IN  Tenant("greenhouse", Or(FirstAfter(u, "boards"), tenant),
               IdOr(Or(FirstAfter(u, "jobs"), LastPart(u)), u))

\* The embedded form names the tenant and the posting in its query.
Greenhouse(u) ==
    LET first  == IF Parts(u) = <<>> THEN "" ELSE Head(Parts(u))
        tenant == IF first \in {"jobs", "job", "embed"} THEN "" ELSE first
    IN  Tenant("greenhouse",
               Or(Query(u, "for"), Or(FirstAfter(u, "boards"), tenant)),
               IdOr(Or(Query(u, "token"), Or(FirstAfter(u, "jobs"), LastPart(u))), u))

Lever(u) ==
    LET parts == Parts(u)
        left  == IF Len(Host(u)) = 2 THEN Host(u) ELSE SubSeq(Host(u), 1, Len(Host(u)) - 2)
    IN  IF Head(left) = "jobs"
        THEN Tenant("lever", IF parts = <<>> THEN "" ELSE parts[1],
                    IF Len(parts) >= 2 THEN <<parts[2]>> ELSE Fallback(u))
        ELSE Tenant("lever", Head(left), IdOr(LastPart(u), u))

\* /job/<slug>/<number>-<locale> under a tenant of the career site builder.
IsSuccessFactors(u) ==
    /\ Under(u, <<"jobs", "hr", "cloud", "sap">>) /\ Len(Host(u)) > 4
    /\ Len(Parts(u)) >= 3
    /\ Parts(u)[Len(Parts(u)) - 2] = "job"
    /\ LastPart(u) \in Localized

SuccessFactors(u) ==
    Identity("successfactors", Host(u), <<LeadingNumber[LastPart(u)]>>, Head(Host(u)))

\* Workday, Personio: the tenant is the first label, the posting the last segment.
HostTenant(provider, u) == Tenant(provider, Head(Host(u)), IdOr(LastPart(u), u))

SmartRecruiters(u) ==
    Tenant("smartrecruiters",
           Or(FirstAfter(u, "SmartRecruiters"), FirstAfter(u, "company")),
           IdOr(Or(FirstAfter(u, "job"), LastPart(u)), u))

Join(u) ==
    Tenant("join", FirstAfter(u, "companies"),
           IF LastPart(u) \in DOMAIN LeadingNumber THEN <<LeadingNumber[LastPart(u)]>>
                                                   ELSE IdOr(LastPart(u), u))

Other(a, u) ==
    LET tenant == IF Under(u, <<"applytojob", "com">>) \/ a.provider = "icims"
                  THEN "" ELSE Head(Host(u))
    IN  Tenant(a.provider, tenant, IdOr(Or(FirstAfter(u, "jobs"), LastPart(u)), u))

\* A board does not say who hires.
Board(b, u) ==
    LET view == Or(FirstAfter(u, "view"), LastPart(u))
        id == CASE b.provider = "linkedin" ->
                       IF view \in LongNumbers THEN <<view>> ELSE Fallback(u)
                [] b.provider = "indeed" ->
                       IdOr(Or(Query(u, "jk"), Or(Query(u, "vjk"), LastPart(u))), u)
                [] OTHER ->
                       IF LastPart(u) \in GenericSegments THEN Fallback(u)
                                                          ELSE IdOr(LastPart(u), u)
    IN  Identity(b.provider, <<>>, id, "")

-----------------------------------------------------------------------------
SuffixLength(h) ==
    IF Len(h) >= 3 /\ SubSeq(h, Len(h) - 1, Len(h)) \in TwoLevelSuffixes THEN 2 ELSE 1

\* The first label, or the second one if the first says nothing.
ProviderFromHost(h) ==
    LET pre == SubSeq(h, 1, Len(h) - SuffixLength(h))
    IN  IF Len(h) = 1 THEN h[1]
        ELSE IF pre[1] \in GenericLabels /\ Len(pre) > 1 THEN pre[2] ELSE pre[1]

\* The last label before the public suffix that says something.
CompanyFromHost(h) ==
    LET stop  == Len(h) - SuffixLength(h)
        named == {i \in 1 .. stop : h[i] \notin GenericLabels}
    IN  IF Len(h) = 1 THEN h[1]
        ELSE IF named = {} THEN h[stop]
        ELSE h[CHOOSE i \in named : \A k \in named : k <= i]

Corporate(u) ==
    LET after == FirstAfter(u, "job")
        id == IF after # "" THEN <<after>>
              ELSE IF LastPart(u) \in GenericSegments THEN Fallback(u)
              ELSE IdOr(LastPart(u), u)
        company == IF \E a \in Agencies : Under(u, a) THEN "" ELSE CompanyFromHost(Host(u))
    IN  Identity(ProviderFromHost(Host(u)), <<>>, id, company)

DeduceFromUrl(u) ==
    CASE Under(u, <<"ashbyhq", "com">>)         -> Ashby(u)
      [] Under(u, <<"greenhouse", "io">>)       -> Greenhouse(u)
      [] Under(u, <<"lever", "co">>)            -> Lever(u)
      [] IsSuccessFactors(u)                    -> SuccessFactors(u)
      [] Under(u, <<"myworkdayjobs", "com">>)   -> HostTenant("workday", u)
      [] Under(u, <<"jobs", "personio", "de">>) -> HostTenant("personio", u)
      [] Under(u, <<"smartrecruiters", "com">>) -> SmartRecruiters(u)
      [] Under(u, <<"join", "com">>)            -> Join(u)
      [] \E a \in OtherAts : Under(u, a.suffix) ->
             Other(CHOOSE a \in OtherAts : Under(u, a.suffix), u)
      [] \E b \in Boards : Under(u, b.suffix)   ->
             Board(CHOOSE b \in Boards : Under(u, b.suffix), u)
      [] OTHER                                  -> Corporate(u)
=============================================================================
