------------------------------ MODULE Discover ------------------------------
(***************************************************************************)
(* discover_flow.run: the map of a site.  URLs are gathered from sitemaps  *)
(* and feeds, from an HTTP crawl (the library's), and, when the crawl came *)
(* back with a shell, from a bounded breadth-first search in the browser;  *)
(* one pass then canonicalises, filters, de-duplicates and caps them.      *)
(***************************************************************************)
EXTENDS Common, SequencesExt

CONSTANTS
    Hrefs,          \* URLs as the site writes them
    KeyOf,          \* without the trailing slash: what the search calls visited
    CanonOf,        \* normalize_url(aggressive=True)
    Wanted,         \* canonical URLs past domain, asset, pattern and robots filters
    SameSite,       \* hrefs is_same_domain accepts
    PublicHrefs,    \* hrefs that resolve to public hosts
    LinksOf,        \* internal links of the rendered page
    Seed,
    Files,          \* sitemap files; the index of Children, or the pages of Listed
    Children, Listed,
    RobotsMaps, StandardMap, CommonMaps,    \* where sitemaps are looked for
    FeedPages,      \* pages of the site's feeds
    MaxUrls,        \* max_urls
    MaxJsPages,     \* _DISCOVER_JS_MAX_PAGES
    FrontierFactor  \* 5 in the code

\* An index does not reach itself: _parse_sitemap follows one with no bound, and what comes
\* after it would not be reached.
ASSUME SitemapAssumption ==
    /\ IsFiniteSet(Files) /\ {StandardMap} \subseteq Files
    /\ Children \in [Files -> Seq(Files)] /\ Listed \in [Files -> Seq(Hrefs)]
    /\ {RobotsMaps, CommonMaps} \subseteq Seq(Files) /\ FeedPages \in Seq(Hrefs)
    /\ \E depth \in [Files -> 0..Cardinality(Files)] :
          \A f \in Files : \A i \in DOMAIN Children[f] : depth[Children[f][i]] < depth[f]
ASSUME DiscoverAssumption ==
    /\ Seed \in Hrefs /\ LinksOf \in [Hrefs -> Seq(Hrefs)]
    /\ MaxUrls \in Nat /\ {MaxJsPages, FrontierFactor} \subseteq Nat \ {0}

VARIABLES
    mode,       \* the request's mode and render_js
    phase,
    raw,        \* every URL gathered, in order
    crawled,    \* how many the HTTP crawl gave
    frontier, visited, rendered,    \* the search in the browser
    siteMap     \* the answer

discoverVars == <<mode, phase, raw, crawled, frontier, visited, rendered, siteMap>>

NoMap == [urls |-> <<>>, truncated |-> FALSE]

-----------------------------------------------------------------------------
(* Sitemaps *)

\* _parse_sitemap: an index is its children's pages in order, and fails with any of them
ParseSitemap(dead) ==
    LET parse[f \in Files] ==
            LET parts == [i \in DOMAIN Children[f] |-> parse[Children[f][i]]]
            IN  [ok |-> f \notin dead /\ \A i \in DOMAIN parts : parts[i].ok,
                 urls |-> Listed[f] \o FlattenSeq([i \in DOMAIN parts |-> parts[i].urls])]
    IN  parse

\* discover_seed_urls: robots.txt, the standard place, else the first common place
SitemapFiles(dead) ==
    LET standard == IF StandardMap \in ToSet(RobotsMaps) \cup dead THEN <<>> ELSE <<StandardMap>>
        named == RobotsMaps \o standard
        live == {i \in DOMAIN CommonMaps : CommonMaps[i] \notin dead}
    IN  IF named # <<>> THEN named ELSE IF live = {} THEN <<>> ELSE <<CommonMaps[Min(live)]>>

\* _gather_sitemap_urls: parse_sitemap turns a failure into no pages
SitemapUrls(dead, feeds) ==
    LET files == SitemapFiles(dead)
    IN  (IF feeds THEN FeedPages ELSE <<>>)
        \o FlattenSeq([i \in DOMAIN files |->
               IF ParseSitemap(dead)[files[i]].ok THEN ParseSitemap(dead)[files[i]].urls ELSE <<>>])

-----------------------------------------------------------------------------
(* _finalize_urls *)

MutFinalize(all) ==     \* the cap is tested before the duplicate
    LET add(acc, href) ==
            LET url == CanonOf[href]
            IN  IF acc.truncated \/ url \notin Wanted THEN acc
                ELSE IF Len(acc.urls) >= MaxUrls THEN [acc EXCEPT !.truncated = TRUE]
                ELSE IF url \in ToSet(acc.urls) THEN acc
                ELSE [acc EXCEPT !.urls = Append(@, url)]
    IN  FoldLeft(add, NoMap, all)
Finalize(all) ==
    LET add(acc, href) ==
            LET url == CanonOf[href]
            IN  IF acc.truncated \/ url \notin Wanted \/ url \in ToSet(acc.urls) THEN acc
                ELSE IF Len(acc.urls) >= MaxUrls THEN [acc EXCEPT !.truncated = TRUE]
                ELSE [acc EXCEPT !.urls = Append(@, url)]
    IN  FoldLeft(add, NoMap, all)

-----------------------------------------------------------------------------
(* The run *)

GatherSitemaps ==
    /\ phase = "sitemaps"
    /\ IF mode.sources \in {"sitemap", "hybrid"}
       THEN \E dead \in SUBSET Files, feeds \in BOOLEAN : raw' = raw \o SitemapUrls(dead, feeds)
       ELSE UNCHANGED raw
    /\ phase' = "crawl"
    /\ UNCHANGED <<mode, crawled, frontier, visited, rendered, siteMap>>

\* the HTTP crawl: at most a few pages here; a fault keeps what came before it
GatherCrawl ==
    /\ phase = "crawl"
    /\ IF mode.sources \in {"crawl", "hybrid"}
       THEN \E found \in {<<>>, <<Seed>>} \cup {<<Seed>> \o LinksOf[Seed]} :
               /\ raw' = raw \o found /\ crawled' = Len(found)
               /\ LET wanted == mode.js = "always" \/ (mode.js = "auto" /\ Len(found) <= 1)
                  IN  phase' = IF wanted THEN "js" ELSE "finish"
       ELSE phase' = "finish" /\ UNCHANGED <<raw, crawled>>
    /\ UNCHANGED <<mode, frontier, visited, rendered, siteMap>>

\* links of a rendered page that are enqueued: same site, not visited, within the bound
MutEnqueued(seen, queue, links) == queue \o links
Enqueued(seen, queue, links) ==
    LET add(acc, href) ==
            IF /\ Cardinality(seen) + Len(acc) < MaxJsPages * FrontierFactor
               /\ href \in SameSite /\ KeyOf[href] \notin seen
            THEN Append(acc, href) ELSE acc
    IN  FoldLeft(add, queue, links)

Searching == phase = "js" /\ frontier # <<>> /\ rendered < MaxJsPages

\* the head of the frontier: already visited, not public, a failed render, or a page
VisitJs(ok) ==
    /\ Searching
    /\ LET href == Head(frontier)
           seen == visited \cup {KeyOf[href]}
       IN  /\ visited' = seen
           /\ IF KeyOf[href] \in visited \/ href \notin PublicHrefs \/ ~ok
              THEN frontier' = Tail(frontier) /\ UNCHANGED <<raw, rendered>>
              ELSE /\ rendered' = rendered + 1
                   /\ raw' = raw \o <<href>> \o LinksOf[href]
                   /\ frontier' = Enqueued(seen, Tail(frontier), LinksOf[href])
    /\ UNCHANGED <<mode, phase, crawled, siteMap>>

\* nothing left, enough rendered, or the budget of time is spent
EndJs ==
    /\ phase = "js"
    /\ phase' = "finish"
    /\ UNCHANGED <<mode, raw, crawled, frontier, visited, rendered, siteMap>>

Finish ==
    /\ phase = "finish"
    /\ phase' = "done" /\ siteMap' = Finalize(raw)
    /\ UNCHANGED <<mode, raw, crawled, frontier, visited, rendered>>

DiscoverInit ==
    /\ mode \in [sources : {"sitemap", "crawl", "hybrid"}, js : {"auto", "always", "never"}]
    /\ phase = "sitemaps"
    /\ raw = <<Seed>> /\ crawled = 0
    /\ frontier = <<Seed>> /\ visited = {} /\ rendered = 0
    /\ siteMap = NoMap

DiscoverNext == GatherSitemaps \/ GatherCrawl \/ (\E ok \in BOOLEAN : VisitJs(ok)) \/ EndJs \/ Finish

-----------------------------------------------------------------------------
(* Properties *)

\* What the answer says of everything gathered.
ExactlyMaps(answer, all) ==
    LET wanted == {CanonOf[all[i]] : i \in DOMAIN all} \cap Wanted
        first(url) == Min({i \in DOMAIN all : CanonOf[all[i]] = url})
        urls == answer.urls
    IN  /\ answer.truncated <=> Cardinality(wanted) > MaxUrls
        /\ Len(urls) = Least(MaxUrls, Cardinality(wanted))
        /\ ToSet(urls) \subseteq wanted
        /\ \A i, j \in DOMAIN urls : i < j => first(urls[i]) < first(urls[j])
        /\ \A url \in wanted \ ToSet(urls), i \in DOMAIN urls : first(urls[i]) < first(url)

\* The map is exactly the wanted URLs gathered, each once, earliest first, and the flag
\* says truthfully whether any is missing (discover_flow._finalize_urls).  The search in the
\* browser stays small whatever the site links to ("so a high-fan-out page cannot balloon
\* it") and asks for no page twice.
MapExact ==
    /\ rendered <= MaxJsPages /\ rendered <= Cardinality(visited)
    /\ Cardinality(visited) + Len(frontier) <= MaxJsPages * FrontierFactor
    /\ phase = "done" => ExactlyMaps(siteMap, raw)
=============================================================================
