----------------------------- MODULE MCStartup -----------------------------
(***************************************************************************)
(* Startup with the repository's two plugins and four builds of the server:*)
(* the first release, one that adds a migration to the core and to each    *)
(* plugin, one whose todo migration fails, and one with a bad blog.        *)
(***************************************************************************)
EXTENDS Startup

M(name, versions, broken) == [name |-> name, versions |-> versions, broken |-> broken]

MCMigrators ==
    [v1 |-> <<M("core", {}, {}), M("todo", {1}, {}), M("blog", {1}, {})>>,
     v2 |-> <<M("core", {1}, {}), M("todo", {1, 2}, {}), M("blog", {1, 2}, {})>>,
     broken |-> <<M("core", {}, {}), M("todo", {1, 2}, {2}), M("blog", {1, 2}, {})>>,
     refused |-> <<M("core", {1}, {}), M("todo", {1, 2}, {}), M("blog", {1}, {})>>]

AllReleases == {"v1", "v2", "broken", "refused"}
BadBuilds == {"refused"}
BothPlugins == {"todo", "blog"}
TodoOnly == {"todo"}
TodoThenBlog == <<"todo", "blog">>

\* A done and an open to-do; a post to archive and a draft.
MCTarget == [todo |-> <<1, 0>>, blog |-> <<2, 0>>]
=============================================================================
