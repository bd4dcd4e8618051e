-------------------------- MODULE MCArticleRefresh --------------------------
(* One image to find: the publication has none at first.                    *)
EXTENDS ArticleRefresh

=============================================================================
