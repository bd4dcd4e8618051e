------------------------- MODULE MCArticleAnalysis --------------------------
(* The bounds of every run of ArticleAnalysis are in its cfg.              *)
EXTENDS ArticleAnalysis

=============================================================================
