---------------------------- MODULE MCThreadpool ----------------------------
EXTENDS Threadpool

\* A node that every thread works on, one that nobody works on and a product.
SmallGraphs == {<<"op", "nop", "mul_mat">>, <<"mul_mat_chunked">>}
=============================================================================
